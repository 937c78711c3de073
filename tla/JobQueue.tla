------------------------------ MODULE JobQueue ------------------------------
(***************************************************************************)
(* The durable job queue of the private workspace (workspace/jobs.py) and  *)
(* the worker that drains it (workspace/runner.py, ingest.run_job and      *)
(* ingest._stream_records), together with the only other writer of         *)
(* jobs.state, export.build_artifact.                                      *)
(*                                                                         *)
(* Every SQLite transaction ("BEGIN IMMEDIATE" or one autocommitted        *)
(* statement) is one step; what a process remembers between two of its     *)
(* transactions is in pc, work and local (workers), xpc and xwork          *)
(* (exports).  Wall-clock time is abstracted to the one fact the queries   *)
(* read: whether a lease has run out.  A worker may be slower than its own *)
(* lease, so a lease may run out at any moment.                            *)
(*                                                                         *)
(* A file is Records records of one identifier each.  record_no and        *)
(* ordinal of the checkpoint coincide then, and ckpt.rec is record_no + 1: *)
(* the number of records the checkpoint says are committed.                *)
(***************************************************************************)
EXTENDS Naturals, FiniteSets

CONSTANTS
  NJobs,        \* jobs are numbered in the order of created_at
  Worker,       \* processes or threads that run run_once
  Exporter,     \* requests that run build_artifact
  Id,           \* values of jobs.lease_owner
  WorkerId,     \* the worker id each process presents to the queue
  NoOwner,      \* NULL in jobs.lease_owner
  Records,      \* records of a source file
  Batch,        \* BATCH_RECORDS
  MaxAttempts   \* jobs.max_attempts

ASSUME JobQueueAssumption ==
  /\ NJobs \in Nat
  /\ Records \in Nat
  /\ Batch \in Nat \ {0}
  /\ MaxAttempts \in Nat \ {0}
  /\ WorkerId \in [Worker -> Id]
  /\ NoOwner \notin Id

Job == 1 .. NJobs
Rec == 1 .. Records

VARIABLES
  state,      \* jobs.state, or "none" before the INSERT
  owner,      \* jobs.lease_owner
  lease,      \* jobs.lease_until: NULL ("none"), in the future, or in the past
  attempts,   \* jobs.attempts
  cancel,     \* jobs.cancel_requested
  ckpt,       \* jobs.checkpoint_json
  rows,       \* the ordinals in observations
  total,      \* job_counters.records_total
  pc,         \* where each worker stands in run_job
  work,       \* the job it claimed (0 when idle)
  local,      \* its ckpt dictionary
  xpc,        \* where each export stands in build_artifact
  xwork       \* the job it exports (0 when idle)

tableVars  == <<state, owner, lease, attempts, cancel, ckpt, rows, total>>
workerVars == <<pc, work, local>>
exportVars == <<xpc, xwork>>
vars == <<state, owner, lease, attempts, cancel, ckpt, rows, total,
          pc, work, local, xpc, xwork>>

JobState == {"none", "queued", "inspecting", "validating", "awaiting_review",
             "exporting", "completed", "failed", "cancelled"}
Running   == {"inspecting", "validating", "exporting"}
Presented == {"awaiting_review", "exporting", "completed"}

Checkpoint == [inspected : BOOLEAN, rec : 0 .. Records, done : BOOLEAN]
Empty      == [inspected |-> FALSE, rec |-> 0, done |-> FALSE]

\* The places of run_job; each is named for the transaction that comes next.
Place == {"idle", "claimed", "detect", "inspect", "open", "stream",
          "compare", "finish", "complete", "cancelling"}

TypeOK ==
  /\ state \in [Job -> JobState]
  /\ owner \in [Job -> Id \cup {NoOwner}]
  /\ lease \in [Job -> {"none", "live", "expired"}]
  /\ attempts \in [Job -> 0 .. MaxAttempts]
  /\ cancel \in [Job -> BOOLEAN]
  /\ ckpt \in [Job -> Checkpoint]
  /\ rows \in [Job -> SUBSET Rec]
  /\ total \in [Job -> Nat]
  /\ pc \in [Worker -> Place]
  /\ work \in [Worker -> 0 .. NJobs]
  /\ \A w \in Worker : pc[w] # "idle" => work[w] \in Job
  /\ local \in [Worker -> Checkpoint]
  /\ xpc \in [Exporter -> {"idle", "checked", "writing"}]
  /\ xwork \in [Exporter -> 0 .. NJobs]
  /\ \A x \in Exporter : xpc[x] # "idle" => xwork[x] \in Job

Init ==
  /\ state = [j \in Job |-> "none"]
  /\ owner = [j \in Job |-> NoOwner]
  /\ lease = [j \in Job |-> "none"]
  /\ attempts = [j \in Job |-> 0]
  /\ cancel = [j \in Job |-> FALSE]
  /\ ckpt = [j \in Job |-> Empty]
  /\ rows = [j \in Job |-> {}]
  /\ total = [j \in Job |-> 0]
  /\ pc = [w \in Worker |-> "idle"]
  /\ work = [w \in Worker |-> 0]
  /\ local = [w \in Worker |-> Empty]
  /\ xpc = [x \in Exporter |-> "idle"]
  /\ xwork = [x \in Exporter |-> 0]

-----------------------------------------------------------------------------
(* Requests on the queue and the passing of time.                          *)

\* create_job: a new row, queued, with an empty checkpoint.
Submit(j) ==
  /\ state[j] = "none"
  /\ \A i \in Job : i < j => state[i] # "none"
  /\ state' = [state EXCEPT ![j] = "queued"]
  /\ UNCHANGED <<owner, lease, attempts, cancel, ckpt, rows, total>>
  /\ UNCHANGED <<workerVars, exportVars>>

\* cancel: the request is only a flag, accepted in any state.
Cancel(j) ==
  /\ state[j] # "none"
  /\ cancel' = [cancel EXCEPT ![j] = TRUE]
  /\ UNCHANGED <<state, owner, lease, attempts, ckpt, rows, total>>
  /\ UNCHANGED <<workerVars, exportVars>>

\* lease_until passes.
Expire(j) ==
  /\ lease[j] = "live"
  /\ lease' = [lease EXCEPT ![j] = "expired"]
  /\ UNCHANGED <<state, owner, attempts, cancel, ckpt, rows, total>>
  /\ UNCHANGED <<workerVars, exportVars>>

-----------------------------------------------------------------------------
(* The worker.                                                             *)

\* Mutant of Claimable: a NULL lease is taken for one that is held.
ClaimableIfExpired(j) ==
  /\ \/ state[j] = "queued"
     \/ state[j] \in Running /\ lease[j] = "expired"
  /\ attempts[j] < MaxAttempts
  /\ ~cancel[j]

\* What claim() selects.
Claimable(j) ==
  /\ \/ state[j] = "queued"
     \/ state[j] \in Running /\ lease[j] # "live"
  /\ attempts[j] < MaxAttempts
  /\ ~cancel[j]

\* Mutant of Oldest: the head of the queue is chosen before it is filtered.
OldestQueued(j) == \A i \in Job : state[i] = "queued" => j <= i

Oldest(j) == \A i \in Job : Claimable(i) => j <= i

\* claim: the oldest claimable job, its lease and one more attempt.
Claim(w) ==
  /\ pc[w] = "idle"
  /\ \E j \in Job :
       /\ Claimable(j)
       /\ Oldest(j)
       /\ owner' = [owner EXCEPT ![j] = WorkerId[w]]
       /\ lease' = [lease EXCEPT ![j] = "live"]
       /\ attempts' = [attempts EXCEPT ![j] = @ + 1]
       /\ state' = [state EXCEPT ![j] = IF @ = "queued" THEN "inspecting" ELSE @]
       /\ work' = [work EXCEPT ![w] = j]
  /\ pc' = [pc EXCEPT ![w] = "claimed"]
  /\ UNCHANGED <<cancel, ckpt, rows, total, local, exportVars>>

Owns(w) == owner[work[w]] = WorkerId[w]

\* Mutant of Resume: a file that was begun is taken for a finished one.
ResumeBegun(c) == CASE ~c.inspected -> "detect"
                    [] c.inspected /\ c.rec = 0 -> "open"
                    [] OTHER -> "compare"

\* Where run_job goes on from the checkpoint it loaded.
Resume(c) == CASE ~c.inspected -> "detect"
               [] c.inspected /\ ~c.done -> "open"
               [] OTHER -> "compare"

\* load_checkpoint: a read of its own, after the claim has committed.
Load(w) ==
  /\ pc[w] = "claimed"
  /\ local' = [local EXCEPT ![w] = ckpt[work[w]]]
  /\ pc' = [pc EXCEPT ![w] = Resume(ckpt[work[w]])]
  /\ UNCHANGED <<tableVars, work, exportVars>>

\* set_step, guarded by the owner.
SetStep(w, from, s, to) ==
  /\ pc[w] = from
  /\ Owns(w)
  /\ state' = [state EXCEPT ![work[w]] = s]
  /\ pc' = [pc EXCEPT ![w] = to]
  /\ UNCHANGED <<owner, lease, attempts, cancel, ckpt, rows, total>>
  /\ UNCHANGED <<work, local, exportVars>>

Detect(w)  == SetStep(w, "detect", "inspecting", "inspect")
Open(w)    == SetStep(w, "open", "validating", "stream")
Compare(w) == SetStep(w, "compare", "validating", "finish")

\* jobs.checkpoint as run_job uses it after the inspection: the detected
\* format, and nothing committed.
FirstCheckpoint(w) ==
  LET c == [inspected |-> TRUE, rec |-> 0, done |-> FALSE] IN
    /\ local' = [local EXCEPT ![w] = c]
    /\ ckpt' = [ckpt EXCEPT ![work[w]] = c]
    /\ pc' = [pc EXCEPT ![w] = "open"]
    /\ UNCHANGED <<state, owner, lease, attempts, cancel, rows, total>>
    /\ UNCHANGED <<work, exportVars>>

\* Mutant of Inspect: the checkpoint is written by whoever comes.
InspectUnowned(w) == pc[w] = "inspect" /\ FirstCheckpoint(w)

Inspect(w) == pc[w] = "inspect" /\ Owns(w) /\ FirstCheckpoint(w)

\* Mutants of Heartbeat: deaf to the loss of the lease, or to a cancellation.
HeartbeatUnowned(w) == ~cancel[work[w]]
HeartbeatDeaf(w)    == Owns(w)

\* heartbeat raises neither LeaseLost nor JobCancelled.
Heartbeat(w) == Owns(w) /\ ~cancel[work[w]]

\* flush: rows, counter deltas, checkpoint and heartbeat in one transaction.
\* A batch is full (more may follow) or it is the last one and sets done.
Flush(w) ==
  /\ pc[w] = "stream"
  /\ Heartbeat(w)
  /\ LET j    == work[w]
         from == local[w].rec
         full == from + Batch <= Records
         upto == IF full THEN from + Batch ELSE Records
         c    == [inspected |-> TRUE, rec |-> upto, done |-> ~full]
     IN  /\ rows' = [rows EXCEPT ![j] = @ \cup (from + 1 .. upto)]
         /\ total' = [total EXCEPT ![j] = @ + (upto - from)]
         /\ ckpt' = [ckpt EXCEPT ![j] = c]
         /\ local' = [local EXCEPT ![w] = c]
         /\ lease' = [lease EXCEPT ![j] = "live"]
         /\ pc' = [pc EXCEPT ![w] = IF full THEN "stream" ELSE "compare"]
  /\ UNCHANGED <<state, owner, attempts, cancel, work, exportVars>>

\* JobCancelled leaves the flush transaction: the whole batch is rolled back.
FlushCancelled(w) ==
  /\ pc[w] = "stream"
  /\ Owns(w)
  /\ cancel[work[w]]
  /\ pc' = [pc EXCEPT ![w] = "cancelling"]
  /\ UNCHANGED <<tableVars, work, local, exportVars>>

\* LeaseLost from any owner-guarded statement: the worker just returns.
LeaseLost(w) ==
  /\ pc[w] \in {"detect", "inspect", "open", "stream", "compare"}
  /\ ~Owns(w)
  /\ pc' = [pc EXCEPT ![w] = "idle"]
  /\ work' = [work EXCEPT ![w] = 0]
  /\ UNCHANGED <<tableVars, local, exportVars>>

\* reconcile.finish_job, which writes none of the queue's columns.
FinishJob(w) ==
  /\ pc[w] = "finish"
  /\ pc' = [pc EXCEPT ![w] = "complete"]
  /\ UNCHANGED <<tableVars, work, local, exportVars>>

\* An owner-guarded UPDATE that ends the attempt in state s; without the
\* lease it changes nothing and nobody is told.
EndAttempt(w, s) ==
  /\ IF Owns(w)
     THEN /\ state' = [state EXCEPT ![work[w]] = s]
          /\ owner' = [owner EXCEPT ![work[w]] = NoOwner]
          /\ lease' = [lease EXCEPT ![work[w]] = "none"]
     ELSE UNCHANGED <<state, owner, lease>>
  /\ pc' = [pc EXCEPT ![w] = "idle"]
  /\ work' = [work EXCEPT ![w] = 0]
  /\ UNCHANGED <<attempts, cancel, ckpt, rows, total, local, exportVars>>

Complete(w) == pc[w] = "complete" /\ EndAttempt(w, "awaiting_review")

\* The places inside run_job's try block.
Guarded == Place \ {"idle", "claimed", "cancelling"}

\* fail: any other exception; the job is retried while attempts are left.
Fail(w) ==
  /\ pc[w] \in Guarded
  /\ EndAttempt(w, IF attempts[work[w]] >= MaxAttempts THEN "failed" ELSE "queued")

\* An unsupported format, a budget or an XML limit: failed without a retry.
\* All three are met before the comparison starts.
Reject(w) == pc[w] \in Guarded \ {"finish", "complete"} /\ EndAttempt(w, "failed")

\* mark_cancelled has no owner guard.
MarkCancelled(w) ==
  /\ pc[w] = "cancelling"
  /\ state' = [state EXCEPT ![work[w]] = "cancelled"]
  /\ owner' = [owner EXCEPT ![work[w]] = NoOwner]
  /\ lease' = [lease EXCEPT ![work[w]] = "none"]
  /\ pc' = [pc EXCEPT ![w] = "idle"]
  /\ work' = [work EXCEPT ![w] = 0]
  /\ UNCHANGED <<attempts, cancel, ckpt, rows, total, local, exportVars>>

\* The process dies; an open transaction rolls back, the row keeps its lease.
Crash(w) ==
  /\ pc[w] # "idle"
  /\ pc' = [pc EXCEPT ![w] = "idle"]
  /\ work' = [work EXCEPT ![w] = 0]
  /\ UNCHANGED <<tableVars, local, exportVars>>

-----------------------------------------------------------------------------
(* build_artifact, as far as jobs.state goes: the state is checked in one  *)
(* transaction and overwritten in later ones.                              *)

\* Mutant of CheckExport: the state of the job is not looked at.
CheckExportBlindly(x, j) ==
  /\ xpc[x] = "idle"
  /\ state[j] # "none"
  /\ xpc' = [xpc EXCEPT ![x] = "checked"]
  /\ xwork' = [xwork EXCEPT ![x] = j]
  /\ UNCHANGED <<tableVars, workerVars>>

CheckExport(x, j) ==
  /\ xpc[x] = "idle"
  /\ state[j] \in {"awaiting_review", "completed"}
  /\ xpc' = [xpc EXCEPT ![x] = "checked"]
  /\ xwork' = [xwork EXCEPT ![x] = j]
  /\ UNCHANGED <<tableVars, workerVars>>

SetExportState(x, s) ==
  /\ state' = [state EXCEPT ![xwork[x]] = s]
  /\ UNCHANGED <<owner, lease, attempts, cancel, ckpt, rows, total>>
  /\ UNCHANGED workerVars

BeginExport(x) ==
  /\ xpc[x] = "checked"
  /\ SetExportState(x, "exporting")
  /\ xpc' = [xpc EXCEPT ![x] = "writing"]
  /\ UNCHANGED xwork

\* The artifact is ready (completed), or _fail gives the job back to review.
EndExport(x) ==
  /\ xpc[x] = "writing"
  /\ \E s \in {"completed", "awaiting_review"} : SetExportState(x, s)
  /\ xpc' = [xpc EXCEPT ![x] = "idle"]
  /\ xwork' = [xwork EXCEPT ![x] = 0]

CrashExport(x) ==
  /\ xpc[x] # "idle"
  /\ xpc' = [xpc EXCEPT ![x] = "idle"]
  /\ xwork' = [xwork EXCEPT ![x] = 0]
  /\ UNCHANGED <<tableVars, workerVars>>

-----------------------------------------------------------------------------
\* What a worker does next by itself, when nothing fails.
Progress(w) ==
  \/ Load(w) \/ Detect(w) \/ Inspect(w) \/ Open(w) \/ Flush(w)
  \/ FlushCancelled(w) \/ LeaseLost(w) \/ Compare(w) \/ FinishJob(w)
  \/ Complete(w) \/ MarkCancelled(w)

Request(j) == Submit(j) \/ Cancel(j) \/ Expire(j)
Work(w)    == Claim(w) \/ Progress(w) \/ Fail(w) \/ Reject(w) \/ Crash(w)
Export(x)  == \/ \E j \in Job : CheckExport(x, j)
              \/ BeginExport(x) \/ EndExport(x) \/ CrashExport(x)

Next ==
  \/ \E j \in Job : Request(j)
  \/ \E w \in Worker : Work(w)
  \/ \E x \in Exporter : Export(x)

Spec == Init /\ [][Next]_vars

\* runner.serve polls for ever, a worker that neither dies nor fails reaches
\* its next transaction, and the clock moves.  An export is a request: its
\* thread runs on unless its process dies.
Fairness ==
  /\ \A w \in Worker : WF_vars(Claim(w)) /\ WF_vars(Progress(w))
  /\ \A j \in Job : WF_vars(Expire(j))
  /\ \A x \in Exporter : WF_vars(BeginExport(x) \/ EndExport(x))

FairSpec == Spec /\ Fairness

-----------------------------------------------------------------------------
(* Safety.                                                                 *)

\* "A replay neither double-counts nor duplicates rows" (jobs.py): after any
\* sequence of crashes, expired leases, retries and cancellations the stored
\* observations are the records the checkpoint claims, and records_total
\* counted each of them once.
CommittedOnce ==
  \A j \in Job : /\ rows[j] = 1 .. ckpt[j].rec
                 /\ total[j] = ckpt[j].rec

\* A job offered to a reviewer (or exported) has had every record of its file
\* analysed, whoever wrote the state and however many workers it took.
ReviewIsComplete ==
  \A j \in Job : state[j] \in Presented =>
    ckpt[j].done /\ rows[j] = Rec /\ total[j] = Records

\* heartbeat runs inside the flush transaction: from the moment a cancellation
\* is recorded no further record of the job is committed.
CancelStopsCommits ==
  [][\A j \in Job : cancel[j] => rows'[j] = rows[j] /\ total'[j] = total[j]]_vars

\* A job that ended stays ended: no worker that lost its lease, and no worker
\* that observed a cancellation late, takes it anywhere else.  (An export
\* that was under way when the job failed still writes its own last state.)
WorkersLeaveEndedJobs ==
  [][\A j \in Job : state[j] \in {"failed", "cancelled"} /\ state'[j] # state[j] =>
       \E x \in Exporter : xwork[x] = j /\ xpc'[x] # xpc[x]]_vars

\* The queue implements the exactly-once ledger.
Ledger == INSTANCE RecordLedger
            WITH applied <- total, presented <- {j \in Job : state[j] \in Presented}
ImplementsLedger == Ledger!Spec

(* What the safety properties rest on.                                     *)

\* Every process presents an id of its own, as runner.worker_id sees to.
DistinctIds == \A v, w \in Worker : WorkerId[v] = WorkerId[w] => v = w

\* The checkpoint itself is one run_job could have written.
CheckpointsAreSound ==
  \A j \in Job : /\ ckpt[j].done => ckpt[j].inspected /\ ckpt[j].rec = Records
                 /\ ~ckpt[j].inspected => ckpt[j].rec = 0

\* What a worker remembers is what the table says for as long as it owns the
\* job; that the analysis is done it may rely on even without owning it.
MemoryIsFresh ==
  \A w \in Worker :
    /\ pc[w] \in {"detect", "inspect", "open", "stream"} /\ Owns(w) => local[w] = ckpt[work[w]]
    /\ pc[w] \in {"detect", "inspect"} => ~local[w].inspected
    /\ pc[w] \in {"open", "stream"} => local[w].inspected /\ ~local[w].done
    /\ pc[w] \in {"compare", "finish", "complete"} => ckpt[work[w]].done

\* Whoever offers or exports a job has its analysis behind it.
PresentedIsDone ==
  /\ \A j \in Job : state[j] \in Presented => ckpt[j].done
  /\ \A x \in Exporter : xpc[x] # "idle" => ckpt[xwork[x]].done

\* A job that ended has no owner; a worker about to cancel one still has it.
EndedIsUnowned ==
  /\ \A j \in Job : state[j] \in {"failed", "cancelled"} => owner[j] = NoOwner
  /\ \A w \in Worker : pc[w] = "cancelling" => Owns(w) /\ cancel[work[w]]

\* The inductive invariant of the queue, given DistinctIds: at every step the
\* table can be trusted over the memory of every process.
QueueInv ==
  /\ TypeOK
  /\ CommittedOnce
  /\ CheckpointsAreSound
  /\ MemoryIsFresh
  /\ PresentedIsDone
  /\ EndedIsUnowned

(* Liveness.                                                               *)

\* Nobody works on j and claim() will never give it to anyone.
Orphaned(j) ==
  /\ attempts[j] = MaxAttempts \/ cancel[j]
  /\ \A w \in Worker : work[w] # j
  /\ \A x \in Exporter : xwork[x] # j

\* A worker that dies is replaced: a running job stops running, except in the
\* one case claim() shuts out, a job that is out of attempts or cancelled.
RunningSettles ==
  \A j \in Job : state[j] \in Running ~> state[j] \notin Running \/ Orphaned(j)

\* A queued job is taken up unless its cancellation was requested.
QueuedIsTaken ==
  \A j \in Job : state[j] = "queued" ~> state[j] # "queued" \/ cancel[j]

=============================================================================
