------------------------------ MODULE Workspace ------------------------------
(***************************************************************************)
(* The job queue and the generations put together: every job has an import *)
(* intent, and job j stages generation j.  The callers that module         *)
(* Generations leaves open are here the workers of module JobQueue, the    *)
(* requests of the API and the re-analysis of review.reanalyze, each of    *)
(* which decides in one transaction and acts in a later one.               *)
(***************************************************************************)
EXTENDS Naturals, FiniteSets, Sequences

CONSTANTS
  NJobs, Worker, Exporter, Id, WorkerId, NoOwner, Records, Batch, MaxAttempts,
  NIntents, Key, Attr, Scope, Shape, Op, None,
  Analyst       \* requests that run reanalyze

VARIABLES
  state, owner, lease, attempts, cancel, ckpt, rows, total,
  pc, work, local, xpc, xwork,
  intent, gintent, gstate, members, parsed, fx, current, fleet, audit,
  apc,          \* where each re-analysis stands
  awork         \* the job it re-analyses (0 when idle)

ended == {j \in 1 .. NJobs : state[j] \in {"failed", "cancelled"}}

JQ == INSTANCE JobQueue
GN == INSTANCE Generations WITH NGens <- NJobs

ASSUME WorkspaceAssumption == JQ!JobQueueAssumption /\ GN!GenerationsAssumption

Job == JQ!Job

queueVars   == <<state, owner, lease, attempts, cancel, ckpt, rows, total,
                 pc, work, local, xpc, xwork>>
genVars     == <<intent, gintent, gstate, members, parsed, fx, current, fleet, audit>>
analystVars == <<apc, awork>>
vars        == <<queueVars, genVars, analystVars>>

TypeOK ==
  /\ JQ!TypeOK
  /\ GN!TypeOK
  /\ apc \in [Analyst -> {"idle", "restage", "finish"}]
  /\ awork \in [Analyst -> 0 .. NJobs]
  /\ \A a \in Analyst : apc[a] # "idle" => awork[a] \in Job

Init ==
  /\ JQ!Init
  /\ GN!Init
  /\ apc = [a \in Analyst |-> "idle"]
  /\ awork = [a \in Analyst |-> 0]

-----------------------------------------------------------------------------
(* Requests.                                                               *)

\* runner.submit: the job and its candidate in one transaction.
Submit(j, i) ==
  /\ JQ!Submit(j)
  /\ GN!Submit(j, i)
  /\ UNCHANGED analystVars

\* Mutant of Decide: a generation is abandoned whatever its state.
DecideBlindly(g) ==
  /\ UNCHANGED <<queueVars, analystVars>>
  /\ \/ /\ gstate[g] # "none"
        /\ gstate' = [gstate EXCEPT ![g] = "abandoned"]
        /\ UNCHANGED <<intent, gintent, members, parsed, fx, current, fleet, audit>>
     \/ \E op \in Op \cup {None} : GN!Publish(g, op)

\* What a client asks of the generations alone.
Decide(g) ==
  /\ UNCHANGED <<queueVars, analystVars>>
  /\ \/ GN!Abandon(g)
     \/ \E op \in Op \cup {None} : GN!Publish(g, op)

Declare ==
  /\ UNCHANGED <<queueVars, analystVars>>
  /\ \E i \in GN!Intent, s \in Shape, b \in 0 .. NJobs : GN!CreateIntent(i, s, b)

-----------------------------------------------------------------------------
(* Workers.                                                                *)

\* flush: memberships go with the rows and the checkpoint that counts them.
Flush(w) ==
  /\ JQ!Flush(w)
  /\ \E listed \in GN!Listing :
       \E p \in IF ckpt'[work[w]].done THEN GN!Outcome ELSE {"open"} :
         GN!Stage(work[w], listed, p)
  /\ UNCHANGED analystVars

\* finish_job looks at neither the lease nor the state of the generation.
FinishJob(w) ==
  /\ JQ!FinishJob(w)
  /\ \E feedBlocked \in BOOLEAN : GN!FinishJob(work[w], feedBlocked)
  /\ UNCHANGED analystVars

\* Everything else a worker, an export or the clock does to the queue.
QueueOnly ==
  /\ \/ \E j \in Job : JQ!Cancel(j) \/ JQ!Expire(j)
     \/ \E w \in Worker :
          \/ JQ!Claim(w) \/ JQ!Load(w) \/ JQ!Detect(w) \/ JQ!Inspect(w)
          \/ JQ!Open(w) \/ JQ!FlushCancelled(w) \/ JQ!LeaseLost(w)
          \/ JQ!Compare(w) \/ JQ!Complete(w) \/ JQ!MarkCancelled(w)
          \/ JQ!Fail(w) \/ JQ!Reject(w) \/ JQ!Crash(w)
     \/ \E x \in Exporter : JQ!Export(x)
  /\ UNCHANGED <<genVars, analystVars>>

-----------------------------------------------------------------------------
(* Re-analysis.                                                            *)

AnalystAt(a, place, j) ==
  /\ apc' = [apc EXCEPT ![a] = place]
  /\ awork' = [awork EXCEPT ![a] = j]

\* The two reads that refuse a job under way and a published generation.
StartAnalysis(a, j) ==
  /\ apc[a] = "idle"
  /\ state[j] \in {"awaiting_review", "completed"}
  /\ gstate[j] \notin {"published", "superseded"}
  /\ AnalystAt(a, "restage", j)
  /\ UNCHANGED <<queueVars, genVars>>

\* Mutant of Restage: the job is sent back to the queue as well.
RestageAndQueue(a) ==
  /\ apc[a] = "restage"
  /\ state' = [state EXCEPT ![awork[a]] = "queued"]
  /\ UNCHANGED <<owner, lease, attempts, cancel, ckpt, rows, total, pc, work, local, xpc, xwork>>
  /\ \E listed \in GN!Listing, p \in GN!Outcome : GN!Restage(awork[a], listed, p)
  /\ AnalystAt(a, "finish", awork[a])

\* The transaction that recounts and re-stages, after the observations were
\* rewritten in transactions of their own.
Restage(a) ==
  /\ apc[a] = "restage"
  /\ UNCHANGED queueVars
  /\ \E listed \in GN!Listing, p \in GN!Outcome : GN!Restage(awork[a], listed, p)
  /\ AnalystAt(a, "finish", awork[a])

FinishAnalysis(a) ==
  /\ apc[a] = "finish"
  /\ UNCHANGED queueVars
  /\ \E feedBlocked \in BOOLEAN : GN!FinishJob(awork[a], feedBlocked)
  /\ AnalystAt(a, "idle", 0)

CrashAnalysis(a) ==
  /\ apc[a] # "idle"
  /\ AnalystAt(a, "idle", 0)
  /\ UNCHANGED <<queueVars, genVars>>

-----------------------------------------------------------------------------
Next ==
  \/ Declare
  \/ \E j \in Job, i \in GN!Intent : Submit(j, i)
  \/ \E j \in Job : Decide(j)
  \/ \E w \in Worker : Flush(w) \/ FinishJob(w)
  \/ QueueOnly
  \/ \E a \in Analyst, j \in Job : StartAnalysis(a, j)
  \/ \E a \in Analyst : Restage(a) \/ FinishAnalysis(a) \/ CrashAnalysis(a)

Spec == Init /\ [][Next]_vars

-----------------------------------------------------------------------------
\* Together the two parts still behave as each was described alone.
ImplementsJobQueue    == JQ!Spec
ImplementsGenerations == GN!Spec

\* A generation can only be offered for publication, and can only have
\* reached the fleet, after its job committed every record of the file.
OfferedIsAnalysed ==
  \A j \in Job : gstate[j] \in {"publishable", "published", "superseded"} =>
    rows[j] = JQ!Rec /\ ckpt[j].done

\* The stream of a generation and the checkpoint of its job agree, though two
\* workers may hold either for a while.
StreamsAgree ==
  \A j \in Job : (parsed[j] = "open") <=> ~ckpt[j].done

\* The conditions Generations puts on staging, comparing and re-staging hold
\* wherever a caller gets to: no process is ever about to compare a file that
\* is not read to its end, or to add to one that is.
CallsAreLegal ==
  /\ \A w \in Worker : /\ pc[w] = "stream" /\ JQ!Owns(w) => parsed[work[w]] = "open"
                       /\ pc[w] = "finish" => parsed[work[w]] \in GN!Outcome
  /\ \A a \in Analyst : apc[a] # "idle" => parsed[awork[a]] \in GN!Outcome

\* What the two parts know of a job agrees, whoever acts on it, and however late.
PartsAgree == TypeOK /\ OfferedIsAnalysed /\ StreamsAgree /\ CallsAreLegal

(* What the safety properties rest on.                                     *)

\* A job and its generation are made together, and processes only remember
\* jobs that were; nothing here deletes one.
JobsAreKnown ==
  /\ \A j \in Job : state[j] = "none" <=> gstate[j] = "none"
  /\ \A w \in Worker : pc[w] # "idle" => state[work[w]] # "none"
  /\ \A x \in Exporter : xpc[x] # "idle" => state[xwork[x]] # "none"
  /\ \A j \in Job : parsed[j] # "gone"

\* What makes every step of the whole a step of the generations.
Tied ==
  /\ JQ!TypeOK /\ GN!HistoryInv
  /\ apc \in [Analyst -> {"idle", "restage", "finish"}]
  /\ awork \in [Analyst -> 0 .. NJobs]
  /\ \A a \in Analyst : apc[a] # "idle" => awork[a] \in Job
  /\ JobsAreKnown

Offered == {"publishable", "published", "superseded"}

\* The analysis that an offer and a re-analysis rely on is behind them.
AnalysisIsDone ==
  /\ \A j \in Job : gstate[j] \in Offered => ckpt[j].done
  /\ \A a \in Analyst : apc[a] # "idle" => ckpt[awork[a]].done

\* The inductive invariant of the whole: those of its parts, and what ties
\* the checkpoint of a job to the stream of its generation.
WorkspaceInv == Tied /\ JQ!QueueInv /\ StreamsAgree /\ AnalysisIsDone

\* review.py: "a published generation is history".
PublishedIsHistory ==
  [][\A g \in Job : gstate[g] \in {"published", "superseded"} =>
       gstate'[g] \in {"published", "superseded"}]_vars

=============================================================================
