--------------------------- MODULE WorkspaceProofs ---------------------------
(***************************************************************************)
(* The parts of module Workspace, put together, still keep what was proved *)
(* of each alone.  Every step of the whole is a step of the queue and a    *)
(* step of the generations, so the invariants of JobQueueProofs and        *)
(* GenerationsProofs carry over; what ties the two is proved here.         *)
(***************************************************************************)
EXTENDS Workspace, TLAPS

Q == INSTANCE JobQueueProofs
G == INSTANCE GenerationsProofs WITH NGens <- NJobs

(* ---- the parts proved elsewhere are the parts composed here ---- *)

\* The queue of the workspace is the one its own proofs are about,
LEMMA SameQueue ==
  /\ JQ!Init <=> Q!Init
  /\ [JQ!Next]_(JQ!vars) <=> [Q!Next]_(Q!vars)
BY DEF JQ!Init, Q!Init, JQ!Empty, Q!Empty,
     JQ!Job, JQ!tableVars, JQ!workerVars, JQ!exportVars, JQ!vars, JQ!Running, JQ!Place, JQ!Submit,
     JQ!Cancel, JQ!Expire, JQ!Claimable, JQ!Oldest, JQ!Claim, JQ!Owns, JQ!Resume, JQ!Load,
     JQ!SetStep, JQ!Detect, JQ!Open, JQ!Compare, JQ!FirstCheckpoint, JQ!Inspect, JQ!Heartbeat,
     JQ!Flush, JQ!FlushCancelled, JQ!LeaseLost, JQ!FinishJob, JQ!EndAttempt, JQ!Complete,
     JQ!Guarded, JQ!Fail, JQ!Reject, JQ!MarkCancelled, JQ!Crash, JQ!CheckExport, JQ!SetExportState,
     JQ!BeginExport, JQ!EndExport, JQ!CrashExport, JQ!Progress, JQ!Request, JQ!Work, JQ!Export,
     JQ!Next, Q!Job, Q!tableVars, Q!workerVars, Q!exportVars, Q!vars, Q!Running, Q!Place, Q!Submit,
     Q!Cancel, Q!Expire, Q!Claimable, Q!Oldest, Q!Claim, Q!Owns, Q!Resume, Q!Load, Q!SetStep,
     Q!Detect, Q!Open, Q!Compare, Q!FirstCheckpoint, Q!Inspect, Q!Heartbeat, Q!Flush,
     Q!FlushCancelled, Q!LeaseLost, Q!FinishJob, Q!EndAttempt, Q!Complete, Q!Guarded, Q!Fail,
     Q!Reject, Q!MarkCancelled, Q!Crash, Q!CheckExport, Q!SetExportState, Q!BeginExport,
     Q!EndExport, Q!CrashExport, Q!Progress, Q!Request, Q!Work, Q!Export, Q!Next

\* and so is its invariant.
LEMMA SameQueueInv ==
  /\ JQ!DistinctIds <=> Q!DistinctIds
  /\ JQ!JobQueueAssumption <=> Q!JobQueueAssumption
  /\ JQ!TypeOK <=> Q!TypeOK
  /\ JQ!TypeOK' <=> Q!TypeOK'
  /\ JQ!QueueInv <=> Q!QueueInv
  /\ JQ!QueueInv' <=> Q!QueueInv'
BY DEF JQ!JobQueueAssumption, Q!JobQueueAssumption,
     JQ!Job, JQ!Rec, JQ!JobState, JQ!Presented, JQ!Checkpoint, JQ!Place, JQ!TypeOK, JQ!Owns,
     JQ!CommittedOnce, JQ!DistinctIds, JQ!CheckpointsAreSound, JQ!MemoryIsFresh,
     JQ!PresentedIsDone, JQ!EndedIsUnowned, JQ!QueueInv, Q!Job, Q!Rec, Q!JobState, Q!Presented,
     Q!Checkpoint, Q!Place, Q!TypeOK, Q!Owns, Q!CommittedOnce, Q!DistinctIds,
     Q!CheckpointsAreSound, Q!MemoryIsFresh, Q!PresentedIsDone, Q!EndedIsUnowned, Q!QueueInv

\* The comparison of generations is the one their own proofs are about,
LEMMA SameComparisons ==
  /\ \A g : GN!Shp(g) = G!Shp(g) /\ GN!Base(g) = G!Base(g) /\ GN!Candidate(g) = G!Candidate(g)
  /\ GN!InFleet = G!InFleet
  /\ \A g : GN!Added(g) = G!Added(g) /\ GN!Changed(g) = G!Changed(g)
  /\ \A g : GN!Unchanged(g) = G!Unchanged(g) /\ GN!Removed(g) = G!Removed(g)
  /\ \A g, b : GN!GatesBlock(g, b) <=> G!GatesBlock(g, b)
  /\ \A g, b : GN!Retire(g, b) = G!Retire(g, b)
  /\ \A g, r : GN!OverLimit(g, r) <=> G!OverLimit(g, r)
  /\ \A g, r : GN!Manifest(g, r) = G!Manifest(g, r)
<1>1. \A g : GN!Shp(g) = G!Shp(g) /\ GN!Base(g) = G!Base(g) /\ GN!Candidate(g) = G!Candidate(g)
  BY DEF GN!Shp, G!Shp, GN!Base, G!Base, GN!Candidate, G!Candidate
<1>2. GN!InFleet = G!InFleet
  BY DEF GN!InFleet, G!InFleet
<1>3. \A g, k : GN!Differs(g, k) <=> G!Differs(g, k)
  BY <1>1 DEF GN!Differs, G!Differs
<1>4. \A g : GN!Added(g) = G!Added(g) /\ GN!Changed(g) = G!Changed(g)
  BY <1>1, <1>2, <1>3 DEF GN!Added, G!Added, GN!Changed, G!Changed
<1>5. \A g : GN!Unchanged(g) = G!Unchanged(g) /\ GN!Removed(g) = G!Removed(g)
  BY <1>1, <1>2, <1>4 DEF GN!Unchanged, G!Unchanged, GN!Removed, G!Removed
<1>6. \A g, b : GN!GatesBlock(g, b) <=> G!GatesBlock(g, b)
  BY <1>1 DEF GN!GatesBlock, G!GatesBlock
<1>7. ASSUME NEW g, NEW b
      PROVE  GN!Retire(g, b) = G!Retire(g, b)
  BY <1>1, <1>4, <1>5, <1>6 DEF GN!Retire, G!Retire
<1>8. \A S : GN!Cardinality(S) = G!Cardinality(S)
  BY DEF GN!Cardinality, G!Cardinality
<1>9. \A g, r : GN!OverLimit(g, r) <=> G!OverLimit(g, r)
  BY <1>1, <1>4, <1>8 DEF GN!OverLimit, G!OverLimit
<1>10. \A ks, e, row : GN!EffectsOn(ks, e, row) = G!EffectsOn(ks, e, row)
  BY DEF GN!EffectsOn, G!EffectsOn
<1>11. \A g, r : GN!Manifest(g, r) = G!Manifest(g, r)
  BY <1>1, <1>4, <1>5, <1>10 DEF GN!Manifest, G!Manifest
<1> QED
  BY <1>1, <1>2, <1>4, <1>5, <1>6, <1>7, <1>9, <1>11

\* and so are their steps
LEMMA SameGenerations ==
  /\ GN!Init <=> G!Init
  /\ [GN!Next]_(GN!vars) <=> [G!Next]_(G!vars)
<1>1. GN!Init <=> G!Init
  BY DEF GN!Init, G!Init, GN!NoFx, G!NoFx, GN!Gen, G!Gen, GN!Intent, G!Intent, GN!NoRow, G!NoRow
<1>2. \A i, s, b : GN!CreateIntent(i, s, b) <=> G!CreateIntent(i, s, b)
  BY DEF GN!CreateIntent, G!CreateIntent, GN!Gen, G!Gen, GN!Intent, G!Intent
<1>3. \A g, i : GN!Submit(g, i) <=> G!Submit(g, i)
  BY DEF GN!Submit, G!Submit, GN!LiveJob, G!LiveJob, GN!Gen, G!Gen
<1>4. \A g, listed, p : GN!Stage(g, listed, p) <=> G!Stage(g, listed, p)
  BY DEF GN!Stage, G!Stage
<1>5. \A g : GN!JobMoves(g) <=> G!JobMoves(g)
  BY DEF GN!JobMoves, G!JobMoves
<1>6. \A g, b : GN!FinishJob(g, b) <=> G!FinishJob(g, b)
  BY SameComparisons DEF GN!FinishJob, G!FinishJob, GN!Outcome, G!Outcome
<1>7. \A g : GN!FleetAfter(g) = G!FleetAfter(g) /\ GN!StatesAfter(g) = G!StatesAfter(g)
  BY DEF GN!FleetAfter, G!FleetAfter, GN!StatesAfter, G!StatesAfter, GN!Candidate, G!Candidate, GN!Shp, G!Shp,
         GN!Differs, G!Differs, GN!NoRow, G!NoRow, GN!Gen, G!Gen
<1>8. \A g, op : GN!Publish(g, op) <=> G!Publish(g, op)
  BY <1>7, SameComparisons DEF GN!Publish, G!Publish, GN!Admitted, G!Admitted, GN!Offered, G!Offered
<1>9. \A g : GN!Abandon(g) <=> G!Abandon(g)
  BY DEF GN!Abandon, G!Abandon
<1>10. \A g, listed, p : GN!Restage(g, listed, p) <=> G!Restage(g, listed, p)
  BY DEF GN!Restage, G!Restage, GN!Outcome, G!Outcome
<1>11. \A g : GN!Purge(g) <=> G!Purge(g)
  BY DEF GN!Purge, G!Purge
<1>12. GN!Next <=> G!Next
  BY <1>2, <1>3, <1>4, <1>5, <1>6, <1>8, <1>9, <1>10, <1>11
     DEF GN!Next, G!Next, GN!Request, G!Request, GN!Analyse, G!Analyse, GN!Gen, G!Gen, GN!Intent, G!Intent,
         GN!Listing, G!Listing, GN!Outcome, G!Outcome
<1> QED
  BY <1>1, <1>12 DEF GN!vars, G!vars

\* and their invariant,
LEMMA SameHistoryInv ==
  /\ GN!GenerationsAssumption <=> G!GenerationsAssumption
  /\ GN!HistoryInv <=> G!HistoryInv
<1>1. GN!GenerationsAssumption <=> G!GenerationsAssumption
  BY DEF GN!GenerationsAssumption, G!GenerationsAssumption, GN!Mode, G!Mode, GN!IntentShape, G!IntentShape,
         GN!IsFiniteSet, G!IsFiniteSet
<1>2. GN!TypeOK <=> G!TypeOK
  BY DEF GN!TypeOK, G!TypeOK, GN!Gen, G!Gen, GN!Intent, G!Intent, GN!GenState, G!GenState, GN!Outcome, G!Outcome,
         GN!Listing, G!Listing, GN!FleetRow, G!FleetRow, GN!Effect, G!Effect
<1>3. GN!LinearHistory <=> G!LinearHistory
  BY DEF GN!LinearHistory, G!LinearHistory, GN!LastGen, G!LastGen
<1>4. GN!BaselineIsOlder <=> G!BaselineIsOlder
  BY SameComparisons DEF GN!BaselineIsOlder, G!BaselineIsOlder, GN!Gen, G!Gen, GN!Intent, G!Intent
<1>5. GN!AuditIsTrue <=> G!AuditIsTrue
  BY SameComparisons DEF GN!AuditIsTrue, G!AuditIsTrue
<1>6. GN!OfferIsTrue <=> G!OfferIsTrue
  BY SameComparisons DEF GN!OfferIsTrue, G!OfferIsTrue, GN!Gen, G!Gen, GN!Outcome, G!Outcome
<1>7. GN!RowsAreWhole <=> G!RowsAreWhole
  BY DEF GN!RowsAreWhole, G!RowsAreWhole, GN!NoRow, G!NoRow
<1>8. GN!OnlyCurrentIsPublished <=> G!OnlyCurrentIsPublished
  BY DEF GN!OnlyCurrentIsPublished, G!OnlyCurrentIsPublished, GN!Gen, G!Gen
<1>9. GN!FleetIsAudited <=> G!FleetIsAudited
  BY DEF GN!FleetIsAudited, G!FleetIsAudited
<1> QED
  BY <1>1, <1>2, <1>3, <1>4, <1>5, <1>6, <1>7, <1>8, <1>9 DEF GN!HistoryInv, G!HistoryInv

\* in the next state too.
LEMMA SameHistoryInvNext == (GN!HistoryInv <=> G!HistoryInv)'
BY SameHistoryInv, PTL

\* A step of the queue, or one that leaves it alone, keeps its invariant,
LEMMA QueueKept ==
  ASSUME JQ!DistinctIds, JQ!QueueInv, [JQ!Next]_(JQ!vars)
  PROVE  JQ!QueueInv'
BY WorkspaceAssumption, SameQueue, SameQueueInv, Q!InvStep

\* and its types.
LEMMA QueueTypeKept ==
  ASSUME JQ!TypeOK, [JQ!Next]_(JQ!vars)
  PROVE  JQ!TypeOK'
BY WorkspaceAssumption, SameQueue, SameQueueInv, Q!TypeStep

\* A step of the generations, or one that leaves them alone, keeps theirs.
LEMMA HistoryKept ==
  ASSUME GN!HistoryInv, [GN!Next]_(GN!vars)
  PROVE  GN!HistoryInv'
BY WorkspaceAssumption, SameGenerations, SameHistoryInv, SameHistoryInvNext, G!InvStep

-----------------------------------------------------------------------------
(* ---- every step of the whole is a step of each part ---- *)

\* Every step of the workspace is a step of the queue, or leaves it alone.
LEMMA QueueStep ==
  ASSUME [Next]_vars
  PROVE  [JQ!Next]_(JQ!vars)
<1>1. CASE UNCHANGED vars
  BY <1>1 DEF vars, queueVars, JQ!vars
<1>2. CASE UNCHANGED queueVars
  BY <1>2 DEF queueVars, JQ!vars
<1>3. ASSUME NEW j \in Job, NEW i \in GN!Intent, Submit(j, i)
      PROVE  JQ!Next
  BY <1>3 DEF Submit, Job, JQ!Next, JQ!Request
<1>4. ASSUME NEW w \in Worker, Flush(w) \/ FinishJob(w)
      PROVE  JQ!Next
  BY <1>4 DEF Flush, FinishJob, JQ!Next, JQ!Work, JQ!Progress
<1>5. CASE QueueOnly
  BY <1>5 DEF QueueOnly, Job, JQ!Next, JQ!Request, JQ!Work, JQ!Progress
<1>6. ASSUME NEW j \in Job, Decide(j)
      PROVE  UNCHANGED queueVars
  BY <1>6 DEF Decide
<1>7. ASSUME NEW a \in Analyst, \/ \E j \in Job : StartAnalysis(a, j)
                                \/ Restage(a) \/ FinishAnalysis(a) \/ CrashAnalysis(a)
      PROVE  UNCHANGED queueVars
  BY <1>7 DEF StartAnalysis, Restage, FinishAnalysis, CrashAnalysis
<1>8. CASE Declare
  BY <1>2, <1>8 DEF Declare
<1> QED
  BY <1>1, <1>2, <1>3, <1>4, <1>5, <1>6, <1>7, <1>8 DEF Next

\* A worker that is in a job has one.
LEMMA WorkerInJob ==
  ASSUME JQ!TypeOK
  PROVE  /\ \A w \in Worker : pc[w] # "idle" => work[w] \in Job
         /\ \A x \in Exporter : xpc[x] # "idle" => xwork[x] \in Job
BY DEF JQ!TypeOK, Job

\* A transaction on the queue moves one job at most, and only one that is there.
OneMoves == \E j \in Job : state[j] # "none" /\ state'[j] # "none" /\ \A i \in Job \ {j} : state'[i] = state[i]

\* A step of the queue moves at most one job.
LEMMA QueueMovesOne ==
  ASSUME Tied, QueueOnly
  PROVE  (\A j \in Job : state'[j] = state[j]) \/ OneMoves
<1> USE DEF Tied
<1>1. ASSUME NEW j \in Job, JQ!Cancel(j) \/ JQ!Expire(j)
      PROVE  state' = state
  BY <1>1 DEF JQ!Cancel, JQ!Expire
<1>2. ASSUME NEW w \in Worker, \/ JQ!Load(w) \/ JQ!Inspect(w) \/ JQ!FlushCancelled(w)
                               \/ JQ!LeaseLost(w) \/ JQ!Crash(w)
      PROVE  state' = state
  BY <1>2 DEF JQ!Load, JQ!Inspect, JQ!FirstCheckpoint, JQ!FlushCancelled, JQ!LeaseLost, JQ!Crash, JQ!tableVars
<1>3. ASSUME NEW w \in Worker, JQ!Claim(w)
      PROVE  OneMoves
  <2>1. PICK j \in Job : JQ!Claimable(j) /\ state' = [state EXCEPT ![j] = IF @ = "queued" THEN "inspecting" ELSE @]
    BY <1>3 DEF JQ!Claim, Job
  <2> QED
    BY <2>1 DEF OneMoves, JQ!Claimable, JQ!Running, JQ!TypeOK, Job
<1>4. ASSUME NEW w \in Worker, pc[w] # "idle", NEW s \in JQ!JobState \ {"none"},
             state' = [state EXCEPT ![work[w]] = s]
      PROVE  OneMoves
  BY <1>4, WorkerInJob DEF OneMoves, JobsAreKnown, JQ!TypeOK, Job
<1>5. ASSUME NEW w \in Worker, JQ!Detect(w) \/ JQ!Open(w) \/ JQ!Compare(w)
      PROVE  OneMoves
  BY <1>4, <1>5 DEF JQ!Detect, JQ!Open, JQ!Compare, JQ!SetStep, JQ!JobState
<1>6. ASSUME NEW w \in Worker, JQ!Complete(w) \/ JQ!Fail(w) \/ JQ!Reject(w) \/ JQ!MarkCancelled(w)
      PROVE  state' = state \/ OneMoves
  BY <1>4, <1>6 DEF JQ!Complete, JQ!Fail, JQ!Reject, JQ!MarkCancelled, JQ!EndAttempt, JQ!Guarded, JQ!Place, JQ!JobState
<1>7. ASSUME NEW x \in Exporter, JQ!Export(x)
      PROVE  state' = state \/ OneMoves
  <2>1. CASE xpc[x] # "idle" /\ \E s \in JQ!JobState \ {"none"} : state' = [state EXCEPT ![xwork[x]] = s]
    BY <2>1, WorkerInJob DEF OneMoves, JobsAreKnown, JQ!TypeOK, Job
  <2>2. CASE state' = state
    BY <2>2
  <2> QED
    BY <1>7, <2>1, <2>2 DEF JQ!Export, JQ!CheckExport, JQ!BeginExport, JQ!EndExport, JQ!CrashExport, JQ!SetExportState,
                            JQ!tableVars, JQ!JobState
<1> QED
  BY <1>1, <1>2, <1>3, <1>5, <1>6, <1>7 DEF QueueOnly

\* Every step of the workspace is a step of the generations, or leaves them alone.
LEMMA GenerationStep ==
  ASSUME Tied, [Next]_vars
  PROVE  [GN!Next]_(GN!vars)
<1> DEFINE stays == UNCHANGED genVars /\ \A j \in Job : state'[j] = state[j]
<1>1. CASE stays
  <2>1. ended' = ended
    BY <1>1 DEF ended, Job, JQ!Job
  <2> QED
    BY <1>1, <2>1 DEF genVars, GN!vars
<1>2. CASE UNCHANGED queueVars /\ \E g \in Job : Decide(g)
  <2>1. ended' = ended
    BY <1>2 DEF ended, queueVars
  <2> QED
    BY <1>2 DEF Decide, GN!Next, GN!Request, GN!Gen, Job, JQ!Job
<1>3. CASE Declare
  BY <1>3 DEF Declare, GN!Next, GN!Request
<1>4. ASSUME NEW j \in Job, NEW i \in GN!Intent, Submit(j, i)
      PROVE  GN!Next
  BY <1>4 DEF Submit, GN!Next, GN!Request, GN!Gen, Job, JQ!Job
<1>5. ASSUME NEW w \in Worker, Flush(w) \/ FinishJob(w)
      PROVE  GN!Next
  <2>1. pc[w] # "idle"
    BY <1>5 DEF Flush, FinishJob, JQ!Flush, JQ!FinishJob
  <2>2. work[w] \in GN!Gen
    BY <2>1, WorkerInJob DEF Tied, GN!Gen, Job, JQ!Job
  <2>3. CASE Flush(w)
    BY <2>2, <2>3 DEF Flush, GN!Next, GN!Analyse
  <2>4. CASE FinishJob(w)
    BY <2>2, <2>4 DEF FinishJob, GN!Next, GN!Analyse
  <2> QED
    BY <1>5, <2>3, <2>4
<1>6. CASE QueueOnly
  <2>1. UNCHANGED genVars
    BY <1>6 DEF QueueOnly
  <2>2. CASE OneMoves
    <3>1. PICK j \in Job : state[j] # "none" /\ \A i \in Job \ {j} : state'[i] = state[i]
      BY <2>2 DEF OneMoves
    <3>2. gstate[j] # "none" /\ parsed[j] # "gone"
      BY <3>1 DEF Tied, JobsAreKnown
    <3>3. ended' = ended \/ ended' = IF j \in ended THEN ended \ {j} ELSE ended \cup {j}
      BY <3>1 DEF ended, Job, JQ!Job
    <3>4. CASE ended' = ended
      BY <2>1, <3>4 DEF genVars, GN!vars
    <3>5. CASE ended' = IF j \in ended THEN ended \ {j} ELSE ended \cup {j}
      <4>1. GN!JobMoves(j)
        BY <2>1, <3>2, <3>5 DEF GN!JobMoves, genVars
      <4> QED
        BY <4>1 DEF GN!Next, GN!Request, GN!Gen, Job, JQ!Job
    <3> QED
      BY <3>3, <3>4, <3>5
  <2> QED
    BY <1>1, <1>6, <2>1, <2>2, QueueMovesOne
<1>7. ASSUME NEW a \in Analyst, Restage(a) \/ FinishAnalysis(a)
      PROVE  GN!Next
  <2>1. awork[a] \in GN!Gen
    BY <1>7 DEF Tied, Restage, FinishAnalysis, GN!Gen, Job, JQ!Job
  <2> QED
    BY <1>7, <2>1 DEF Restage, FinishAnalysis, GN!Next, GN!Analyse
<1>8. ASSUME NEW a \in Analyst, (\E j \in Job : StartAnalysis(a, j)) \/ CrashAnalysis(a)
      PROVE  stays
  BY <1>8 DEF StartAnalysis, CrashAnalysis, queueVars
<1>9. CASE UNCHANGED vars
  BY <1>1, <1>9 DEF vars, queueVars, genVars
<1> QED
  BY <1>1, <1>2, <1>3, <1>4, <1>5, <1>6, <1>7, <1>8, <1>9 DEF Next, Decide

-----------------------------------------------------------------------------
(* ---- what ties a job to its generation ---- *)

\* Queue and generations are tied at first.
LEMMA InitTied == Init => Tied
<1> SUFFICES ASSUME Init PROVE Tied
  OBVIOUS
<1>1. JQ!TypeOK
  BY WorkspaceAssumption, SameQueue, SameQueueInv, Q!InitInv DEF Init, Q!QueueInv
<1>2. GN!HistoryInv
  BY WorkspaceAssumption, SameGenerations, SameHistoryInv, G!InitInv DEF Init
<1>3. JobsAreKnown
  BY DEF Init, JQ!Init, GN!Init, JobsAreKnown, Job, JQ!Job, GN!Gen
<1>4. NJobs \in Nat
  BY WorkspaceAssumption DEF JQ!JobQueueAssumption
<1> QED
  BY <1>1, <1>2, <1>3, <1>4 DEF Tied, Init

\* A job that exists goes on existing.
LEMMA JobsStay ==
  ASSUME Tied, [Next]_vars
  PROVE  \A j \in Job : state[j] # "none" => state'[j] # "none"
<1>1. CASE \A j \in Job : state'[j] = state[j]
  BY <1>1
<1>2. ASSUME NEW j \in Job, NEW i \in GN!Intent, Submit(j, i)
      PROVE  \A h \in Job : state[h] # "none" => state'[h] # "none"
  BY <1>2 DEF Submit, JQ!Submit, Tied, JQ!TypeOK, Job
<1>3. CASE QueueOnly
  BY <1>1, <1>3, QueueMovesOne DEF OneMoves
<1>4. ASSUME NEW w \in Worker, Flush(w) \/ FinishJob(w)
      PROVE  state' = state
  BY <1>4 DEF Flush, FinishJob, JQ!Flush, JQ!FinishJob, JQ!tableVars
<1>5. CASE UNCHANGED queueVars
  BY <1>5, <1>1 DEF queueVars
<1>6. CASE Declare \/ (\E j \in Job : Decide(j)) \/ UNCHANGED vars
  BY <1>6, <1>5 DEF Declare, Decide, vars
<1>7. ASSUME NEW a \in Analyst, \/ \E j \in Job : StartAnalysis(a, j)
                                \/ Restage(a) \/ FinishAnalysis(a) \/ CrashAnalysis(a)
      PROVE  UNCHANGED queueVars
  BY <1>7 DEF StartAnalysis, Restage, FinishAnalysis, CrashAnalysis
<1> QED
  BY <1>1, <1>2, <1>3, <1>4, <1>5, <1>6, <1>7 DEF Next

\* A process keeps its job or takes one that is there.
LEMMA WorkersKnow ==
  ASSUME Tied, [Next]_vars, NEW v \in Worker, pc'[v] # "idle"
  PROVE  state'[work'[v]] # "none"
<1> USE DEF Tied
<1>1. CASE pc[v] # "idle" /\ work'[v] = work[v]
  BY <1>1, JobsStay, WorkerInJob DEF JobsAreKnown
<1>2. CASE pc'[v] = pc[v] /\ work'[v] = work[v]
  BY <1>1, <1>2
<1>3. ASSUME NEW w \in Worker, JQ!Claim(w)
      PROVE  state'[work'[v]] # "none"
  <2>1. PICK j \in Job : /\ JQ!Claimable(j) /\ work' = [work EXCEPT ![w] = j]
                         /\ state' = [state EXCEPT ![j] = IF @ = "queued" THEN "inspecting" ELSE @]
    BY <1>3 DEF JQ!Claim, Job
  <2>2. state'[j] # "none"
    BY <2>1 DEF JQ!Claimable, JQ!Running, JQ!TypeOK, Job
  <2>3. CASE v = w
    BY <2>1, <2>2, <2>3 DEF JQ!TypeOK
  <2>4. CASE v # w
    BY <1>2, <1>3, <2>1, <2>4 DEF JQ!TypeOK, JQ!Claim
  <2> QED
    BY <2>3, <2>4
<1>4. ASSUME NEW w \in Worker, JQ!Progress(w)
      PROVE  pc[w] # "idle" /\ (pc'[v] # "idle" => work'[v] = work[v]) /\ (v # w => pc'[v] = pc[v])
  BY <1>4 DEF JQ!Progress, JQ!Load, JQ!Detect, JQ!Inspect, JQ!FirstCheckpoint, JQ!Open, JQ!SetStep, JQ!Flush,
              JQ!FlushCancelled, JQ!LeaseLost, JQ!Compare, JQ!FinishJob, JQ!Complete, JQ!EndAttempt, JQ!MarkCancelled,
              JQ!TypeOK
<1>5. ASSUME NEW w \in Worker, JQ!Fail(w) \/ JQ!Reject(w) \/ JQ!Crash(w)
      PROVE  pc[w] # "idle" /\ (pc'[v] # "idle" => work'[v] = work[v]) /\ (v # w => pc'[v] = pc[v])
  BY <1>5 DEF JQ!Fail, JQ!Reject, JQ!Crash, JQ!EndAttempt, JQ!Guarded, JQ!Place, JQ!TypeOK
<1>6. ASSUME NEW j \in Job, JQ!Request(j)
      PROVE  UNCHANGED <<pc, work>>
  BY <1>6 DEF JQ!Request, JQ!Submit, JQ!Cancel, JQ!Expire, JQ!workerVars
<1>7. ASSUME NEW x \in Exporter, JQ!Export(x)
      PROVE  UNCHANGED <<pc, work>>
  BY <1>7 DEF JQ!Export, JQ!CheckExport, JQ!BeginExport, JQ!EndExport, JQ!CrashExport, JQ!SetExportState, JQ!workerVars
<1>8. CASE UNCHANGED JQ!vars
  BY <1>2, <1>8 DEF JQ!vars
<1>9. [JQ!Next]_(JQ!vars)
  BY QueueStep
<1>10. ASSUME NEW w \in Worker, JQ!Work(w)
       PROVE  state'[work'[v]] # "none"
  <2>1. CASE JQ!Claim(w)
    BY <1>3, <2>1
  <2>2. CASE \/ JQ!Progress(w) \/ JQ!Fail(w) \/ JQ!Reject(w) \/ JQ!Crash(w)
    BY <1>1, <1>2, <1>4, <1>5, <2>2
  <2> QED
    BY <1>10, <2>1, <2>2 DEF JQ!Work
<1> QED
  BY <1>2, <1>6, <1>7, <1>8, <1>9, <1>10 DEF JQ!Next, Job

\* An export has the job it exports.
LEMMA ExportersKnow ==
  ASSUME Tied, [Next]_vars, NEW y \in Exporter, xpc'[y] # "idle"
  PROVE  state'[xwork'[y]] # "none"
<1> USE DEF Tied
<1>1. CASE xpc[y] # "idle" /\ xwork'[y] = xwork[y]
  BY <1>1, JobsStay, WorkerInJob DEF JobsAreKnown
<1>2. CASE xpc'[y] = xpc[y] /\ xwork'[y] = xwork[y]
  BY <1>1, <1>2
<1>3. ASSUME NEW x \in Exporter, NEW j \in Job, JQ!CheckExport(x, j)
      PROVE  state'[xwork'[y]] # "none"
  <2>1. state'[j] # "none" /\ xwork' = [xwork EXCEPT ![x] = j]
    BY <1>3 DEF JQ!CheckExport, JQ!tableVars
  <2>2. CASE y = x
    BY <2>1, <2>2 DEF JQ!TypeOK
  <2>3. CASE y # x
    BY <1>2, <1>3, <2>3 DEF JQ!CheckExport, JQ!TypeOK
  <2> QED
    BY <2>2, <2>3
<1>4. ASSUME NEW x \in Exporter, JQ!BeginExport(x) \/ JQ!EndExport(x) \/ JQ!CrashExport(x)
      PROVE  xpc[x] # "idle" /\ (xpc'[y] # "idle" => xwork'[y] = xwork[y]) /\ (y # x => xpc'[y] = xpc[y])
  BY <1>4 DEF JQ!BeginExport, JQ!EndExport, JQ!CrashExport, JQ!TypeOK
<1>5. ASSUME NEW w \in Worker, JQ!Work(w)
      PROVE  UNCHANGED <<xpc, xwork>>
  BY <1>5 DEF JQ!Work, JQ!Claim, JQ!Progress, JQ!Load, JQ!Detect, JQ!Inspect, JQ!FirstCheckpoint, JQ!Open, JQ!SetStep,
              JQ!Flush, JQ!FlushCancelled, JQ!LeaseLost, JQ!Compare, JQ!FinishJob, JQ!Complete, JQ!EndAttempt,
              JQ!MarkCancelled, JQ!Fail, JQ!Reject, JQ!Crash, JQ!exportVars
<1>6. ASSUME NEW j \in Job, JQ!Request(j)
      PROVE  UNCHANGED <<xpc, xwork>>
  BY <1>6 DEF JQ!Request, JQ!Submit, JQ!Cancel, JQ!Expire, JQ!exportVars
<1>7. CASE UNCHANGED JQ!vars
  BY <1>2, <1>7 DEF JQ!vars
<1>8. [JQ!Next]_(JQ!vars)
  BY QueueStep
<1>9. ASSUME NEW x \in Exporter, JQ!Export(x)
      PROVE  state'[xwork'[y]] # "none"
  <2>1. CASE \E j \in Job : JQ!CheckExport(x, j)
    BY <1>3, <2>1
  <2>2. CASE JQ!BeginExport(x) \/ JQ!EndExport(x) \/ JQ!CrashExport(x)
    BY <1>1, <1>2, <1>4, <2>2
  <2> QED
    BY <1>9, <2>1, <2>2 DEF JQ!Export, Job
<1> QED
  BY <1>2, <1>5, <1>6, <1>7, <1>8, <1>9 DEF JQ!Next, Job

\* Jobs and generations come into being together; none is taken away.
LEMMA TwinsStay ==
  ASSUME Tied, [Next]_vars, NEW j \in Job
  PROVE  (state'[j] = "none" <=> gstate'[j] = "none") /\ parsed'[j] # "gone"
<1> USE DEF Tied
<1>1. (state[j] = "none" <=> gstate[j] = "none") /\ parsed[j] # "gone" /\ j \in GN!Gen
  BY DEF JobsAreKnown, Job, JQ!Job, GN!Gen
<1>2. GN!TypeOK
  BY DEF GN!HistoryInv
<1>3. ASSUME NEW h \in Job, NEW i \in GN!Intent, Submit(h, i)
      PROVE  (state'[j] = "none" <=> gstate'[j] = "none") /\ parsed'[j] # "gone"
  BY <1>1, <1>2, <1>3 DEF Submit, JQ!Submit, GN!Submit, GN!TypeOK, JQ!TypeOK, Job, JQ!Job, GN!Gen
<1>4. CASE QueueOnly
  BY <1>1, <1>4, QueueMovesOne DEF OneMoves, QueueOnly, genVars
<1>5. CASE state' = state /\ (gstate'[j] = "none" <=> gstate[j] = "none") /\ parsed'[j] # "gone"
  BY <1>1, <1>5
<1>6. ASSUME NEW g \in GN!Gen, NEW listed, NEW p \in {"open"} \cup GN!Outcome,
             GN!Stage(g, listed, p) \/ (p \in GN!Outcome /\ GN!Restage(g, listed, p))
      PROVE  (gstate'[j] = "none" <=> gstate[j] = "none") /\ parsed'[j] # "gone"
  BY <1>1, <1>2, <1>6 DEF GN!Stage, GN!Restage, GN!TypeOK, GN!Outcome
<1>7. ASSUME NEW g \in GN!Gen, NEW b, GN!FinishJob(g, b)
      PROVE  (gstate'[j] = "none" <=> gstate[j] = "none") /\ parsed'[j] # "gone"
  BY <1>1, <1>2, <1>7 DEF GN!FinishJob, GN!TypeOK
<1>8. ASSUME NEW w \in Worker, Flush(w) \/ FinishJob(w)
      PROVE  (state'[j] = "none" <=> gstate'[j] = "none") /\ parsed'[j] # "gone"
  <2>1. work[w] \in GN!Gen /\ state' = state
    BY <1>8, WorkerInJob DEF Flush, FinishJob, JQ!Flush, JQ!FinishJob, JQ!tableVars, GN!Gen, Job, JQ!Job
  <2>2. CASE Flush(w)
    BY <1>5, <1>6, <2>1, <2>2 DEF Flush
  <2>3. CASE FinishJob(w)
    BY <1>5, <1>7, <2>1, <2>3 DEF FinishJob
  <2> QED
    BY <1>8, <2>2, <2>3
<1>9. ASSUME NEW a \in Analyst, Restage(a) \/ FinishAnalysis(a)
      PROVE  (state'[j] = "none" <=> gstate'[j] = "none") /\ parsed'[j] # "gone"
  <2>1. awork[a] \in GN!Gen /\ state' = state
    BY <1>9 DEF Restage, FinishAnalysis, queueVars, GN!Gen, Job, JQ!Job
  <2>2. CASE Restage(a)
    BY <1>5, <1>6, <2>1, <2>2 DEF Restage
  <2>3. CASE FinishAnalysis(a)
    BY <1>5, <1>7, <2>1, <2>3 DEF FinishAnalysis
  <2> QED
    BY <1>9, <2>2, <2>3
<1>10. ASSUME NEW a \in Analyst, (\E h \in Job : StartAnalysis(a, h)) \/ CrashAnalysis(a)
       PROVE  UNCHANGED <<state, gstate, parsed>>
  BY <1>10 DEF StartAnalysis, CrashAnalysis, queueVars, genVars
<1>11. CASE Declare
  BY <1>1, <1>11 DEF Declare, GN!CreateIntent, queueVars
<1>12. ASSUME NEW g \in Job, Decide(g)
       PROVE  (state'[j] = "none" <=> gstate'[j] = "none") /\ parsed'[j] # "gone"
  <2>1. state' = state /\ parsed' = parsed
    BY <1>12 DEF Decide, queueVars, GN!Abandon, GN!Publish
  <2>2. CASE GN!Abandon(g)
    BY <1>1, <1>2, <2>1, <2>2 DEF GN!Abandon, GN!TypeOK
  <2>3. ASSUME NEW op, GN!Publish(g, op)
        PROVE  gstate'[j] = "none" <=> gstate[j] = "none"
    BY <1>1, <2>3 DEF GN!Publish, GN!StatesAfter, GN!Admitted, GN!Offered
  <2> QED
    BY <1>1, <1>12, <2>1, <2>2, <2>3 DEF Decide
<1>13. CASE UNCHANGED vars
  BY <1>1, <1>13 DEF vars, queueVars, genVars
<1> QED
  BY <1>1, <1>3, <1>4, <1>8, <1>9, <1>10, <1>11, <1>12, <1>13 DEF Next

\* The places of analysts keep their types.
LEMMA AnalystTypes ==
  ASSUME Tied, [Next]_vars
  PROVE  /\ apc' \in [Analyst -> {"idle", "restage", "finish"}]
         /\ awork' \in [Analyst -> 0 .. NJobs]
         /\ \A a \in Analyst : apc'[a] # "idle" => awork'[a] \in Job
<1> USE DEF Tied, Job, JQ!Job
<1>1. NJobs \in Nat
  BY WorkspaceAssumption DEF JQ!JobQueueAssumption
<1>2. CASE UNCHANGED analystVars
  BY <1>2 DEF analystVars
<1>3. ASSUME NEW a \in Analyst, NEW place \in {"idle", "restage", "finish"}, NEW j \in 0 .. NJobs,
             place # "idle" => j \in Job, AnalystAt(a, place, j)
      PROVE  /\ apc' \in [Analyst -> {"idle", "restage", "finish"}]
             /\ awork' \in [Analyst -> 0 .. NJobs]
             /\ \A b \in Analyst : apc'[b] # "idle" => awork'[b] \in Job
  BY <1>1, <1>3 DEF AnalystAt
<1>4. ASSUME NEW a \in Analyst, NEW j \in Job, StartAnalysis(a, j)
      PROVE  AnalystAt(a, "restage", j) /\ j \in 0 .. NJobs
  BY <1>1, <1>4 DEF StartAnalysis
<1>5. ASSUME NEW a \in Analyst, Restage(a)
      PROVE  AnalystAt(a, "finish", awork[a]) /\ awork[a] \in Job /\ awork[a] \in 0 .. NJobs
  BY <1>1, <1>5 DEF Restage
<1>6. ASSUME NEW a \in Analyst, FinishAnalysis(a) \/ CrashAnalysis(a)
      PROVE  AnalystAt(a, "idle", 0) /\ 0 \in 0 .. NJobs
  BY <1>1, <1>6 DEF FinishAnalysis, CrashAnalysis
<1>7. CASE \E a \in Analyst, j \in Job : StartAnalysis(a, j)
  BY <1>3, <1>4, <1>7
<1>8. CASE \E a \in Analyst : Restage(a) \/ FinishAnalysis(a) \/ CrashAnalysis(a)
  BY <1>3, <1>5, <1>6, <1>8
<1>9. CASE \/ Declare \/ QueueOnly \/ \E j \in Job : Decide(j)
           \/ \E j \in Job, i \in GN!Intent : Submit(j, i)
           \/ \E w \in Worker : Flush(w) \/ FinishJob(w)
           \/ UNCHANGED vars
  BY <1>2, <1>9 DEF Declare, QueueOnly, Decide, Submit, Flush, FinishJob, vars
<1> QED
  BY <1>7, <1>8, <1>9 DEF Next

\* Every step keeps queue and generations tied.
LEMMA TiedStep == ASSUME Tied, [Next]_vars PROVE Tied'
<1>1. JQ!TypeOK'
  BY QueueStep, QueueTypeKept DEF Tied
<1>2. GN!HistoryInv'
  BY GenerationStep, HistoryKept DEF Tied
<1>3. JobsAreKnown'
  BY TwinsStay, WorkersKnow, ExportersKnow DEF JobsAreKnown
<1> QED
  BY <1>1, <1>2, <1>3, AnalystTypes DEF Tied, Job, JQ!Job

-----------------------------------------------------------------------------
(* ---- the analysis behind an offer ---- *)

\* Nothing that the checkpoint says is done is ever undone.
LEMMA DoneStays ==
  ASSUME JQ!QueueInv, [JQ!Next]_(JQ!vars), NEW j \in Job, ckpt[j].done
  PROVE  ckpt'[j].done
<1> USE DEF JQ!QueueInv, Job
<1>1. CASE ckpt' = ckpt
  BY <1>1
<1>2. ASSUME NEW w \in Worker, JQ!Inspect(w)
      PROVE  ckpt'[j].done
  <2>1. ~ckpt[work[w]].inspected
    BY <1>2 DEF JQ!Inspect, JQ!MemoryIsFresh
  <2>2. j # work[w]
    BY <2>1 DEF JQ!CheckpointsAreSound
  <2> QED
    BY <1>2, <2>2 DEF JQ!Inspect, JQ!FirstCheckpoint, JQ!TypeOK
<1>3. ASSUME NEW w \in Worker, JQ!Flush(w)
      PROVE  ckpt'[j].done
  <2>1. ~ckpt[work[w]].done
    BY <1>3 DEF JQ!Flush, JQ!Heartbeat, JQ!MemoryIsFresh
  <2> QED
    BY <1>3, <2>1 DEF JQ!Flush, JQ!TypeOK
<1>4. ASSUME NEW w \in Worker, \/ JQ!Claim(w) \/ JQ!Load(w) \/ JQ!Detect(w) \/ JQ!Open(w) \/ JQ!FlushCancelled(w)
                               \/ JQ!LeaseLost(w) \/ JQ!Compare(w) \/ JQ!FinishJob(w) \/ JQ!Complete(w)
                               \/ JQ!MarkCancelled(w) \/ JQ!Fail(w) \/ JQ!Reject(w) \/ JQ!Crash(w)
      PROVE  ckpt' = ckpt
  BY <1>4 DEF JQ!Claim, JQ!Load, JQ!Detect, JQ!Open, JQ!SetStep, JQ!FlushCancelled, JQ!LeaseLost, JQ!Compare,
              JQ!FinishJob, JQ!Complete, JQ!EndAttempt, JQ!MarkCancelled, JQ!Fail, JQ!Reject, JQ!Crash, JQ!tableVars
<1>5. ASSUME NEW h \in Job, JQ!Request(h)
      PROVE  ckpt' = ckpt
  BY <1>5 DEF JQ!Request, JQ!Submit, JQ!Cancel, JQ!Expire
<1>6. ASSUME NEW x \in Exporter, JQ!Export(x)
      PROVE  ckpt' = ckpt
  BY <1>6 DEF JQ!Export, JQ!CheckExport, JQ!BeginExport, JQ!EndExport, JQ!CrashExport, JQ!SetExportState, JQ!tableVars
<1>7. CASE UNCHANGED JQ!vars
  BY <1>1, <1>7 DEF JQ!vars
<1> QED
  BY <1>1, <1>2, <1>3, <1>4, <1>5, <1>6, <1>7 DEF JQ!Next, JQ!Work, JQ!Progress

\* What a flush does to the checkpoint it owns.
LEMMA FlushFinds ==
  ASSUME Tied, JQ!QueueInv, NEW w \in Worker, JQ!Flush(w)
  PROVE  work[w] \in Job /\ ~ckpt[work[w]].done /\ \A j \in Job \ {work[w]} : ckpt'[j] = ckpt[j]
<1>1. work[w] \in Job
  BY WorkerInJob DEF Tied, JQ!Flush
<1>2. ~ckpt[work[w]].done
  BY DEF JQ!QueueInv, JQ!Flush, JQ!Heartbeat, JQ!MemoryIsFresh
<1> QED
  BY <1>1, <1>2 DEF JQ!Flush, Tied, JQ!TypeOK, Job

\* Only a flush ends the analysis of a job.
LEMMA DoneByFlush ==
  ASSUME Tied, JQ!QueueInv, QueueOnly, NEW j \in Job
  PROVE  ckpt'[j].done <=> ckpt[j].done
<1> USE DEF JQ!QueueInv, Job
<1>1. CASE ckpt' = ckpt
  BY <1>1
<1>2. ASSUME NEW w \in Worker, JQ!Inspect(w)
      PROVE  ckpt'[j].done <=> ckpt[j].done
  <2>1. ~ckpt[work[w]].inspected /\ work[w] \in Job
    BY <1>2, WorkerInJob DEF JQ!Inspect, JQ!MemoryIsFresh
  <2>2. ~ckpt[work[w]].done
    BY <2>1 DEF JQ!CheckpointsAreSound
  <2> QED
    BY <1>2, <2>1, <2>2 DEF JQ!Inspect, JQ!FirstCheckpoint, JQ!TypeOK
<1>3. ASSUME NEW w \in Worker, \/ JQ!Claim(w) \/ JQ!Load(w) \/ JQ!Detect(w) \/ JQ!Open(w) \/ JQ!FlushCancelled(w)
                               \/ JQ!LeaseLost(w) \/ JQ!Compare(w) \/ JQ!Complete(w)
                               \/ JQ!MarkCancelled(w) \/ JQ!Fail(w) \/ JQ!Reject(w) \/ JQ!Crash(w)
      PROVE  ckpt' = ckpt
  BY <1>3 DEF JQ!Claim, JQ!Load, JQ!Detect, JQ!Open, JQ!SetStep, JQ!FlushCancelled, JQ!LeaseLost, JQ!Compare,
              JQ!Complete, JQ!EndAttempt, JQ!MarkCancelled, JQ!Fail, JQ!Reject, JQ!Crash, JQ!tableVars
<1>4. ASSUME NEW h \in Job, JQ!Cancel(h) \/ JQ!Expire(h)
      PROVE  ckpt' = ckpt
  BY <1>4 DEF JQ!Cancel, JQ!Expire
<1>5. ASSUME NEW x \in Exporter, JQ!Export(x)
      PROVE  ckpt' = ckpt
  BY <1>5 DEF JQ!Export, JQ!CheckExport, JQ!BeginExport, JQ!EndExport, JQ!CrashExport, JQ!SetExportState, JQ!tableVars
<1> QED
  BY <1>1, <1>2, <1>3, <1>4, <1>5 DEF QueueOnly

\* A step either ends the stream of one generation with the analysis of its
\* job, or leaves every stream as open and every analysis as done as it was.
LEMMA StreamStep ==
  ASSUME WorkspaceInv, [Next]_vars, NEW j \in Job
  PROVE  /\ parsed'[j] = "open" <=> ~ckpt'[j].done
         /\ ckpt[j].done => ckpt'[j].done
<1> USE DEF WorkspaceInv, Tied
<1>1. parsed[j] = "open" <=> ~ckpt[j].done
  BY DEF StreamsAgree
<1>2. GN!TypeOK /\ j \in GN!Gen
  BY DEF GN!HistoryInv, GN!Gen, Job, JQ!Job
<1>3. CASE ckpt' = ckpt /\ parsed' = parsed
  BY <1>1, <1>3
<1>4. CASE QueueOnly
  BY <1>1, <1>4, DoneByFlush DEF QueueOnly, genVars
<1>5. ASSUME NEW w \in Worker, Flush(w)
      PROVE  (parsed'[j] = "open" <=> ~ckpt'[j].done) /\ (ckpt[j].done => ckpt'[j].done)
  <2>1. work[w] \in Job /\ ~ckpt[work[w]].done /\ \A i \in Job \ {work[w]} : ckpt'[i] = ckpt[i]
    BY <1>5, FlushFinds DEF Flush
  <2>2. PICK listed \in GN!Listing, p \in IF ckpt'[work[w]].done THEN GN!Outcome ELSE {"open"} :
          GN!Stage(work[w], listed, p)
    BY <1>5 DEF Flush
  <2>3. parsed' = [parsed EXCEPT ![work[w]] = p]
    BY <2>2 DEF GN!Stage
  <2>4. p = "open" <=> ~ckpt'[work[w]].done
    BY <2>2 DEF GN!Outcome
  <2> QED
    BY <1>1, <1>2, <2>1, <2>3, <2>4 DEF GN!TypeOK
<1>6. ASSUME NEW a \in Analyst, Restage(a)
      PROVE  (parsed'[j] = "open" <=> ~ckpt'[j].done) /\ (ckpt[j].done => ckpt'[j].done)
  <2>1. PICK listed \in GN!Listing, p \in GN!Outcome : GN!Restage(awork[a], listed, p)
    BY <1>6 DEF Restage
  <2>2. parsed' = [parsed EXCEPT ![awork[a]] = p] /\ p # "open" /\ parsed[awork[a]] # "open" /\ ckpt' = ckpt
    BY <1>6, <2>1 DEF GN!Restage, GN!Outcome, Restage, queueVars
  <2> QED
    BY <1>1, <1>2, <2>2 DEF GN!TypeOK
<1>7. ASSUME NEW w \in Worker, FinishJob(w)
      PROVE  ckpt' = ckpt /\ parsed' = parsed
  BY <1>7 DEF FinishJob, JQ!FinishJob, JQ!tableVars, GN!FinishJob
<1>8. ASSUME NEW a \in Analyst, FinishAnalysis(a) \/ CrashAnalysis(a) \/ \E h \in Job : StartAnalysis(a, h)
      PROVE  ckpt' = ckpt /\ parsed' = parsed
  BY <1>8 DEF FinishAnalysis, CrashAnalysis, StartAnalysis, GN!FinishJob, queueVars, genVars
<1>9. ASSUME NEW h \in Job, Decide(h) \/ \E i \in GN!Intent : Submit(h, i)
      PROVE  ckpt' = ckpt /\ parsed' = parsed
  BY <1>9 DEF Decide, Submit, JQ!Submit, GN!Submit, GN!Abandon, GN!Publish, queueVars
<1>10. CASE Declare \/ UNCHANGED vars
  BY <1>3, <1>10 DEF Declare, GN!CreateIntent, queueVars, genVars, vars
<1> QED
  BY <1>3, <1>4, <1>5, <1>6, <1>7, <1>8, <1>9, <1>10 DEF Next

\* An offer is only made of a generation whose stream has ended.
LEMMA OfferStep ==
  ASSUME Tied, [Next]_vars, NEW j \in Job, gstate'[j] \in Offered
  PROVE  gstate[j] \in Offered \/ parsed[j] \in GN!Outcome
<1> USE DEF Tied, Offered
<1>1. GN!TypeOK /\ j \in GN!Gen
  BY DEF GN!HistoryInv, GN!Gen, Job, JQ!Job
<1>2. ASSUME NEW g \in GN!Gen, NEW b, GN!FinishJob(g, b)
      PROVE  gstate[j] \in Offered \/ parsed[j] \in GN!Outcome
  BY <1>1, <1>2 DEF GN!FinishJob, GN!TypeOK
<1>3. ASSUME NEW g \in GN!Gen, NEW op, GN!Publish(g, op)
      PROVE  gstate[j] \in Offered
  BY <1>1, <1>3 DEF GN!Publish, GN!StatesAfter, GN!Admitted, GN!Offered
<1>4. ASSUME NEW g \in GN!Gen, GN!Abandon(g) \/ GN!Purge(g) \/ \E i \in GN!Intent : GN!Submit(g, i)
      PROVE  gstate[j] \in Offered
  BY <1>1, <1>4 DEF GN!Abandon, GN!Purge, GN!Submit, GN!TypeOK
<1>5. ASSUME NEW g \in GN!Gen, NEW listed, NEW p, GN!Stage(g, listed, p) \/ GN!Restage(g, listed, p)
      PROVE  gstate[j] \in Offered
  BY <1>1, <1>5 DEF GN!Stage, GN!Restage, GN!TypeOK
<1>6. ASSUME UNCHANGED gstate
      PROVE  gstate[j] \in Offered
  BY <1>6
<1>7. ASSUME NEW g \in GN!Gen, GN!JobMoves(g)
      PROVE  UNCHANGED gstate
  BY <1>7 DEF GN!JobMoves
<1>8. ASSUME NEW i, NEW s, NEW b, GN!CreateIntent(i, s, b)
      PROVE  UNCHANGED gstate
  BY <1>8 DEF GN!CreateIntent
<1>9. CASE UNCHANGED GN!vars
  BY <1>6, <1>9 DEF GN!vars
<1> QED
  BY <1>2, <1>3, <1>4, <1>5, <1>6, <1>7, <1>8, <1>9, GenerationStep DEF GN!Next, GN!Request, GN!Analyse

\* Every step keeps what was analysed done.
LEMMA AnalysisStep == ASSUME WorkspaceInv, [Next]_vars PROVE AnalysisIsDone'
<1> USE DEF WorkspaceInv, Tied
<1>1. ASSUME NEW j \in Job, gstate'[j] \in Offered
      PROVE  ckpt'[j].done
  <2>1. gstate[j] \in Offered \/ parsed[j] \in GN!Outcome
    BY <1>1, OfferStep
  <2>2. ckpt[j].done
    BY <2>1 DEF AnalysisIsDone, StreamsAgree, GN!Outcome
  <2> QED
    BY <2>2, StreamStep
<1>2. ASSUME NEW a \in Analyst, apc'[a] # "idle"
      PROVE  ckpt'[awork'[a]].done
  <2>1. CASE apc[a] # "idle" /\ awork'[a] = awork[a]
    BY <2>1, StreamStep DEF AnalysisIsDone
  <2>2. CASE apc'[a] = apc[a] /\ awork'[a] = awork[a]
    BY <1>2, <2>1, <2>2
  <2>3. ASSUME NEW b \in Analyst, NEW j \in Job, StartAnalysis(b, j)
        PROVE  ckpt'[awork'[a]].done
    <3>1. ckpt[j].done
      BY <2>3 DEF StartAnalysis, JQ!QueueInv, JQ!PresentedIsDone, JQ!Presented, Job
    <3>2. ckpt'[j].done
      BY <3>1, StreamStep
    <3>3. CASE a = b
      BY <2>3, <3>2, <3>3 DEF StartAnalysis, AnalystAt
    <3>4. CASE a # b
      BY <2>2, <2>3, <3>4 DEF StartAnalysis, AnalystAt
    <3> QED
      BY <3>3, <3>4
  <2>4. ASSUME NEW b \in Analyst, Restage(b) \/ FinishAnalysis(b) \/ CrashAnalysis(b)
        PROVE  ckpt'[awork'[a]].done
    <3>1. CASE a # b
      BY <2>2, <2>4, <3>1 DEF Restage, FinishAnalysis, CrashAnalysis, AnalystAt
    <3>2. CASE a = b
      BY <1>2, <2>1, <2>4, <3>2 DEF Restage, FinishAnalysis, CrashAnalysis, AnalystAt
    <3> QED
      BY <3>1, <3>2
  <2>5. CASE UNCHANGED analystVars
    BY <2>2, <2>5 DEF analystVars
  <2>6. CASE \/ Declare \/ QueueOnly \/ \E j \in Job : Decide(j)
             \/ \E j \in Job, i \in GN!Intent : Submit(j, i)
             \/ \E w \in Worker : Flush(w) \/ FinishJob(w)
             \/ UNCHANGED vars
    BY <2>5, <2>6 DEF Declare, QueueOnly, Decide, Submit, Flush, FinishJob, vars
  <2> QED
    BY <2>3, <2>4, <2>6 DEF Next
<1> QED
  BY <1>1, <1>2 DEF AnalysisIsDone

\* The whole keeps the invariants of its parts and what ties them.
LEMMA InvStep == ASSUME JQ!DistinctIds, WorkspaceInv, [Next]_vars PROVE WorkspaceInv'
<1>1. Tied'
  BY TiedStep DEF WorkspaceInv
<1>2. JQ!QueueInv'
  BY QueueStep, QueueKept DEF WorkspaceInv
<1>3. StreamsAgree'
  BY StreamStep DEF StreamsAgree
<1> QED
  BY <1>1, <1>2, <1>3, AnalysisStep DEF WorkspaceInv

\* The invariant holds at first.
LEMMA InitInv == Init => WorkspaceInv
<1> SUFFICES ASSUME Init PROVE WorkspaceInv
  OBVIOUS
<1>1. JQ!QueueInv
  BY WorkspaceAssumption, SameQueue, SameQueueInv, Q!InitInv DEF Init
<1>2. StreamsAgree
  BY DEF Init, JQ!Init, GN!Init, JQ!Empty, StreamsAgree, Job, JQ!Job, GN!Gen
<1>3. AnalysisIsDone
  BY DEF Init, GN!Init, AnalysisIsDone, Offered, Job, JQ!Job, GN!Gen
<1> QED
  BY <1>1, <1>2, <1>3, InitTied DEF WorkspaceInv

\* It implies that the parts agree.
LEMMA InvAgrees == WorkspaceInv => PartsAgree
<1> SUFFICES ASSUME WorkspaceInv PROVE PartsAgree
  OBVIOUS
<1> USE DEF WorkspaceInv, Tied
<1>1. TypeOK
  BY DEF TypeOK, GN!HistoryInv
<1>2. OfferedIsAnalysed
  BY DEF OfferedIsAnalysed, AnalysisIsDone, Offered, JQ!QueueInv, JQ!CommittedOnce, JQ!CheckpointsAreSound, JQ!Rec, Job
<1>3. \A j \in Job : ckpt[j].done => parsed[j] \in GN!Outcome
  BY <1>1 DEF TypeOK, GN!TypeOK, StreamsAgree, JobsAreKnown, Job, JQ!Job, GN!Gen
<1>4. ASSUME NEW w \in Worker, pc[w] = "stream", JQ!Owns(w)
      PROVE  parsed[work[w]] = "open"
  BY <1>4, WorkerInJob DEF JQ!QueueInv, JQ!MemoryIsFresh, StreamsAgree
<1>5. ASSUME NEW w \in Worker, pc[w] = "finish"
      PROVE  parsed[work[w]] \in GN!Outcome
  BY <1>3, <1>5, WorkerInJob DEF JQ!QueueInv, JQ!MemoryIsFresh
<1>6. \A a \in Analyst : apc[a] # "idle" => parsed[awork[a]] \in GN!Outcome
  BY <1>3 DEF AnalysisIsDone
<1> QED
  BY <1>1, <1>2, <1>4, <1>5, <1>6 DEF PartsAgree, CallsAreLegal

-----------------------------------------------------------------------------
(* ---- theorems ---- *)

\* Whatever workers, requests and re-analyses do to the workspace, the queue
\* behaves as module JobQueue says (runner.py, jobs.py).
THEOREM WholeRefinesQueue == Spec => ImplementsJobQueue
<1>1. Init => JQ!Init
  BY DEF Init
<1> QED
  BY <1>1, QueueStep, PTL DEF Spec, ImplementsJobQueue, JQ!Spec

\* Queue and generations are tied in every state, whatever ids the workers present.
LEMMA AlwaysTied == Spec => []Tied
BY InitTied, TiedStep, PTL DEF Spec

\* ... and the generations behave as module Generations says (reconcile.py),
\* the callers it leaves open being those of this workspace; that every worker
\* has an id of its own is not needed for it.
THEOREM WholeRefinesGenerations == Spec => ImplementsGenerations
<1>1. Init => GN!Init
  BY DEF Init
<1> QED
  BY <1>1, AlwaysTied, GenerationStep, PTL DEF Spec, ImplementsGenerations, GN!Spec

\* The inductive invariant of the whole.
THEOREM WholeIsSound == ASSUME JQ!DistinctIds PROVE Spec => []WorkspaceInv
BY InitInv, InvStep, PTL DEF Spec

\* Only completely analysed generations are offered, the stream of a generation
\* and the checkpoint of its job agree, and no caller reaches a transaction out
\* of turn (runner.run_job, ingest._stream_records, review.reanalyze).
THEOREM PartsStayTogether == ASSUME JQ!DistinctIds PROVE Spec => []PartsAgree
BY WholeIsSound, InvAgrees, PTL

\* What was proved of the queue alone holds in the whole: no record of a file
\* is committed twice or skipped, and no unfinished analysis is presented.
THEOREM WholeKeepsTheLedger ==
  ASSUME JQ!DistinctIds
  PROVE  Spec => [](JQ!CommittedOnce /\ JQ!ReviewIsComplete)
<1>1. JQ!QueueInv => JQ!CommittedOnce /\ JQ!ReviewIsComplete
  BY DEF JQ!QueueInv, JQ!CommittedOnce, JQ!CheckpointsAreSound, JQ!PresentedIsDone, JQ!ReviewIsComplete, JQ!Rec
<1> QED
  BY <1>1, WholeIsSound, PTL DEF WorkspaceInv

\* What was proved of the generations alone holds in the whole: publications
\* form one line and every row of the fleet names one of them (reconcile.py).
THEOREM WholeKeepsHistory == Spec => [](GN!LinearHistory /\ GN!FleetIsAudited)
<1>1. Tied => GN!LinearHistory /\ GN!FleetIsAudited
  BY DEF Tied, GN!HistoryInv
<1> QED
  BY <1>1, AlwaysTied, PTL
=============================================================================
