--------------------------- MODULE JobQueueProofs ---------------------------
(***************************************************************************)
(* Proofs about JobQueue, for any number of jobs, workers, exports and     *)
(* records.                                                                *)
(***************************************************************************)
EXTENDS JobQueue, TLAPS

-----------------------------------------------------------------------------
(* Types.                                                                  *)

\* A worker that is not idle works on a job.
LEMMA WorkInJob == ASSUME TypeOK, NEW w \in Worker, pc[w] # "idle"
                   PROVE  work[w] \in Job
BY DEF TypeOK

\* No step of the queue leaves the types of its variables.
LEMMA TypeStep == ASSUME TypeOK, [Next]_vars PROVE TypeOK'
<1> USE DEF TypeOK
<1>0. 0 \in 0 .. NJobs /\ Job \subseteq 0 .. NJobs
  BY JobQueueAssumption DEF Job
<1>1. ASSUME NEW j \in Job, Request(j) PROVE TypeOK'
  BY <1>1 DEF Request, Submit, Cancel, Expire, workerVars, exportVars, JobState
<1>2. ASSUME NEW w \in Worker, Work(w) PROVE TypeOK'
  <2>1. CASE Claim(w)
    <3>1. PICK j \in Job :
            /\ Claimable(j)
            /\ owner' = [owner EXCEPT ![j] = WorkerId[w]]
            /\ lease' = [lease EXCEPT ![j] = "live"]
            /\ attempts' = [attempts EXCEPT ![j] = @ + 1]
            /\ state' = [state EXCEPT ![j] = IF @ = "queued" THEN "inspecting" ELSE @]
            /\ work' = [work EXCEPT ![w] = j]
      BY <2>1 DEF Claim
    <3>2. attempts[j] + 1 \in 0 .. MaxAttempts
      BY <3>1, JobQueueAssumption DEF Claimable
    <3>3. j \in 0 .. NJobs
      BY JobQueueAssumption DEF Job
    <3>4. WorkerId[w] \in Id
      BY JobQueueAssumption
    <3> QED BY <2>1, <3>1, <3>2, <3>3, <3>4 DEF Claim, exportVars, JobState, Place
  <2>2. CASE Load(w)
    <3>1. ckpt[work[w]] \in Checkpoint
      BY <2>2 DEF Load
    <3>2. Resume(ckpt[work[w]]) \in Place \ {"idle"}
      BY DEF Resume, Place
    <3> QED BY <2>2, <3>1, <3>2 DEF Load, tableVars, exportVars
  <2>3. CASE Detect(w) \/ Open(w) \/ Compare(w)
    BY <2>3 DEF Detect, Open, Compare, SetStep, Owns, exportVars, JobState, Place
  <2>4. CASE Inspect(w)
    <3>1. [inspected |-> TRUE, rec |-> 0, done |-> FALSE] \in Checkpoint
      BY JobQueueAssumption DEF Checkpoint
    <3> QED BY <2>4, <3>1 DEF Inspect, FirstCheckpoint, Owns, exportVars, Place
  <2>5. CASE Flush(w)
    <3> DEFINE j    == work[w]
               from == local[w].rec
               full == from + Batch <= Records
               upto == IF full THEN from + Batch ELSE Records
               c    == [inspected |-> TRUE, rec |-> upto, done |-> ~full]
    <3>1. j \in Job
      BY <2>5 DEF Flush, Heartbeat
    <3>2. from \in 0 .. Records
      BY DEF Checkpoint
    <3>3. upto \in 0 .. Records /\ upto - from \in Nat /\ from + 1 .. upto \subseteq Rec
      BY <3>2, JobQueueAssumption DEF Rec
    <3>4. c \in Checkpoint
      BY <3>3 DEF Checkpoint
    <3>5. /\ rows' = [rows EXCEPT ![j] = @ \cup (from + 1 .. upto)]
          /\ total' = [total EXCEPT ![j] = @ + (upto - from)]
          /\ ckpt' = [ckpt EXCEPT ![j] = c]
          /\ local' = [local EXCEPT ![w] = c]
          /\ lease' = [lease EXCEPT ![j] = "live"]
          /\ pc' = [pc EXCEPT ![w] = IF full THEN "stream" ELSE "compare"]
          /\ UNCHANGED <<state, owner, attempts, cancel, work, exportVars>>
      BY <2>5 DEF Flush, Heartbeat
    <3> HIDE DEF j, from, full, upto, c
    <3>6. rows' \in [Job -> SUBSET Rec] /\ total' \in [Job -> Nat]
      BY <3>1, <3>3, <3>5
    <3>7. ckpt' \in [Job -> Checkpoint] /\ local' \in [Worker -> Checkpoint]
      BY <3>4, <3>5
    <3>8. pc' \in [Worker -> Place] /\ lease' \in [Job -> {"none", "live", "expired"}]
      BY <3>5 DEF Place
    <3>9. \A v \in Worker : pc'[v] # "idle" => work'[v] \in Job
      BY <3>1, <3>5 DEF j
    <3> QED BY <3>5, <3>6, <3>7, <3>8, <3>9 DEF exportVars
  <2>6. CASE FlushCancelled(w) \/ LeaseLost(w) \/ FinishJob(w) \/ Crash(w)
    BY <2>6, <1>0 DEF FlushCancelled, LeaseLost, FinishJob, Crash, tableVars, exportVars, Place, Owns
  <2>7. CASE Complete(w) \/ Fail(w) \/ Reject(w)
    BY <2>7, <1>0 DEF Complete, Fail, Reject, EndAttempt, exportVars, Place, JobState
  <2>8. CASE MarkCancelled(w)
    BY <2>8, <1>0 DEF MarkCancelled, exportVars, Place, JobState
  <2> QED BY <1>2, <2>1, <2>2, <2>3, <2>4, <2>5, <2>6, <2>7, <2>8 DEF Work, Progress
<1>3. ASSUME NEW x \in Exporter, Export(x) PROVE TypeOK'
  BY <1>3, <1>0 DEF Export, CheckExport, SetExportState, BeginExport, EndExport, CrashExport,
              tableVars, workerVars, JobState
<1>4. CASE UNCHANGED vars
  BY <1>4 DEF vars
<1> QED BY <1>1, <1>2, <1>3, <1>4 DEF Next

\* The types hold in every state, whatever ids the workers present.
THEOREM TypeCorrect == Spec => []TypeOK
<1>1. Init => TypeOK
  BY JobQueueAssumption DEF Init, TypeOK, JobState, Place, Checkpoint, Empty
<1> QED BY <1>1, TypeStep, PTL DEF Spec

-----------------------------------------------------------------------------
(* The inductive invariant.                                                *)

\* An empty queue satisfies the invariant.
LEMMA InitInv == Init => QueueInv
<1> SUFFICES ASSUME Init PROVE QueueInv
  OBVIOUS
<1>1. TypeOK
  BY JobQueueAssumption DEF Init, TypeOK, JobState, Place, Checkpoint, Empty
<1>2. 1 .. 0 = {}
  OBVIOUS
<1>3. CommittedOnce
  BY <1>2 DEF Init, CommittedOnce, Empty
<1>4. CheckpointsAreSound /\ MemoryIsFresh /\ PresentedIsDone /\ EndedIsUnowned
  BY DEF Init, CheckpointsAreSound, MemoryIsFresh, PresentedIsDone, EndedIsUnowned, Empty, Presented
<1> QED BY <1>1, <1>3, <1>4 DEF QueueInv

\* A flush commits the next batch of the job, from where its checkpoint is.
LEMMA FlushCommits ==
  ASSUME QueueInv, NEW w \in Worker, Flush(w)
  PROVE  /\ work[w] \in Job
         /\ local[w] = ckpt[work[w]]
         /\ ckpt[work[w]].inspected /\ ~ckpt[work[w]].done
         /\ LET from == ckpt[work[w]].rec
                full == from + Batch <= Records
                upto == IF full THEN from + Batch ELSE Records
            IN  /\ rows' = [rows EXCEPT ![work[w]] = 1 .. upto]
                /\ total' = [total EXCEPT ![work[w]] = upto]
                /\ ckpt' = [ckpt EXCEPT ![work[w]] =
                              [inspected |-> TRUE, rec |-> upto, done |-> ~full]]
                /\ upto \in 0 .. Records /\ from <= upto
<1> DEFINE j    == work[w]
           from == ckpt[j].rec
           full == from + Batch <= Records
           upto == IF full THEN from + Batch ELSE Records
<1>1. j \in Job /\ pc[w] = "stream" /\ Owns(w)
  BY DEF Flush, Heartbeat, QueueInv, TypeOK
<1>2. local[w] = ckpt[j] /\ local[w].inspected /\ ~local[w].done
  BY <1>1 DEF QueueInv, MemoryIsFresh
<1>3. from \in 0 .. Records
  BY <1>1 DEF QueueInv, TypeOK, Checkpoint
<1>4. upto \in 0 .. Records /\ from <= upto /\ from + (upto - from) = upto
  BY <1>3, JobQueueAssumption
<1>5. (1 .. from) \cup (from + 1 .. upto) = 1 .. upto
  BY <1>3, <1>4
<1>6. rows[j] = 1 .. from /\ total[j] = from
  BY <1>1 DEF QueueInv, CommittedOnce
<1>7. /\ rows' = [rows EXCEPT ![j] = @ \cup (from + 1 .. upto)]
      /\ total' = [total EXCEPT ![j] = @ + (upto - from)]
      /\ ckpt' = [ckpt EXCEPT ![j] = [inspected |-> TRUE, rec |-> upto, done |-> ~full]]
  BY <1>2 DEF Flush, Heartbeat
<1> HIDE DEF upto
<1>8. rows' = [rows EXCEPT ![j] = 1 .. upto] /\ total' = [total EXCEPT ![j] = upto]
  BY <1>4, <1>5, <1>6, <1>7
<1> QED BY <1>1, <1>2, <1>4, <1>7, <1>8 DEF upto

\* Every step keeps the invariant when no two workers share an id.
LEMMA InvStep == ASSUME DistinctIds, QueueInv, [Next]_vars PROVE QueueInv'
<1>0. TypeOK'
  BY TypeStep DEF QueueInv
<1> DEFINE Rest == CommittedOnce /\ CheckpointsAreSound /\ MemoryIsFresh
                     /\ PresentedIsDone /\ EndedIsUnowned
<1>1. ASSUME NEW j \in Job, Request(j) PROVE Rest'
  <2> USE <1>1 DEF Request, Submit, Cancel, Expire, workerVars, exportVars, QueueInv
  <2>1. CommittedOnce' /\ CheckpointsAreSound'
    BY DEF CommittedOnce, CheckpointsAreSound
  <2>2. MemoryIsFresh'
    BY DEF MemoryIsFresh, Owns
  <2>3. PresentedIsDone'
    BY DEF PresentedIsDone, Presented, TypeOK
  <2>4. EndedIsUnowned'
    BY DEF EndedIsUnowned, Owns, TypeOK
  <2> QED BY <2>1, <2>2, <2>3, <2>4
<1>2. ASSUME NEW w \in Worker, Work(w) PROVE Rest'
  <2> USE DEF QueueInv, DistinctIds
  <2>1. CASE Claim(w)
    <3>1. CommittedOnce' /\ CheckpointsAreSound'
      BY <2>1 DEF Claim, Claimable, exportVars, CommittedOnce, CheckpointsAreSound
    <3>2. MemoryIsFresh'
      BY <2>1 DEF Claim, Claimable, exportVars, MemoryIsFresh, Owns, Place, TypeOK
    <3>3. PresentedIsDone'
      BY <2>1 DEF Claim, Claimable, exportVars, PresentedIsDone, Presented, MemoryIsFresh, TypeOK
    <3>4. EndedIsUnowned'
      BY <2>1 DEF Claim, Claimable, exportVars, EndedIsUnowned, Owns, Running, TypeOK
    <3> QED BY <3>1, <3>2, <3>3, <3>4
  <2>2. CASE Load(w)
    <3>1. CommittedOnce' /\ CheckpointsAreSound'
      BY <2>2 DEF Load, Resume, tableVars, exportVars, CommittedOnce, CheckpointsAreSound
    <3>2. MemoryIsFresh'
      BY <2>2 DEF Load, Resume, tableVars, exportVars, MemoryIsFresh, Owns, Place, TypeOK
    <3>3. PresentedIsDone'
      BY <2>2 DEF Load, Resume, tableVars, exportVars, PresentedIsDone, Presented, MemoryIsFresh, TypeOK
    <3>4. EndedIsUnowned'
      BY <2>2 DEF Load, Resume, tableVars, exportVars, EndedIsUnowned, Owns, Running, TypeOK
    <3> QED BY <3>1, <3>2, <3>3, <3>4
  <2>3. CASE Detect(w) \/ Open(w) \/ Compare(w)
    <3>1. CommittedOnce' /\ CheckpointsAreSound'
      BY <2>3 DEF Detect, Open, Compare, SetStep, exportVars, CommittedOnce, CheckpointsAreSound
    <3>2. MemoryIsFresh'
      BY <2>3 DEF Detect, Open, Compare, SetStep, exportVars, MemoryIsFresh, Owns, Place, TypeOK
    <3>3. PresentedIsDone'
      BY <2>3 DEF Detect, Open, Compare, SetStep, exportVars, PresentedIsDone, Presented, MemoryIsFresh, TypeOK
    <3>4. EndedIsUnowned'
      BY <2>3 DEF Detect, Open, Compare, SetStep, exportVars, EndedIsUnowned, Owns, Running, TypeOK
    <3> QED BY <3>1, <3>2, <3>3, <3>4
  <2>4. CASE Inspect(w)
    <3>0. /\ work[w] \in Job /\ ~ckpt[work[w]].done
          /\ ckpt[work[w]].rec = 0 /\ rows[work[w]] = 1 .. 0 /\ total[work[w]] = 0
          /\ ckpt' = [ckpt EXCEPT ![work[w]] = [inspected |-> TRUE, rec |-> 0, done |-> FALSE]]
      <4>1. work[w] \in Job /\ pc[w] = "inspect" /\ Owns(w)
        BY <2>4 DEF Inspect, FirstCheckpoint, TypeOK
      <4>2. ~ckpt[work[w]].inspected
        BY <4>1 DEF MemoryIsFresh
      <4>3. ~ckpt[work[w]].done /\ ckpt[work[w]].rec = 0
        BY <4>1, <4>2 DEF CheckpointsAreSound
      <4> QED BY <2>4, <4>1, <4>3 DEF Inspect, FirstCheckpoint, CommittedOnce
    <3>1. CommittedOnce' /\ CheckpointsAreSound'
      BY <2>4, <3>0 DEF Inspect, FirstCheckpoint, exportVars, CommittedOnce, CheckpointsAreSound, TypeOK
    <3>2. MemoryIsFresh'
      BY <2>4, <3>0 DEF Inspect, FirstCheckpoint, exportVars, MemoryIsFresh, Owns, Place, TypeOK
    <3>3. PresentedIsDone'
      BY <2>4, <3>0 DEF Inspect, FirstCheckpoint, exportVars, PresentedIsDone, Presented, MemoryIsFresh, TypeOK
    <3>4. EndedIsUnowned'
      BY <2>4 DEF Inspect, FirstCheckpoint, exportVars, EndedIsUnowned, Owns, Running, TypeOK
    <3> QED BY <3>1, <3>2, <3>3, <3>4
  <2>5. CASE Flush(w)
    <3> DEFINE j    == work[w]
               full == ckpt[j].rec + Batch <= Records
               upto == IF full THEN ckpt[j].rec + Batch ELSE Records
               c    == [inspected |-> TRUE, rec |-> upto, done |-> ~full]
    <3>1. /\ j \in Job /\ ~ckpt[j].done /\ local[w] = ckpt[j] /\ ckpt[j].inspected
          /\ rows' = [rows EXCEPT ![j] = 1 .. upto]
          /\ total' = [total EXCEPT ![j] = upto]
          /\ ckpt' = [ckpt EXCEPT ![j] = c]
      BY <2>5, FlushCommits
    <3>2. c.inspected /\ (c.done => c.rec = Records) /\ (c.done <=> ~full)
      OBVIOUS
    <3>3. /\ local' = [local EXCEPT ![w] = c]
          /\ pc' = [pc EXCEPT ![w] = IF full THEN "stream" ELSE "compare"]
          /\ pc[w] = "stream" /\ Owns(w)
          /\ UNCHANGED <<state, owner, attempts, cancel, work, exportVars>>
      BY <2>5, <3>1 DEF Flush, Heartbeat
    <3> HIDE DEF j, full, c
    <3>4. CommittedOnce'
      BY <3>1 DEF CommittedOnce, TypeOK, c
    <3>5. CheckpointsAreSound'
      BY <3>1, <3>2 DEF CheckpointsAreSound, TypeOK
    <3>6. MemoryIsFresh'
      BY <3>1, <3>2, <3>3 DEF MemoryIsFresh, Owns, TypeOK, j
    <3>7. PresentedIsDone'
      BY <3>1, <3>2, <3>3 DEF PresentedIsDone, exportVars, TypeOK
    <3>8. EndedIsUnowned'
      BY <3>3 DEF EndedIsUnowned, Owns, TypeOK
    <3> QED BY <3>4, <3>5, <3>6, <3>7, <3>8
  <2>6. CASE FlushCancelled(w) \/ LeaseLost(w) \/ FinishJob(w) \/ Crash(w)
    <3>1. CommittedOnce' /\ CheckpointsAreSound'
      BY <2>6 DEF FlushCancelled, LeaseLost, FinishJob, Crash, tableVars, exportVars, CommittedOnce, CheckpointsAreSound
    <3>2. MemoryIsFresh'
      BY <2>6 DEF FlushCancelled, LeaseLost, FinishJob, Crash, tableVars, exportVars, MemoryIsFresh, Owns, Place, TypeOK
    <3>3. PresentedIsDone'
      BY <2>6 DEF FlushCancelled, LeaseLost, FinishJob, Crash, tableVars, exportVars, PresentedIsDone, Presented, MemoryIsFresh, TypeOK
    <3>4. EndedIsUnowned'
      BY <2>6 DEF FlushCancelled, LeaseLost, FinishJob, Crash, tableVars, exportVars, EndedIsUnowned, Owns, Running, TypeOK
    <3> QED BY <3>1, <3>2, <3>3, <3>4
  <2>7. CASE Complete(w) \/ Fail(w) \/ Reject(w)
    <3>1. CommittedOnce' /\ CheckpointsAreSound'
      BY <2>7 DEF Complete, Fail, Reject, EndAttempt, exportVars, CommittedOnce, CheckpointsAreSound
    <3>2. MemoryIsFresh'
      BY <2>7, JobQueueAssumption DEF Complete, Fail, Reject, EndAttempt, exportVars, MemoryIsFresh, Owns, Place, TypeOK
    <3>3. PresentedIsDone'
      BY <2>7 DEF Complete, Fail, Reject, EndAttempt, exportVars, PresentedIsDone, Presented, MemoryIsFresh, TypeOK
    <3>4. EndedIsUnowned'
      BY <2>7 DEF Complete, Fail, Reject, EndAttempt, exportVars, EndedIsUnowned, Owns, Running, TypeOK
    <3> QED BY <3>1, <3>2, <3>3, <3>4
  <2>8. CASE MarkCancelled(w)
    <3>1. CommittedOnce' /\ CheckpointsAreSound'
      BY <2>8 DEF MarkCancelled, exportVars, CommittedOnce, CheckpointsAreSound
    <3>2. MemoryIsFresh'
      <4>1. \A v \in Worker : v # w /\ pc[v] # "idle" /\ Owns(v)' => Owns(v)
        <5> SUFFICES ASSUME NEW v \in Worker, v # w, pc[v] # "idle", Owns(v)' PROVE Owns(v)
          OBVIOUS
        <5>1. work[v] \in Job /\ work[w] \in Job /\ work'[v] = work[v]
          BY <2>8 DEF MarkCancelled, TypeOK
        <5>2. owner' = [owner EXCEPT ![work[w]] = NoOwner] /\ WorkerId[v] # NoOwner
          BY <2>8, JobQueueAssumption DEF MarkCancelled
        <5> QED BY <5>1, <5>2 DEF Owns, TypeOK
      <4> QED BY <2>8, <4>1 DEF MarkCancelled, MemoryIsFresh, TypeOK
    <3>3. PresentedIsDone'
      BY <2>8 DEF MarkCancelled, exportVars, PresentedIsDone, Presented, MemoryIsFresh, TypeOK
    <3>4. EndedIsUnowned'
      BY <2>8 DEF MarkCancelled, exportVars, EndedIsUnowned, Owns, Running, TypeOK
    <3> QED BY <3>1, <3>2, <3>3, <3>4
  <2> QED BY <1>2, <2>1, <2>2, <2>3, <2>4, <2>5, <2>6, <2>7, <2>8 DEF Work, Progress
<1>3. ASSUME NEW x \in Exporter, Export(x) PROVE Rest'
  <2> USE <1>3 DEF Export, CheckExport, SetExportState, BeginExport, EndExport, CrashExport,
    tableVars, workerVars, QueueInv
  <2>1. CommittedOnce' /\ CheckpointsAreSound'
    BY DEF CommittedOnce, CheckpointsAreSound
  <2>2. MemoryIsFresh'
    BY DEF MemoryIsFresh, Owns
  <2>3. PresentedIsDone'
    BY DEF PresentedIsDone, Presented, TypeOK
  <2>4. EndedIsUnowned'
    BY DEF EndedIsUnowned, Owns, TypeOK
  <2> QED BY <2>1, <2>2, <2>3, <2>4
<1>4. CASE UNCHANGED vars
  <2> USE <1>4 DEF vars, QueueInv
  <2>1. CommittedOnce' /\ CheckpointsAreSound' /\ PresentedIsDone'
    BY DEF CommittedOnce, CheckpointsAreSound, PresentedIsDone
  <2>2. MemoryIsFresh' /\ EndedIsUnowned'
    BY DEF MemoryIsFresh, EndedIsUnowned, Owns
  <2> QED BY <1>0, <2>1, <2>2
<1> QED BY <1>0, <1>1, <1>2, <1>3, <1>4 DEF Next, QueueInv

\* The invariant holds in every state, for any number of workers whose ids are
\* distinct (runner.worker_id).
THEOREM QueueIsSound == ASSUME DistinctIds PROVE Spec => []QueueInv
<1> QED BY InitInv, InvStep, PTL DEF Spec

-----------------------------------------------------------------------------
(* What follows from it.                                                   *)

\* jobs.py: "a replay neither double-counts nor duplicates rows".
THEOREM ExactlyOnce == ASSUME DistinctIds PROVE Spec => []CommittedOnce
<1>1. QueueInv => CommittedOnce
  BY DEF QueueInv
<1> QED BY <1>1, QueueIsSound, PTL

\* A job is only offered for review or exported with all of its file analysed.
THEOREM NothingUnfinishedIsReviewed == ASSUME DistinctIds PROVE Spec => []ReviewIsComplete
<1>1. QueueInv => ReviewIsComplete
  BY DEF QueueInv, ReviewIsComplete, PresentedIsDone, CheckpointsAreSound, CommittedOnce, Rec
<1> QED BY <1>1, QueueIsSound, PTL

\* A cancellation stops every further commit of the job.
THEOREM CancellationStops == ASSUME DistinctIds PROVE Spec => CancelStopsCommits
<1>1. QueueInv /\ [Next]_vars =>
        [\A j \in Job : cancel[j] => rows'[j] = rows[j] /\ total'[j] = total[j]]_vars
  <2> SUFFICES ASSUME QueueInv, [Next]_vars, NEW j \in Job, cancel[j]
               PROVE  rows'[j] = rows[j] /\ total'[j] = total[j]
    OBVIOUS
  <2>1. ASSUME NEW w \in Worker, Flush(w) PROVE rows'[j] = rows[j] /\ total'[j] = total[j]
    BY <2>1 DEF Flush, Heartbeat, QueueInv, TypeOK
  <2>2. CASE UNCHANGED <<rows, total>>
    BY <2>2
  <2>3. (\E w \in Worker : Flush(w)) \/ UNCHANGED <<rows, total>>
    BY DEF Next, Request, Submit, Cancel, Expire, Work, Claim, Progress, Load, Detect, Inspect, FirstCheckpoint,
      Open, Compare, SetStep, FlushCancelled, LeaseLost, FinishJob, Complete, MarkCancelled,
      Fail, Reject, EndAttempt, Crash, Export, CheckExport, SetExportState, BeginExport,
      EndExport, CrashExport, tableVars, workerVars, exportVars, vars
  <2> QED BY <2>1, <2>2, <2>3
<1> QED BY <1>1, QueueIsSound, PTL DEF Spec, CancelStopsCommits

\* No worker revives a job that failed or was cancelled.
THEOREM EndedStaysEnded == ASSUME DistinctIds PROVE Spec => WorkersLeaveEndedJobs
<1>1. QueueInv /\ [Next]_vars =>
        [\A j \in Job : state[j] \in {"failed", "cancelled"} /\ state'[j] # state[j] =>
           \E x \in Exporter : xwork[x] = j /\ xpc'[x] # xpc[x]]_vars
  <2> SUFFICES ASSUME QueueInv, [Next]_vars, NEW j \in Job,
                      state[j] \in {"failed", "cancelled"}, state'[j] # state[j]
               PROVE  \E x \in Exporter : xwork[x] = j /\ xpc'[x] # xpc[x]
    OBVIOUS
  <2> USE DEF QueueInv
  <2>0. owner[j] = NoOwner /\ \A w \in Worker : work[w] = j => ~Owns(w)
    BY JobQueueAssumption DEF EndedIsUnowned, Owns
  <2>1. ASSUME NEW i \in Job, Request(i) PROVE FALSE
    BY <2>1 DEF Request, Submit, Cancel, Expire, TypeOK
  <2>2. ASSUME NEW w \in Worker, Work(w) PROVE FALSE
    <3>1. CASE Claim(w)
      BY <3>1 DEF Claim, Claimable, Running, TypeOK
    <3>2. CASE Detect(w) \/ Open(w) \/ Compare(w)
      BY <3>2, <2>0 DEF Detect, Open, Compare, SetStep, TypeOK
    <3>3. CASE Complete(w) \/ Fail(w) \/ Reject(w)
      BY <3>3, <2>0 DEF Complete, Fail, Reject, EndAttempt, TypeOK
    <3>4. CASE MarkCancelled(w)
      BY <3>4, <2>0 DEF MarkCancelled, EndedIsUnowned, TypeOK
    <3>5. CASE Load(w) \/ Inspect(w) \/ Flush(w) \/ FlushCancelled(w) \/ LeaseLost(w)
               \/ FinishJob(w) \/ Crash(w)
      BY <3>5 DEF Load, Inspect, FirstCheckpoint, Flush, Heartbeat, FlushCancelled, LeaseLost, FinishJob, Crash, tableVars
    <3> QED BY <2>2, <3>1, <3>2, <3>3, <3>4, <3>5 DEF Work, Progress
  <2>3. ASSUME NEW x \in Exporter, Export(x)
        PROVE  \E y \in Exporter : xwork[y] = j /\ xpc'[y] # xpc[y]
    <3>1. xwork[x] = j
      BY <2>3 DEF Export, CheckExport, BeginExport, EndExport, CrashExport, SetExportState,
                  tableVars, TypeOK
    <3>2. xpc'[x] # xpc[x]
      BY <2>3 DEF Export, CheckExport, BeginExport, EndExport, CrashExport, tableVars, TypeOK
    <3> QED BY <3>1, <3>2
  <2> QED BY <2>1, <2>2, <2>3 DEF Next, vars
<1> QED BY <1>1, QueueIsSound, PTL DEF Spec, WorkersLeaveEndedJobs

-----------------------------------------------------------------------------
(* Refinement.                                                             *)

\* A step that moves at most one job, and commits nothing, presents it,
\* withdraws it, or is invisible to the ledger.
LEMMA MoveRefines ==
  ASSUME TypeOK, CommittedOnce, NEW j \in Job, NEW s \in JobState,
         state' = [state EXCEPT ![j] = s] \/ state' = state,
         s \in Presented => ckpt[j].rec = Records,
         total' = total
  PROVE  [Ledger!Next]_(Ledger!ledgerVars)
<1> DEFINE P == {i \in Job : state[i] \in Presented}
<1>1. CASE state' = state
  BY <1>1 DEF Ledger!ledgerVars
<1>2. CASE state' = [state EXCEPT ![j] = s] /\ s \in Presented
  <2>1. P' = P \cup {j}
    BY <1>2 DEF TypeOK
  <2>2. total[j] = Records
    BY <1>2 DEF CommittedOnce
  <2> QED BY <2>1, <2>2 DEF Ledger!Next, Ledger!Present
<1>3. CASE state' = [state EXCEPT ![j] = s] /\ s \notin Presented
  <2>1. P' = P \ {j}
    BY <1>3 DEF TypeOK
  <2> QED BY <2>1 DEF Ledger!Next, Ledger!Withdraw
<1> QED BY <1>1, <1>2, <1>3

\* A flush that commits something applies one batch of the ledger.
LEMMA FlushRefines ==
  ASSUME QueueInv, NEW w \in Worker, Flush(w)
  PROVE  [Ledger!Next]_(Ledger!ledgerVars)
<1> DEFINE j    == work[w]
           upto == IF total[j] + Batch <= Records THEN total[j] + Batch ELSE Records
<1>1. j \in Job /\ total[j] = ckpt[j].rec /\ total[j] \in 0 .. Records
  BY FlushCommits DEF QueueInv, CommittedOnce, TypeOK, Checkpoint
<1>2. total' = [total EXCEPT ![j] = upto] /\ UNCHANGED state
  BY FlushCommits, <1>1 DEF Flush, Heartbeat
<1>3. CASE total[j] < Records
  BY <1>1, <1>2, <1>3 DEF Ledger!Next, Ledger!Apply
<1>4. CASE total[j] = Records
  <2>1. upto = Records
    BY <1>4, JobQueueAssumption
  <2>2. total' = total
    BY <1>1, <1>2, <1>4, <2>1 DEF QueueInv, TypeOK
  <2> QED BY <1>2, <2>2 DEF Ledger!ledgerVars
<1> QED BY <1>1, <1>3, <1>4, JobQueueAssumption

\* The queue, with its crashes, retries and lost leases, is a ledger that
\* applies every record of a file once and presents the file when all are.
THEOREM QueueRefinesLedger == ASSUME DistinctIds PROVE Spec => ImplementsLedger
<1>1. Init => Ledger!Init
  BY DEF Init, Ledger!Init, Presented
<1>2. QueueInv /\ [Next]_vars => [Ledger!Next]_(Ledger!ledgerVars)
  <2> SUFFICES ASSUME QueueInv, [Next]_vars PROVE [Ledger!Next]_(Ledger!ledgerVars)
    OBVIOUS
  <2>0. /\ TypeOK /\ CommittedOnce
        /\ \A j \in Job : ckpt[j].done => ckpt[j].rec = Records
        /\ \A w \in Worker : pc[w] = "complete" => ckpt[work[w]].done
        /\ \A x \in Exporter : xpc[x] # "idle" => ckpt[xwork[x]].done
    BY DEF QueueInv, CheckpointsAreSound, MemoryIsFresh, PresentedIsDone
  <2>1. ASSUME NEW j \in Job, Request(j) PROVE [Ledger!Next]_(Ledger!ledgerVars)
    <3>1. CASE Submit(j)
      BY <2>0, <3>1, MoveRefines DEF Submit, JobState, Presented
    <3>2. CASE Cancel(j) \/ Expire(j)
      BY <3>2 DEF Cancel, Expire, Ledger!ledgerVars
    <3> QED BY <2>1, <3>1, <3>2 DEF Request
  <2>2. ASSUME NEW w \in Worker, Work(w) PROVE [Ledger!Next]_(Ledger!ledgerVars)
    <3>1. CASE Claim(w)
      <4>1. PICK j \in Job :
              /\ Claimable(j)
              /\ state' = [state EXCEPT ![j] = IF @ = "queued" THEN "inspecting" ELSE @]
        BY <3>1 DEF Claim
      <4>2. state' = [state EXCEPT ![j] = "inspecting"] \/ state' = state
        BY <2>0, <4>1 DEF TypeOK
      <4>3. total' = total
        BY <3>1 DEF Claim
      <4> QED BY <2>0, <4>2, <4>3, MoveRefines DEF JobState, Presented
    <3>2. CASE Detect(w) \/ Open(w) \/ Compare(w)
      <4>1. work[w] \in Job
        BY <3>2, <2>0, WorkInJob DEF Detect, Open, Compare, SetStep
      <4> QED BY <3>2, <4>1, <2>0, MoveRefines
              DEF Detect, Open, Compare, SetStep, JobState, Presented
    <3>3. CASE Complete(w)
      <4>1. work[w] \in Job /\ ckpt[work[w]].rec = Records
        BY <3>3, <2>0, WorkInJob DEF Complete
      <4> QED BY <3>3, <4>1, <2>0, MoveRefines DEF Complete, EndAttempt, JobState
    <3>4. CASE Fail(w) \/ Reject(w)
      <4>1. work[w] \in Job
        BY <3>4, <2>0, WorkInJob DEF Fail, Reject, Guarded
      <4>2. total' = total /\ \/ state' = [state EXCEPT ![work[w]] = "failed"]
                              \/ state' = [state EXCEPT ![work[w]] = "queued"]
                              \/ state' = state
        BY <3>4 DEF Fail, Reject, EndAttempt
      <4> QED BY <4>1, <4>2, <2>0, MoveRefines DEF JobState, Presented
    <3>5. CASE MarkCancelled(w)
      <4>1. work[w] \in Job
        BY <3>5, <2>0, WorkInJob DEF MarkCancelled
      <4> QED BY <3>5, <4>1, <2>0, MoveRefines DEF MarkCancelled, JobState, Presented
    <3>6. CASE Load(w) \/ Inspect(w) \/ FlushCancelled(w) \/ LeaseLost(w) \/ FinishJob(w) \/ Crash(w)
      BY <3>6 DEF Load, Inspect, FirstCheckpoint, FlushCancelled, LeaseLost, FinishJob, Crash, tableVars,
                  Ledger!ledgerVars
    <3>7. CASE Flush(w)
      BY <3>7, FlushRefines
    <3> QED BY <2>2, <3>1, <3>2, <3>3, <3>4, <3>5, <3>6, <3>7 DEF Work, Progress
  <2>3. ASSUME NEW x \in Exporter, Export(x) PROVE [Ledger!Next]_(Ledger!ledgerVars)
    <3>1. CASE BeginExport(x) \/ EndExport(x)
      <4>1. xwork[x] \in Job /\ ckpt[xwork[x]].rec = Records
        BY <3>1, <2>0 DEF BeginExport, EndExport, TypeOK
      <4>2. PICK s \in {"exporting", "completed", "awaiting_review"} :
              state' = [state EXCEPT ![xwork[x]] = s] /\ total' = total
        BY <3>1 DEF BeginExport, EndExport, SetExportState
      <4>3. s \in JobState
        BY DEF JobState
      <4> QED BY <4>1, <4>2, <4>3, <2>0, MoveRefines
    <3>2. CASE (\E j \in Job : CheckExport(x, j)) \/ CrashExport(x)
      BY <3>2 DEF CheckExport, CrashExport, tableVars, Ledger!ledgerVars
    <3> QED BY <2>3, <3>1, <3>2 DEF Export
  <2>4. CASE UNCHANGED vars
    BY <2>4 DEF vars, Ledger!ledgerVars
  <2> QED BY <2>1, <2>2, <2>3, <2>4 DEF Next
<1> QED BY <1>1, <1>2, QueueIsSound, PTL DEF Spec, ImplementsLedger, Ledger!Spec
=============================================================================
