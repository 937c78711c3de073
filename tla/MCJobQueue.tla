----------------------------- MODULE MCJobQueue -----------------------------
(* Small instances of JobQueue for TLC: one job that two workers of their  *)
(* own ids (runner.worker_id) contend for, and, in variables of its own, a *)
(* queue of two jobs with one worker.  A behavior is one of one of them.   *)
EXTENDS JobQueue, TLC

CONSTANTS w1, w2, i1, i2

OwnIds == (w1 :> i1) @@ (w2 :> i2)

VARIABLES lineState, lineOwner, lineLease, lineAttempts, lineCancel, lineCkpt, lineRows, lineTotal,
          linePc, lineWork, lineLocal, lineXpc, lineXwork

lineVars == <<lineState, lineOwner, lineLease, lineAttempts, lineCancel, lineCkpt, lineRows, lineTotal,
              linePc, lineWork, lineLocal, lineXpc, lineXwork>>

Line == INSTANCE JobQueue WITH
          NJobs <- 2, Worker <- {w1}, Id <- {i1}, WorkerId <- w1 :> i1, Records <- 1, Batch <- 1,
          MaxAttempts <- 2,
          state <- lineState, owner <- lineOwner, lease <- lineLease, attempts <- lineAttempts,
          cancel <- lineCancel, ckpt <- lineCkpt, rows <- lineRows, total <- lineTotal,
          pc <- linePc, work <- lineWork, local <- lineLocal, xpc <- lineXpc, xwork <- lineXwork

VARIABLE side

InitAll == Init /\ Line!Init /\ side \in {"one", "line"}

NextAll ==
  /\ UNCHANGED side
  /\ \/ side = "one" /\ Next /\ UNCHANGED lineVars
     \/ side = "line" /\ Line!Next /\ UNCHANGED vars

\* In the state it starts in, nothing of a queue is under any fairness.
SpecAll ==
  InitAll /\ [][NextAll]_<<vars, lineVars, side>> /\ Fairness /\ Line!Fairness

\* Every job of a line of jobs is taken up.
LineIsTaken == Line!QueuedIsTaken
=============================================================================
