---------------------------- MODULE RecordLedger ----------------------------
(***************************************************************************)
(* What the job queue promises about one file per job, without workers,    *)
(* leases, checkpoints or crashes: the records of the file are applied in  *)
(* order, each exactly once and a batch at a time, and a job is presented  *)
(* for review only once all of them are.                                   *)
(***************************************************************************)
EXTENDS Naturals

CONSTANTS Job, Records, Batch

VARIABLES
  applied,     \* how many records of each job have been applied
  presented    \* the jobs offered for review or export

ledgerVars == <<applied, presented>>

Init ==
  /\ applied = [j \in Job |-> 0]
  /\ presented = {}

\* The next batch: a full one, or what is left of the file.
Apply(j) ==
  /\ applied[j] < Records
  /\ applied' = [applied EXCEPT ![j] = IF @ + Batch <= Records THEN @ + Batch ELSE Records]
  /\ UNCHANGED presented

Present(j) ==
  /\ applied[j] = Records
  /\ presented' = presented \cup {j}
  /\ UNCHANGED applied

\* A job may be taken back for another pass; its records stay applied.
Withdraw(j) ==
  /\ presented' = presented \ {j}
  /\ UNCHANGED applied

Next == \E j \in Job : Apply(j) \/ Present(j) \/ Withdraw(j)

Spec == Init /\ [][Next]_ledgerVars
=============================================================================
