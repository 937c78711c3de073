------------------------------- MODULE Batch --------------------------------
(***************************************************************************)
(* Correcting many files in one request (batch.py): a list of files, or an *)
(* archive that is first expanded within its budgets.  Every member is     *)
(* answered in the report, whether it could be read and corrected or not.  *)
(*                                                                         *)
(* One request; what the pipeline makes of a member is a choice.  A name   *)
(* is a sequence: "a(2).csv" is the name of "a.csv" with a 2 behind it.    *)
(***************************************************************************)
EXTENDS Integers, Sequences, FiniteSets, SequencesExt, FiniteSetsExt

CONSTANTS
  Inputs,       \* the requests: sequences of members
  MaxMembers,   \* ZIP_MAX_MEMBERS
  MaxSize,      \* ZIP_MAX_MEMBER_BYTES, MAX_UPLOAD_BYTES
  MaxExpanded   \* ZIP_MAX_EXPANDED_BYTES

Members == UNION {{q[i] : i \in DOMAIN q} : q \in Inputs}

Named(name) == Len(name) \in Nat /\ name = [i \in 1..Len(name) |-> name[i]]

\* The limits are numbers of bytes, as are sizes, and names are sequences.
BatchBounds ==
  /\ MaxMembers \in Nat /\ MaxSize \in Nat /\ MaxExpanded \in Nat
  /\ Inputs \subseteq Seq(Members)
  /\ \A m \in Members : m.size \in Nat /\ m.declared \in Nat /\ Named(m.base) /\ Named(m.out)

VARIABLES
  input,     \* the entries: base (the name without its directory), out (that of its
             \* corrected file), size, declared, dense, corrupt, archived
  looked,    \* how many of them have been looked at
  files,     \* the members to process, in order
  skipped,   \* the members that were not expanded
  expanded,  \* how many bytes were expanded
  phase,     \* expand, skip, process, written or failed
  results,   \* what the report says of each member
  corrected, \* the names under corrected/
  totals,    \* the totals of the manifest
  late       \* whether the time budget is used up

batchVars == <<input, looked, files, skipped, expanded, phase, results, corrected, totals, late>>

Outcomes == {"processed", "rejected", "error"}

BatchTypeOK ==
  /\ looked \in 0..Len(input) /\ expanded \in 0..MaxExpanded /\ late \in BOOLEAN
  /\ phase \in {"expand", "skip", "process", "written", "failed"}
  /\ \A i \in DOMAIN results : results[i].status \in Outcomes
  /\ DOMAIN totals = Outcomes \cup {"files"}

Archive == \E i \in DOMAIN input : input[i].archived

BatchInit ==
  /\ input \in Inputs
  /\ looked = 0 /\ skipped = <<>> /\ expanded = 0 /\ late = FALSE
  /\ files = IF Archive THEN <<>> ELSE [i \in DOMAIN input |-> i]
  /\ phase = IF Archive THEN "expand" ELSE "process"
  /\ results = <<>> /\ corrected = {}
  /\ totals = [k \in Outcomes \cup {"files"} |-> 0]

Later == late' \in {late, TRUE}

(* ---- expanding an archive (_iter_zip, _read_member_bounded) ---- *)

\* A member is not read: too many, too large, too dense, or beyond the archive's budget.
Beyond(m, k) ==
  \/ k > MaxMembers \/ m.declared > MaxSize \/ m.dense
  \/ expanded + m.declared > MaxExpanded

\* What is read stops as soon as it is more than was declared; a corrupt member stops as well.
Readable(m) == m.size <= m.declared /\ m.size <= MaxSize /\ ~m.corrupt

Expand ==
  /\ phase = "expand" /\ looked < Len(input)
  /\ Later
  /\ IF late
     THEN phase' = "failed" /\ UNCHANGED <<looked, files, skipped, expanded>>
     ELSE /\ looked' = looked + 1
          /\ IF Beyond(input[looked + 1], looked + 1) \/ ~Readable(input[looked + 1])
             THEN skipped' = Append(skipped, looked + 1) /\ UNCHANGED <<files, expanded>>
             ELSE files' = Append(files, looked + 1) /\ expanded' = expanded + input[looked + 1].size /\ UNCHANGED skipped
          /\ UNCHANGED phase
  /\ UNCHANGED <<input, results, corrected, totals>>

Expanded ==
  /\ phase = "expand" /\ looked = Len(input)
  /\ phase' = "skip" /\ Later
  /\ UNCHANGED <<input, looked, files, skipped, expanded, results, corrected, totals>>

(* ---- processing (process_batch) ---- *)

NamesIn(field) == {results[i][field] : i \in DOMAIN results}

\* A name not used so far (_dedupe_name).
DedupedTwice(name, used) == IF name \notin used THEN name ELSE Append(name, 2)
Deduped(name, used) ==
  IF name \notin used THEN name
  ELSE Append(name, Min({k \in 2..(Cardinality(used) + 2) : Append(name, k) \notin used}))

Listed(i, status, output) ==
  /\ results' = Append(results, [of |-> i, name |-> Deduped(input[i].base, NamesIn("name")),
                                 status |-> status, output |-> output])
  /\ totals' = [totals EXCEPT !["files"] = @ + 1, ![status] = @ + 1]

Skip ==
  /\ phase = "skip" /\ skipped # <<>>
  /\ Listed(Head(skipped), "rejected", <<>>)
  /\ skipped' = Tail(skipped) /\ Later
  /\ UNCHANGED <<input, looked, files, expanded, phase, corrected>>

Skipped ==
  /\ phase = "skip" /\ skipped = <<>>
  /\ phase' = "process" /\ Later
  /\ UNCHANGED <<input, looked, files, skipped, expanded, results, corrected, totals>>

\* A member that is too large or late is not tried; the pipeline corrects it, rejects it or raises.
Process ==
  /\ phase = "process" /\ files # <<>>
  /\ \E status \in Outcomes :
       /\ input[Head(files)].size > MaxSize => status = "rejected"
       /\ late /\ input[Head(files)].size <= MaxSize => status = "error"
       /\ LET output == IF status = "processed" THEN Deduped(input[Head(files)].out, corrected) ELSE <<>>
          IN  /\ Listed(Head(files), status, output)
              /\ corrected' = IF status = "processed" THEN corrected \cup {output} ELSE corrected
  /\ files' = Tail(files) /\ Later
  /\ UNCHANGED <<input, looked, skipped, expanded, phase>>

Write ==
  /\ phase = "process" /\ files = <<>>
  /\ phase' = "written" /\ Later
  /\ UNCHANGED <<input, looked, files, skipped, expanded, results, corrected, totals>>

BatchNext == Expand \/ Expanded \/ Skip \/ Skipped \/ Process \/ Write

BatchSpec == BatchInit /\ [][BatchNext]_batchVars

(* ---- properties ---- *)

AllAnswered ==
  phase = "written" =>
    /\ Len(results) = Len(input) /\ {results[i].of : i \in DOMAIN results} = DOMAIN input
    /\ Cardinality(NamesIn("name")) = Len(results)
    /\ totals["files"] = Len(input)
    /\ \A s \in Outcomes : totals[s] = Cardinality({i \in DOMAIN results : results[i].status = s})
    /\ Cardinality(corrected) = totals["processed"]

\* The report answers for every member once, under a name of its own, and the totals and the
\* files under corrected/ agree with it, even when members share a path or a base name
\* (process_batch, _dedupe_name); no more is expanded than the archive's budget allows, and
\* nothing that is larger than a member may be (_iter_zip).
EveryMemberAnswered ==
  /\ BatchTypeOK
  /\ AllAnswered
  /\ expanded <= MaxExpanded
  /\ Archive => \A i \in DOMAIN files : input[files[i]].size <= MaxSize /\ files[i] <= MaxMembers
=============================================================================
