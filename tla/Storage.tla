------------------------------- MODULE Storage -------------------------------
(***************************************************************************)
(* Resumable uploads (workspace/api.py), the source store they end in      *)
(* (ingest.register_source), the jobs on those sources and the retention   *)
(* purge (workspace/maintenance.py).                                       *)
(*                                                                         *)
(* A client is one request at a time; each SELECT, each transaction and    *)
(* each use of a file is a step.  A file is the set of its units that are  *)
(* written.  Artifacts, and what a job's purge does to its generation, are *)
(* left to Artifacts and Generations.                                      *)
(***************************************************************************)
EXTENDS Naturals, FiniteSets, FiniteSetsExt

CONSTANTS
  Asker,      \* clients that carry uploads and submit jobs
  Upload,     \* uploads in the model
  Sends,      \* the digest of what a client sends by an upload
  WholeFile,  \* digests of whole files
  Size,       \* declared_size of every upload, in units
  SourceJob,  \* jobs in the model
  Budget,     \* CHECKDIGIT_WORKSPACE_MAX_BYTES, in units
  Torn,       \* the digest of a file that is not whole
  Gone        \* a file that is not there

ASSUME StorageAssumption ==
  /\ Size \in Nat
  /\ Sends \in [Upload -> WholeFile]
  /\ Torn \notin WholeFile
  /\ Gone \notin Upload

VARIABLES
  upload,     \* uploads: state and received_bytes
  part,       \* the .part file of each upload: units written, or Gone
  store,      \* the files in the source store, by digest
  source,     \* the rows of source_files, by digest
  job,        \* jobs: state, source, and whether they have message rows
  old,        \* the uploads, jobs and sources past their retention
  askPc,      \* where each client stands,
  askLoc,     \* and what it remembers
  sweep       \* where the purge stands, and the rows it has selected

rowVars  == <<upload, source, job>>
fileVars == <<part, store>>
askVars  == <<askPc, askLoc>>
storageVars == <<upload, part, store, source, job, old, askPc, askLoc, sweep>>

Unit      == 1 .. Size
UploadRow == [state : {"none", "open", "complete", "abandoned"}, received : 0 .. Size]
SourceJobRow ==
  [state : {"none", "running", "completed", "exporting"}, source : WholeFile \cup {Torn, Gone},
   messages : BOOLEAN]
NoJob      == [state |-> "none", source |-> Gone, messages |-> FALSE]
SweepSteps == {"idle", "uploads", "jobs", "sources"}

StorageTypeOK ==
  /\ upload \in [Upload -> UploadRow]
  /\ part \in [Upload -> {Gone} \cup SUBSET Unit]
  /\ store \subseteq WholeFile \cup {Torn} /\ source \subseteq WholeFile \cup {Torn}
  /\ job \in [SourceJob -> SourceJobRow]
  /\ old \subseteq Upload \cup SourceJob \cup WholeFile
  /\ askPc \in [Asker -> {"idle", "write", "count", "hash", "register", "submit"}]
  /\ sweep.step \in SweepSteps

Forgotten == [upload |-> Gone, offset |-> 0, length |-> 0, source |-> Gone]
Resting == [step |-> "idle", rows |-> {}, removed |-> Gone]

StorageInit ==
  /\ upload = [u \in Upload |-> [state |-> "none", received |-> 0]]
  /\ part = [u \in Upload |-> Gone]
  /\ store = {} /\ source = {}
  /\ job = [j \in SourceJob |-> NoJob]
  /\ old = {}
  /\ askPc = [c \in Asker |-> "idle"]
  /\ askLoc = [c \in Asker |-> Forgotten]
  /\ sweep = Resting

MoveOn(c, place, l) ==
  /\ askPc' = [askPc EXCEPT ![c] = place]
  /\ askLoc' = [askLoc EXCEPT ![c] = IF place = "idle" THEN Forgotten ELSE l]

\* A refusal, an exception or the death of the process.
BreakOff(c) ==
  /\ askPc[c] # "idle"
  /\ MoveOn(c, "idle", Forgotten)
  /\ UNCHANGED <<rowVars, fileVars, old, sweep>>

-----------------------------------------------------------------------------
(* Uploads.                                                                *)

Written(u) == IF part[u] = Gone THEN 0 ELSE Cardinality(part[u])
Usage == MapThenSumSet(Written, Upload) + Cardinality(store) * Size

\* The declared size is looked at once, before the first byte.
CreateUpload(c) ==
  /\ askPc[c] = "idle"
  /\ Usage + Size <= Budget
  /\ \E u \in Upload :
       /\ upload[u].state = "none"
       /\ upload' = [upload EXCEPT ![u].state = "open"]
       /\ part' = [part EXCEPT ![u] = {}]
  /\ UNCHANGED <<source, job, store, old, askVars, sweep>>

\* append_upload: the offset must be the one that was reached.
ReadUpload(c) ==
  /\ askPc[c] = "idle"
  /\ \E u \in Upload : \E n \in 1 .. Size - upload[u].received :
       /\ upload[u].state = "open"
       /\ MoveOn(c, "write", [Forgotten EXCEPT !.upload = u, !.offset = upload[u].received, !.length = n])
  /\ UNCHANGED <<rowVars, fileVars, old, sweep>>

WritePart(c) ==
  /\ askPc[c] = "write"
  /\ LET u == askLoc[c].upload IN
       /\ part[u] # Gone
       /\ part' = [part EXCEPT ![u] = @ \cup (askLoc[c].offset + 1 .. askLoc[c].offset + askLoc[c].length)]
  /\ MoveOn(c, "count", askLoc[c])
  /\ UNCHANGED <<rowVars, store, old, sweep>>

\* Mutant of CountPart: the length is added to what the row says now.
CountPartMore(c) ==
  /\ askPc[c] = "count"
  /\ upload' = [upload EXCEPT ![askLoc[c].upload].received = Min({Size, @ + askLoc[c].length})]
  /\ MoveOn(c, "idle", Forgotten)
  /\ UNCHANGED <<source, job, fileVars, old, sweep>>

\* The state of the upload is not looked at again.
CountPart(c) ==
  /\ askPc[c] = "count"
  /\ upload' = [upload EXCEPT ![askLoc[c].upload].received = askLoc[c].offset + askLoc[c].length]
  /\ MoveOn(c, "idle", Forgotten)
  /\ UNCHANGED <<source, job, fileVars, old, sweep>>

AskComplete(c) ==
  /\ askPc[c] = "idle"
  /\ \E u \in Upload :
       /\ upload[u].state \in {"open", "abandoned"} /\ upload[u].received = Size
       /\ MoveOn(c, "hash", [Forgotten EXCEPT !.upload = u])
  /\ UNCHANGED <<rowVars, fileVars, old, sweep>>

HashPart(c) ==
  /\ askPc[c] = "hash"
  /\ part[askLoc[c].upload] # Gone
  /\ MoveOn(c, "register", askLoc[c])
  /\ UNCHANGED <<rowVars, fileVars, old, sweep>>

Digest(u) == IF part[u] = Unit THEN Sends[u] ELSE Torn

\* register_source moves the part to the store unless its content is known.
MovePart(u) ==
  /\ part[u] # Gone
  /\ part' = [part EXCEPT ![u] = Gone]
  /\ store' = IF Digest(u) \in source THEN store ELSE store \cup {Digest(u)}

CompleteUpload(c) ==
  /\ askPc[c] = "register"
  /\ LET u == askLoc[c].upload IN
       /\ MovePart(u)
       /\ source' = source \cup {Digest(u)}
       /\ upload' = [upload EXCEPT ![u].state = "complete"]
  /\ MoveOn(c, "idle", Forgotten)
  /\ UNCHANGED <<job, old, sweep>>

\* The process dies behind the move: the transaction is rolled back.
LoseUpload(c) ==
  /\ askPc[c] = "register"
  /\ MovePart(askLoc[c].upload)
  /\ MoveOn(c, "idle", Forgotten)
  /\ UNCHANGED <<rowVars, old, sweep>>

-----------------------------------------------------------------------------
(* Jobs on a source.                                                       *)

FindSource(c) ==
  /\ askPc[c] = "idle"
  /\ \E d \in source : MoveOn(c, "submit", [Forgotten EXCEPT !.source = d])
  /\ UNCHANGED <<rowVars, fileVars, old, sweep>>

\* source_file_id REFERENCES source_files: the row must still be there.
SubmitJob(c) ==
  /\ askPc[c] = "submit"
  /\ askLoc[c].source \in source
  /\ \E j \in SourceJob :
       /\ job[j].state = "none"
       /\ job' = [job EXCEPT ![j] = [state |-> "running", source |-> askLoc[c].source,
                                     messages |-> FALSE]]
  /\ MoveOn(c, "idle", Forgotten)
  /\ UNCHANGED <<upload, source, fileVars, old, sweep>>

\* A job ends, with message rows or without, and is exported again and again.
JobGoesOn(j) ==
  /\ \/ /\ job[j].state = "running"
        /\ \E m \in BOOLEAN : job' = [job EXCEPT ![j].state = "completed", ![j].messages = m]
     \/ job[j].state = "completed" /\ job' = [job EXCEPT ![j].state = "exporting"]
     \/ job[j].state = "exporting" /\ job' = [job EXCEPT ![j].state = "completed"]
  /\ old' = old \ {j}
  /\ UNCHANGED <<upload, source, fileVars, askVars, sweep>>

-----------------------------------------------------------------------------
(* maintenance.purge, one at a time; without the artifacts.                *)

Age ==
  /\ \E x \in (Upload \cup SourceJob \cup WholeFile) \ old :
       /\ x \in Upload => upload[x].state = "open"
       /\ x \in SourceJob => job[x].state = "completed"
       /\ x \in WholeFile => x \in source
       /\ old' = old \cup {x}
  /\ UNCHANGED <<rowVars, fileVars, askVars, sweep>>

Sweep(step, rows) == sweep' = [step |-> step, rows |-> rows, removed |-> Gone]

UsedSources == {job[j].source : j \in SourceJob}

\* One SELECT per step, with the ages of that moment.
Select ==
  /\ sweep.rows = {}
  /\ CASE sweep.step = "idle"    -> Sweep("uploads", {u \in old \cap Upload : upload[u].state = "open"})
       [] sweep.step = "uploads" -> Sweep("jobs", {j \in old \cap SourceJob : job[j].state = "completed"})
       [] sweep.step = "jobs"    -> Sweep("sources", (source \cap old) \ UsedSources)
       [] sweep.step = "sources" -> sweep' = Resting
  /\ UNCHANGED <<rowVars, fileVars, old, askVars>>

RemoveFile ==
  /\ sweep.step \in {"uploads", "sources"} /\ sweep.removed = Gone
  /\ \E x \in sweep.rows :
       /\ sweep' = [sweep EXCEPT !.removed = x]
       /\ IF sweep.step = "uploads"
          THEN part' = [part EXCEPT ![x] = Gone] /\ UNCHANGED store
          ELSE store' = store \ {x} /\ UNCHANGED part
  /\ UNCHANGED <<rowVars, old, askVars>>

Swept(x) == sweep' = [sweep EXCEPT !.rows = @ \ {x}, !.removed = Gone]

AbandonUpload ==
  /\ sweep.step = "uploads" /\ sweep.removed # Gone
  /\ upload' = [upload EXCEPT ![sweep.removed].state = "abandoned"]
  /\ Swept(sweep.removed)
  /\ UNCHANGED <<source, job, fileVars, old, askVars>>

\* The message rows of a job reference it and stay: the DELETE fails, and
\* with it the purge (see PurgeDies).  The state is not looked at again.
DeleteJob ==
  /\ sweep.step = "jobs"
  /\ \E j \in sweep.rows :
       /\ ~job[j].messages
       /\ job' = [job EXCEPT ![j] = NoJob]
       /\ old' = old \ {j}
       /\ Swept(j)
  /\ UNCHANGED <<upload, source, fileVars, askVars>>

\* A job that was submitted since references the row: the DELETE fails.
DeleteSource ==
  /\ sweep.step = "sources" /\ sweep.removed # Gone
  /\ sweep.removed \notin UsedSources
  /\ source' = source \ {sweep.removed}
  /\ old' = old \ {sweep.removed}
  /\ Swept(sweep.removed)
  /\ UNCHANGED <<upload, job, fileVars, askVars>>

PurgeDies ==
  /\ sweep.step # "idle"
  /\ sweep' = Resting
  /\ UNCHANGED <<rowVars, fileVars, old, askVars>>

-----------------------------------------------------------------------------
Ask(c) ==
  \/ CreateUpload(c) \/ ReadUpload(c) \/ WritePart(c) \/ CountPart(c)
  \/ AskComplete(c) \/ HashPart(c) \/ CompleteUpload(c) \/ LoseUpload(c)
  \/ FindSource(c) \/ SubmitJob(c) \/ BreakOff(c)

StorageNext ==
  \/ \E c \in Asker : Ask(c)
  \/ \E j \in SourceJob : JobGoesOn(j)
  \/ Age \/ Select \/ RemoveFile \/ AbandonUpload \/ DeleteJob \/ DeleteSource \/ PurgeDies

StorageSpec == StorageInit /\ [][StorageNext]_storageVars

-----------------------------------------------------------------------------
\* What is stored is what was sent, however many requests write an upload at the
\* same time or die between its file and its row, and whatever a purge removes
\* meanwhile: the units an upload says it received are in its file, only whole
\* files reach "the immutable source store" (ingest.py), and no job is left
\* without the row of its source.
StorageSound ==
  /\ StorageTypeOK
  /\ \A u \in Upload :
       upload[u].state = "open" /\ part[u] # Gone => 1 .. upload[u].received \subseteq part[u]
  /\ Torn \notin store \cup source
  /\ \A j \in SourceJob : job[j].state # "none" => job[j].source \in source

(* ---- why: the parts of an invariant that every step keeps ---- *)

Memory ==
  [upload : Upload \cup {Gone}, offset : 0 .. Size, length : 0 .. Size,
   source : WholeFile \cup {Torn, Gone}]

StorageTyped ==
  /\ StorageTypeOK
  /\ askLoc \in [Asker -> Memory]
  /\ sweep \in [step : SweepSteps, rows : SUBSET (Upload \cup SourceJob \cup WholeFile \cup {Torn}),
                removed : Upload \cup WholeFile \cup {Torn, Gone}]

\* Only an open upload has a file, and the file holds what was counted.
PartsAreCounted ==
  \A u \in Upload :
    /\ upload[u].state = "none" => upload[u].received = 0
    /\ upload[u].state # "open" => part[u] = Gone
    /\ part[u] # Gone => 1 .. upload[u].received \subseteq part[u]

\* A client with an upload in hand: it has begun, what lies before the offset is in its
\* file, what was written is, and it is hashed when it is whole.
HandsAreRight ==
  \A c \in Asker : LET u == askLoc[c].upload IN
    askPc[c] \in {"write", "count", "hash", "register"} =>
      /\ u \in Upload /\ upload[u].state # "none"
      /\ askLoc[c].offset + askLoc[c].length <= Size
      /\ part[u] # Gone =>
           /\ askPc[c] \in {"write", "count"} => 1 .. askLoc[c].offset \subseteq part[u]
           /\ askPc[c] = "count" =>
                askLoc[c].offset + 1 .. askLoc[c].offset + askLoc[c].length \subseteq part[u]
           /\ askPc[c] \in {"hash", "register"} => part[u] = Unit

\* The purge removes the files of uploads that had begun, and then their rows.
SweepIsRight ==
  /\ sweep.step = "uploads" =>
       /\ \A u \in sweep.rows : u \in Upload /\ upload[u].state # "none"
       /\ sweep.removed # Gone => /\ sweep.removed \in sweep.rows
                                  /\ part[sweep.removed] = Gone
  /\ sweep.step = "jobs" => sweep.rows \subseteq SourceJob
  /\ sweep.step = "sources" => sweep.rows \subseteq WholeFile

StorageInv ==
  StorageTyped /\ StorageSound /\ PartsAreCounted /\ HandsAreRight /\ SweepIsRight
=============================================================================
