---------------------------- MODULE WatchFolder -----------------------------
(***************************************************************************)
(* The headless worker (watch_folder.py): it polls a drop directory, takes *)
(* a file once it has stopped growing, runs it through the pipeline of an  *)
(* upload (service.process_upload, which records an audit event) and       *)
(* routes the answer to the outbox and the original to processed/ or       *)
(* failed/.                                                                *)
(*                                                                         *)
(* Partners upload in parts over SFTP while the worker runs.  The worker   *)
(* may die between any two file operations and is started again            *)
(* (docker-compose.yml: restart unless-stopped), with nothing remembered.  *)
(* A name is a number: os.listdir is sorted.                               *)
(***************************************************************************)
EXTENDS Integers, FiniteSetsExt

CONSTANTS
  Names,         \* how many names partners use
  TooLong,       \* the names that are too long once ".corrected" or a time stamp is added
  None,
  Whole,         \* how many parts an upload has
  StableScans,   \* --stable-scans
  MinAge,        \* --min-age, in intervals
  Overwrite,     \* whether a partner uploads over a file that is still there
  MaxUploads,    \* bound on the uploads under one name
  MaxCrashes     \* bound on the crashes

VARIABLES
  dropped,      \* dropped/: the upload and how much of it is there
  state,      \* state of main(): what the last poll saw
  todo,       \* the ready names of the current poll
  work,       \* the file being processed
  done,       \* processed/ and failed/: the originals moved there
  reason,     \* the .reason.txt files
  outbox,     \* outbox/: the corrected files and the reports
  events,     \* the audit events committed so far
  uploads,    \* how many uploads each name has had
  crashes

folderVars == <<dropped, state, todo, work, done, reason, outbox, events, uploads, crashes>>

File    == 1..Names
Version == 1..MaxUploads
Steps   == {"dead", "asleep", "polled", "read", "rejected", "crashed", "moved",
            "processed", "corrected", "reported"}
Outcome == {"processed", "rejected"}
Files   == [v : Version, parts : 1..Whole, polls : 0..StableScans, age : 0..MinAge]

ASSUME FolderAssumption ==
  /\ Names \in Nat /\ MinAge \in Nat /\ MaxUploads \in Nat /\ MaxCrashes \in Nat
  /\ Whole \in Nat \ {0} /\ StableScans \in Nat \ {0}
  /\ None \notin Files

FolderTypeOK ==
  /\ dropped \in [File -> Files \cup {None}]
  /\ \A n \in File : state[n] # None => state[n].stable \in 1..StableScans
  /\ todo \subseteq File
  /\ work.step \in Steps /\ work.file \in Files \cup {None}
  /\ DOMAIN done = {"processed", "failed"}
  /\ events \subseteq File \X Version \X Outcome
  /\ crashes \in 0..MaxCrashes

Idle == [step |-> "asleep", file |-> None]
Dead == [step |-> "dead", file |-> None]

FolderInit ==
  /\ dropped = [n \in File |-> None] /\ state = [n \in File |-> None]
  /\ todo = {} /\ work = Idle
  /\ done = [d \in {"processed", "failed"} |-> {}] /\ reason = {}
  /\ outbox = [kind \in {"corrected", "report"} |-> [n \in File |-> 0]]
  /\ events = {} /\ uploads = [n \in File |-> 0] /\ crashes = 0

workerVars == <<state, todo, work, done, reason, outbox, events, crashes>>

(* ---- partners ---- *)

Put(n, parts, v) == dropped' = [dropped EXCEPT ![n] = [v |-> v, parts |-> parts, polls |-> 0, age |-> 0]]

BeginUpload(n) ==
  /\ dropped[n] = None \/ Overwrite
  /\ uploads[n] < MaxUploads
  /\ uploads' = [uploads EXCEPT ![n] = @ + 1]
  /\ Put(n, 1, uploads[n] + 1)
  /\ UNCHANGED workerVars

GrowUpload(n) ==
  /\ dropped[n] # None /\ dropped[n].parts < Whole
  /\ Put(n, dropped[n].parts + 1, dropped[n].v)
  /\ UNCHANGED <<workerVars, uploads>>

(* ---- one poll (run_once) ---- *)

Capped(n, cap) == IF n < cap THEN n ELSE cap

\* No upload pauses for as long as a file must be unchanged to be taken for complete.
NoLongPause ==
  \A n \in File : dropped[n] # None /\ dropped[n].parts < Whole =>
                    dropped[n].polls + 1 < StableScans \/ dropped[n].age < MinAge

\* Size and mtime stand for the upload and its parts.
SameFile(f, g) == f.v = g.v /\ f.parts = g.parts

\* What select_ready remembers of a name: how often in a row it saw this very file.
SeenAgainAnyhow(n) ==
  [file |-> dropped[n], stable |-> IF state[n] # None THEN Capped(state[n].stable + 1, StableScans) ELSE 1]
SeenAgain(n) ==
  [file |-> dropped[n],
   stable |-> IF state[n] # None /\ SameFile(state[n].file, dropped[n])
              THEN Capped(state[n].stable + 1, StableScans) ELSE 1]

Ready(n) == dropped[n] # None /\ SeenAgain(n).stable >= StableScans /\ dropped[n].age >= MinAge

PollFolder ==
  /\ work.step = "asleep" /\ NoLongPause
  /\ state' = [n \in File |-> IF dropped[n] = None THEN None ELSE SeenAgain(n)]
  /\ todo' = {n \in File : Ready(n)}
  /\ work' = [Idle EXCEPT !.step = "polled"]
  /\ dropped' = [n \in File |-> IF dropped[n] = None THEN None
                              ELSE [dropped[n] EXCEPT !.polls = Capped(@ + 1, StableScans)]]
  /\ UNCHANGED <<done, reason, outbox, events, uploads, crashes>>

\* An interval passes between two polls.
Sleep ==
  /\ work.step = "polled" /\ todo = {}
  /\ work' = Idle
  /\ dropped' = [n \in File |-> IF dropped[n] = None THEN None
                              ELSE [dropped[n] EXCEPT !.age = Capped(@ + 1, MinAge)]]
  /\ UNCHANGED <<state, todo, done, reason, outbox, events, uploads, crashes>>

(* ---- one file (process_file) ---- *)

Working(step)  == work.step = step /\ todo # {}
Cur       == Min(todo)
GoOn(step) == work' = [work EXCEPT !.step = step]

\* The worker forgets the file and takes the next one; a file that is dropped again starts fresh.
NextFile ==
  /\ todo' = todo \ {Cur}
  /\ state' = [state EXCEPT ![Cur] = None]
  /\ work' = [Idle EXCEPT !.step = "polled"]

\* The file is read as it is now; one that has vanished is skipped.
ReadFile ==
  /\ Working("polled")
  /\ IF dropped[Cur] = None
     THEN NextFile
     ELSE /\ work' = [step |-> "read", file |-> dropped[Cur]]
          /\ UNCHANGED <<todo, state>>
  /\ UNCHANGED <<dropped, done, reason, outbox, events, uploads, crashes>>

\* process_upload commits one event and answers, or raises before or after it has.
Pipeline ==
  /\ Working("read")
  /\ \E verdict \in Outcome, audited \in BOOLEAN, raises \in BOOLEAN :
       /\ ~audited => raises
       /\ events' = IF audited THEN events \cup {<<Cur, work.file.v, verdict>>} ELSE events
       /\ GoOn(IF raises THEN "crashed" ELSE verdict)
  /\ UNCHANGED <<dropped, state, todo, done, reason, outbox, uploads, crashes>>

\* An error that nobody catches ends the loop.
Dies == /\ work' = Dead /\ todo' = {} /\ state' = [n \in File |-> None]

\* shutil.move of whatever has the name now, under a time stamp that makes the name longer.
Moved(dir) ==
  /\ dropped[Cur] # None /\ Cur \notin TooLong
  /\ done' = [done EXCEPT ![dir] = @ \cup {<<Cur, dropped[Cur].v>>}]
  /\ dropped' = [dropped EXCEPT ![Cur] = None]

CannotMove == dropped[Cur] = None \/ Cur \in TooLong

Quarantine ==
  /\ Working("rejected") \/ Working("crashed")
  /\ \/ Moved("failed") /\ GoOn("moved") /\ UNCHANGED <<state, todo>>
     \/ CannotMove /\ Dies /\ UNCHANGED <<dropped, done>>
  /\ UNCHANGED <<reason, outbox, events, uploads, crashes>>

WriteReason ==
  /\ Working("moved")
  /\ reason' = reason \cup {<<Cur, work.file.v>>}
  /\ NextFile
  /\ UNCHANGED <<dropped, done, outbox, events, uploads, crashes>>

\* The outputs are written under the name of the file, over those of an earlier drop.
WriteCorrected ==
  /\ Working("processed")
  /\ IF Cur \in TooLong
     THEN Dies /\ UNCHANGED outbox
     ELSE /\ outbox' = [outbox EXCEPT !["corrected"][Cur] = work.file.v]
          /\ GoOn("corrected") /\ UNCHANGED <<state, todo>>
  /\ UNCHANGED <<dropped, done, reason, events, uploads, crashes>>

WriteReport ==
  /\ Working("corrected")
  /\ outbox' = [outbox EXCEPT !["report"][Cur] = work.file.v]
  /\ GoOn("reported")
  /\ UNCHANGED <<dropped, state, todo, done, reason, events, uploads, crashes>>

MoveEarly ==
  /\ Working("processed") \/ Working("corrected") \/ Working("reported")
  /\ \/ Moved("processed") /\ NextFile
     \/ CannotMove /\ Dies /\ UNCHANGED <<dropped, done>>
  /\ UNCHANGED <<reason, outbox, events, uploads, crashes>>
MoveToProcessed ==
  /\ Working("reported")
  /\ \/ Moved("processed") /\ NextFile
     \/ CannotMove /\ Dies /\ UNCHANGED <<dropped, done>>
  /\ UNCHANGED <<reason, outbox, events, uploads, crashes>>

(* ---- the process ---- *)

Crash ==
  /\ work.step # "dead" /\ crashes < MaxCrashes
  /\ crashes' = crashes + 1
  /\ Dies
  /\ UNCHANGED <<dropped, done, reason, outbox, events, uploads>>

Restart ==
  /\ work.step = "dead"
  /\ work' = Idle
  /\ UNCHANGED <<dropped, state, todo, done, reason, outbox, events, uploads, crashes>>

Partner == \E n \in File : BeginUpload(n) \/ GrowUpload(n)

Worker ==
  \/ PollFolder \/ Sleep \/ ReadFile \/ Pipeline \/ Quarantine \/ WriteReason
  \/ WriteCorrected \/ WriteReport \/ MoveToProcessed \/ Restart

FolderNext == Partner \/ Worker \/ Crash

FolderSpec == FolderInit /\ [][FolderNext]_folderVars

\* The worker runs and is started again; an upload that was begun goes on.
FairSpec == FolderSpec /\ WF_folderVars(Worker) /\ \A n \in File : WF_folderVars(GrowUpload(n))

(* ---- properties ---- *)

\* Only complete files are processed, whatever the polls see of an upload in progress and
\* however often the worker is started again (select_ready), provided no upload pauses too
\* long and nobody uploads over a file that is still there.
OnlyWholeFilesAreRead == FolderTypeOK /\ (work.file # None => work.file.parts = Whole)

\* An original is in processed/ only after it was audited as processed and both of its answers
\* were in the outbox, whatever crash came between; nothing that was uploaded is lost: it is in
\* dropped/, in processed/ or in failed/ (process_file).
AnsweredBeforeArchived ==
  /\ \A f \in done["processed"] :
       /\ <<f[1], f[2], "processed">> \in events
       /\ outbox["corrected"][f[1]] >= f[2] /\ outbox["report"][f[1]] >= f[2]
  /\ \A n \in File : \A v \in 1..uploads[n] :
       \/ dropped[n] # None /\ dropped[n].v = v
       \/ <<n, v>> \in done["processed"] \cup done["failed"]

\* "one bad file must never stop the line" (watch_folder.py:34-35): whatever is dropped is taken
\* out of dropped/ in the end.
LineKeepsMoving == \A n \in File \ TooLong : dropped[n] # None ~> dropped[n] = None

(* ---- why: an invariant that every step keeps when nobody uploads over a file ---- *)

FolderTyped ==
  /\ FolderTypeOK
  /\ state \in [File -> [file : Files, stable : 1..StableScans] \cup {None}]
  /\ work \in [step : Steps, file : Files \cup {None}]
  /\ done \in [{"processed", "failed"} -> SUBSET (File \X Version)]
  /\ outbox \in [{"corrected", "report"} -> [File -> 0..MaxUploads]]
  /\ uploads \in [File -> 0..MaxUploads]

\* A name was not seen unchanged more often than it was there unchanged at a poll.
SeenIsPast ==
  \A n \in File :
    /\ dropped[n] # None => dropped[n].v = uploads[n]
    /\ state[n] # None =>
         /\ state[n].file.v <= uploads[n]
         /\ dropped[n] # None /\ state[n].file.v = dropped[n].v =>
              /\ state[n].file.parts <= dropped[n].parts
              /\ state[n].file.parts = dropped[n].parts => state[n].stable <= dropped[n].polls

\* What waits is whole and stays, the current file until it is moved away.
TodoIsWhole ==
  \A n \in todo : n # Cur \/ work.step # "moved" => dropped[n] # None /\ dropped[n].parts = Whole

\* The file in work is the one in the folder, and what was done for it is there.
WorkIsRight ==
  /\ work.step \in {"dead", "asleep", "polled"} <=> work.file = None
  /\ work.file # None => todo # {} /\ work.file.parts = Whole
  /\ work.step \in {"read", "rejected", "crashed", "processed", "corrected", "reported"} =>
       work.file.v = dropped[Cur].v
  /\ work.step \in {"processed", "corrected", "reported"} =>
       <<Cur, work.file.v, "processed">> \in events
  /\ work.step \in {"corrected", "reported"} => outbox["corrected"][Cur] = work.file.v
  /\ work.step = "reported" => outbox["report"][Cur] = work.file.v

DoneIsOld == \A d \in {"processed", "failed"} : \A f \in done[d] : f[2] <= uploads[f[1]]

FolderInv ==
  /\ FolderTyped /\ SeenIsPast /\ TodoIsWhole /\ WorkIsRight /\ DoneIsOld
  /\ OnlyWholeFilesAreRead /\ AnsweredBeforeArchived

=============================================================================
