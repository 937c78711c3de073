------------------------------- MODULE LargeJob -------------------------------
(***************************************************************************)
(* Inspecting, reviewing and correcting a file too large to be read whole: *)
(* the streaming job (src/lib/largejob.ts), the worker that runs it        *)
(* (src/worker/inspect.worker.ts, src/worker/opfs.ts) and the part of the  *)
(* page that drives it (src/pages/files-large.ts).                         *)
(*                                                                         *)
(* The worker has one current job, but a handler that waits for the file   *)
(* or the disk goes on with the job it began with while others are         *)
(* handled: a pass and an export proceed in steps, between which the page  *)
(* decides, cancels, discards or starts another job.  A text is a sequence *)
(* of characters and a record covers some of them.                         *)
(***************************************************************************)
EXTENDS Integers, Sequences, FiniteSets, SequencesExt

CONSTANTS
  File,        \* the large files
  Null,        \* null
  Chars,       \* the characters of each file
  Items,       \* its records in file order: at, len, kind, cand
  BadAfter,    \* how many records are read before the bytes prove not to be UTF-8, or None
  Verdicts,    \* the decisions reviewers make
  MaxJobs,     \* bound on the inspections
  MaxFiles     \* bound on how often a file is chosen or discarded

VARIABLES
  scan,        \* the jobs: file, store, signal, pass
  cur,         \* the worker's current job, 0 for none
  export,      \* what the export of each job has done
  page,        \* the page
  jobs         \* how many inspections were asked for

largeVars == <<scan, cur, export, page, jobs>>

Job        == 1..MaxJobs
Decisions  == {"proposed", "approved", "rejected", "deferred"}
Undecided  == {"proposed", "deferred"}
Passes     == {"none", "asked", "opening", "reading", "ended", "failed", "answered"}
PageStates == {"uploaded", "inspecting", "awaiting_review", "cancelled", "failed", "exporting", "completed"}

LargeTypeOK ==
  /\ cur \in 0..MaxJobs /\ jobs \in 0..MaxJobs
  /\ \A j \in Job :
       /\ scan[j].pass \in Passes
       /\ scan[j].codec \in {"utf-8", "latin-1"}
       /\ scan[j].result \in {"none", "done", "cancelled"}
       /\ scan[j].cancelled \in BOOLEAN
       /\ scan[j].pass # "none" => scan[j].file \in File
       /\ Len(scan[j].dec) <= Len(scan[j].store)
       /\ \A i \in DOMAIN scan[j].dec : scan[j].dec[i] \in Decisions
       /\ export[j].phase \in {"none", "splice", "exceptions", "ledger", "done", "failed", "cancelled", "answered"}
  /\ page.state \in PageStates /\ page.file \in File \cup {Null} /\ page.shows \in 0..MaxJobs

NoJob == [file |-> Null, store |-> <<>>, dec |-> <<>>, codec |-> "utf-8", buffer |-> <<>>, at |-> 1,
          result |-> "none", cancelled |-> FALSE, pass |-> "none"]

NoExport == [phase |-> "none", pos |-> 0, carry |-> <<>>, chunk |-> Null, cursor |-> 0, edit |-> 0, out |-> <<>>,
             applied |-> {}, ever |-> {}, always |-> {}]

\* Nothing of an earlier file stays on the page (clear).
Cleared == [file |-> Null, state |-> "uploaded", shows |-> 0, offered |-> FALSE, can |-> TRUE, chosen |-> 0]

LargeInit ==
  /\ scan = [j \in Job |-> NoJob] /\ cur = 0
  /\ export = [j \in Job |-> NoExport]
  /\ page = [Cleared EXCEPT !.can = FALSE]
  /\ jobs = 0

(* ---- the store ---- *)

RecordsOf(j) == Items[scan[j].file]

\* A decision byte for every stored record, proposed until it is decided (grow).
Grown(dec, n) == [i \in 1..n |-> IF i <= Len(dec) THEN dec[i] ELSE "proposed"]

Flushed(r) ==
  LET all == r.store \o r.buffer
  IN  [r EXCEPT !.store = all, !.buffer = <<>>, !.dec = Grown(r.dec, Len(all))]

ResetNothing(r) == r
Reset(r) == [r EXCEPT !.store = <<>>, !.dec = <<>>]

(* ---- the pass over the file (runStream, runPass) ---- *)

InspectLarge ==
  /\ page.can /\ page.file # Null /\ jobs < MaxJobs
  /\ jobs' = jobs + 1
  /\ scan' = [scan EXCEPT ![jobs + 1] = [NoJob EXCEPT !.file = page.file, !.pass = "asked"]]
  /\ page' = [page EXCEPT !.shows = 0, !.state = "inspecting", !.can = FALSE]
  /\ UNCHANGED <<cur, export>>

\* The current job is told to stop and its store is closed and removed (closeJob).  A pass or
\* an export that is under way can then only end in an error, whenever it notices.
ClosedJobs ==
  IF cur = 0 THEN scan
  ELSE [scan EXCEPT ![cur] = CASE @.pass = "reading"  -> [NoJob EXCEPT !.file = scan[cur].file, !.pass = "failed"]
                              [] @.pass = "answered" -> [NoJob EXCEPT !.file = scan[cur].file, !.pass = "answered"]
                              [] OTHER -> [NoJob EXCEPT !.file = scan[cur].file, !.pass = scan[cur].pass, !.result = scan[cur].result]]

CloseExport ==
  CASE cur = 0 -> UNCHANGED export
    [] cur # 0 /\ export[cur].phase \in {"splice", "exceptions", "ledger"} ->
         \E error \in {"failed", "cancelled"} : export' = [export EXCEPT ![cur] = [NoExport EXCEPT !.phase = error]]
    [] OTHER -> export' = [export EXCEPT ![cur] = [NoExport EXCEPT !.phase = export[cur].phase]]

BeginInspect(j) ==
  /\ scan[j].pass = "asked"
  /\ scan' = [ClosedJobs EXCEPT ![j].pass = "opening"] /\ CloseExport
  /\ cur' = 0
  /\ UNCHANGED <<page, jobs>>

\* The store is opened before the job becomes the current one, whichever that is by now.
OpenStore(j) ==
  /\ scan[j].pass = "opening"
  /\ scan' = [scan EXCEPT ![j].pass = "reading"]
  /\ cur' = j
  /\ UNCHANGED <<export, page, jobs>>

\* Records go to a buffer, which is appended to the store when it is full.
ReadItem(j) ==
  /\ scan[j].pass = "reading" /\ scan[j].at <= Len(RecordsOf(j))
  /\ scan[j].codec = "latin-1" \/ BadAfter[scan[j].file] # scan[j].at - 1
  /\ LET read == [scan[j] EXCEPT !.buffer = Append(@, RecordsOf(j)[scan[j].at]), !.at = @ + 1]
     IN  \E r \in {read, Flushed(read)} : scan' = [scan EXCEPT ![j] = r]
  /\ UNCHANGED <<cur, export, page, jobs>>

\* The bytes are not UTF-8: everything is read again as ISO-8859-1.
Restart(j) ==
  /\ scan[j].pass = "reading" /\ scan[j].codec = "utf-8"
  /\ BadAfter[scan[j].file] = scan[j].at - 1
  /\ scan' = [scan EXCEPT ![j] = [Reset(scan[j]) EXCEPT !.codec = "latin-1", !.at = 1, !.buffer = <<>>]]
  /\ UNCHANGED <<cur, export, page, jobs>>

\* The signal is looked at whenever progress is reported; an export sets it back before it
\* looks at it.  A pass whose job was replaced ends in an error.
EndPass(j) ==
  /\ scan[j].pass = "reading"
  /\ \E result \in {"done", "cancelled"} :
       /\ result = "done" => /\ scan[j].at > Len(RecordsOf(j))
                             /\ scan[j].codec = "latin-1" \/ BadAfter[scan[j].file] # scan[j].at - 1
       /\ result = "cancelled" => scan[j].cancelled
       /\ scan' = [scan EXCEPT ![j] = IF cur = j
                                    THEN [Flushed(scan[j]) EXCEPT !.pass = "ended", !.result = result, !.cancelled = FALSE]
                                    ELSE [scan[j] EXCEPT !.pass = "failed"]]
  /\ UNCHANGED <<cur, export, page, jobs>>

\* The store cannot be opened.
FailPass(j) ==
  /\ scan[j].pass = "opening"
  /\ scan' = [scan EXCEPT ![j].pass = "failed"]
  /\ UNCHANGED <<cur, export, page, jobs>>

\* The page takes the answer for the file it has now.
AnswerInspect(j) ==
  /\ scan[j].pass \in {"ended", "failed"}
  /\ scan' = [scan EXCEPT ![j] = IF @.pass = "failed" THEN [NoJob EXCEPT !.file = scan[j].file, !.pass = "answered"]
                               ELSE [@ EXCEPT !.pass = "answered"]]
  /\ page' = IF scan[j].pass = "failed" THEN [page EXCEPT !.state = "failed", !.can = TRUE]
             ELSE [page EXCEPT !.shows = j, !.can = TRUE,
                               !.state = IF scan[j].result = "cancelled" THEN "cancelled" ELSE "awaiting_review"]
  /\ UNCHANGED <<cur, export, jobs>>

(* ---- review ---- *)

\* The job that answers: the current one, once its pass has ended (requireJob).
Ready == cur # 0 /\ scan[cur].result # "none"

Matching(j, filter) ==
  {i \in DOMAIN scan[j].dec : /\ filter.index # 0 => i = filter.index
                              /\ filter.decision # "all" => scan[j].dec[i] = filter.decision}

\* Corrections that are still to be decided; nothing else is ever decided.
Decidable(j, filter) ==
  {i \in Matching(j, filter) : scan[j].store[i].kind = "corrected" /\ scan[j].dec[i] \in Undecided}

SetDecisions(j, ids, d) == [i \in DOMAIN scan[j].dec |-> IF i \in ids THEN d ELSE scan[j].dec[i]]

Approved(dec, store) == {i \in DOMAIN dec : dec[i] = "approved" /\ store[i].kind = "corrected"}

\* An export that runs sees the decisions as they change.
Witnessed(j, dec) ==
  LET now == Approved(dec, scan[j].store)
  IN  [export EXCEPT ![j].ever = IF export[j].phase = "splice" THEN @ \cup now ELSE @,
                     ![j].always = IF export[j].phase = "splice" THEN @ \cap now ELSE @]

\* The count the reviewer saw must be the count found.  That the decisions are also saved to
\* a file nobody reads again, and the list of approvals on the page, are left out.
DecideRows(filter, expected, d) ==
  /\ page.shows # 0 /\ Ready
  /\ filter.index = 0 => page.state = "awaiting_review"
  /\ LET ids == Decidable(cur, filter)
         dec == SetDecisions(cur, ids, d)
     IN  /\ Cardinality(ids) = expected /\ ids # {}
         /\ scan' = [scan EXCEPT ![cur].dec = dec]
         /\ export' = Witnessed(cur, dec)
  /\ UNCHANGED <<cur, page, jobs>>

Undo(filter) ==
  /\ page.shows # 0 /\ Ready
  /\ filter.index = 0 => page.state = "awaiting_review"
  /\ LET ids == {i \in Matching(cur, filter) : scan[cur].dec[i] # "proposed"}
         dec == SetDecisions(cur, ids, "proposed")
     IN  /\ ids # {}
         /\ scan' = [scan EXCEPT ![cur].dec = dec]
         /\ export' = Witnessed(cur, dec)
  /\ UNCHANGED <<cur, page, jobs>>

(* ---- export (exportCorrected, writeExceptions, writeLedger) ---- *)

\* The next approved correction after record i, 0 for none (approvedEdits).
NextEdit(j, i) ==
  LET rest == {k \in Approved(scan[j].dec, scan[j].store) : k > i}
  IN  IF rest = {} THEN 0 ELSE CHOOSE k \in rest : \A l \in rest : k <= l

BuildExport ==
  /\ page.shows # 0 /\ page.state \in {"awaiting_review", "completed"}
  /\ IF Ready
     THEN /\ export[cur].phase \in {"none", "answered"}
          /\ page' = [page EXCEPT !.state = "exporting", !.offered = FALSE]
          /\ scan' = [scan EXCEPT ![cur].cancelled = FALSE]
          /\ LET now == Approved(scan[cur].dec, scan[cur].store)
             IN  export' = [export EXCEPT ![cur] = [NoExport EXCEPT !.phase = "splice", !.edit = NextEdit(cur, 0),
                                                                    !.ever = now, !.always = now]]
     ELSE /\ page' = [page EXCEPT !.state = "failed"]
          /\ UNCHANGED <<scan, export>>
  /\ UNCHANGED <<cur, jobs>>

Splicing(j) == export[j].phase = "splice"
Starts(j)   == RecordsOf(j)[export[j].edit].at - 1 - (export[j].pos - Len(export[j].chunk))
Raw(j, r)   == SubSeq(Chars[scan[j].file], r.at, r.at + r.len - 1)

\* A chunk of any length is read and put behind what the last one left over.
NextChunk(j, k) ==
  /\ Splicing(j) /\ export[j].chunk = Null
  /\ export[j].pos + k <= Len(Chars[scan[j].file])
  /\ export' = IF scan[j].cancelled THEN [export EXCEPT ![j].phase = "cancelled"]
               ELSE [export EXCEPT ![j].chunk = export[j].carry \o
                                      SubSeq(Chars[scan[j].file], export[j].pos + 1, export[j].pos + k),
                                   ![j].carry = <<>>, ![j].cursor = 0, ![j].pos = @ + k]
  /\ UNCHANGED <<scan, cur, page, jobs>>

InChunk(j)   == export[j].edit # 0 /\ Starts(j) < Len(export[j].chunk)
WholeIn(j)   == Starts(j) + RecordsOf(j)[export[j].edit].len <= Len(export[j].chunk)
Overlaps(j)  == Starts(j) < export[j].cursor
Due(j)       == InChunk(j) /\ (Overlaps(j) \/ WholeIn(j))

\* An edit whose old text is all here is spliced in, and the next one looked up; one that
\* begins before the end of the last is an error, whether all of it is here or not.
Splice(j) ==
  /\ Splicing(j) /\ export[j].chunk # Null /\ Due(j)
  /\ LET r == RecordsOf(j)[export[j].edit]
         s == Starts(j)
         e == export[j]
     IN  export' = [export EXCEPT ![j] =
                      IF Overlaps(j) \/ SubSeq(e.chunk, s + 1, s + r.len) # Raw(j, r)
                      THEN [e EXCEPT !.phase = "failed"]
                      ELSE [e EXCEPT !.out = @ \o SubSeq(e.chunk, e.cursor + 1, s) \o r.cand,
                                     !.cursor = s + r.len, !.applied = @ \cup {e.edit},
                                     !.edit = NextEdit(j, e.edit)]]
  /\ UNCHANGED <<scan, cur, page, jobs>>

\* The rest of the chunk is written, but for the beginning of an edit that is cut.
EndChunkFromStart(j) ==
  /\ Splicing(j) /\ export[j].chunk # Null /\ ~Due(j)
  /\ LET e    == export[j]
         keep == IF InChunk(j) THEN Starts(j) ELSE Len(e.chunk)
     IN  export' = [export EXCEPT ![j] =
                      [e EXCEPT !.out = @ \o SubSeq(e.chunk, 1, keep),
                                !.carry = SubSeq(e.chunk, keep + 1, Len(e.chunk)), !.chunk = Null]]
  /\ UNCHANGED <<scan, cur, page, jobs>>

EndChunk(j) ==
  /\ Splicing(j) /\ export[j].chunk # Null /\ ~Due(j)
  /\ LET e    == export[j]
         keep == IF InChunk(j) THEN Starts(j) ELSE Len(e.chunk)
     IN  export' = [export EXCEPT ![j] =
                      [e EXCEPT !.out = @ \o SubSeq(e.chunk, e.cursor + 1, keep),
                                !.carry = SubSeq(e.chunk, keep + 1, Len(e.chunk)), !.chunk = Null]]
  /\ UNCHANGED <<scan, cur, page, jobs>>

EndText(j) ==
  /\ Splicing(j) /\ export[j].chunk = Null /\ export[j].pos = Len(Chars[scan[j].file])
  /\ export' = [export EXCEPT ![j].out = @ \o export[j].carry, ![j].carry = <<>>,
                              ![j].phase = IF export[j].edit = 0 THEN "exceptions" ELSE "failed"]
  /\ UNCHANGED <<scan, cur, page, jobs>>

\* The corrected file is closed; the reports are written from the decisions as they are then,
\* which may differ from those of the corrected file: what they list is left out.
WriteExceptions(j) ==
  /\ export[j].phase = "exceptions"
  /\ export' = [export EXCEPT ![j] = [NoExport EXCEPT !.phase = "ledger"]]
  /\ UNCHANGED <<scan, cur, page, jobs>>

WriteLedger(j) ==
  /\ export[j].phase = "ledger"
  /\ export' = [export EXCEPT ![j] = [NoExport EXCEPT !.phase = "done"]]
  /\ UNCHANGED <<scan, cur, page, jobs>>

\* The page offers the files under the name of the file it has now.
AnswerExport(j) ==
  /\ export[j].phase \in {"done", "failed", "cancelled"}
  /\ export' = [export EXCEPT ![j] = [NoExport EXCEPT !.phase = "answered"]]
  /\ page' = CASE export[j].phase = "failed"    -> [page EXCEPT !.state = "failed"]
               [] export[j].phase = "cancelled" -> [page EXCEPT !.state = "awaiting_review"]
               [] page.file = Null \/ page.shows = 0 -> page
               [] OTHER -> [page EXCEPT !.state = "completed", !.offered = TRUE]
  /\ UNCHANGED <<scan, cur, jobs>>

(* ---- the page ---- *)

\* The page takes another file; the worker is not told.
ChooseFile(f) ==
  /\ page.file # f /\ page.chosen < MaxFiles
  /\ page' = [Cleared EXCEPT !.file = f, !.chosen = page.chosen + 1]
  /\ UNCHANGED <<scan, cur, export, jobs>>

Cancel ==
  /\ page.file # Null /\ cur # 0
  /\ scan[cur].pass = "reading" \/ Splicing(cur)
  /\ scan' = [scan EXCEPT ![cur].cancelled = TRUE]
  /\ UNCHANGED <<cur, export, page, jobs>>

Discard ==
  /\ page.file # Null /\ page.chosen < MaxFiles
  /\ scan' = ClosedJobs /\ CloseExport /\ cur' = 0
  /\ page' = [Cleared EXCEPT !.can = page.can, !.chosen = page.chosen + 1]
  /\ UNCHANGED jobs

Filters == [index : {0}, decision : {"all"} \cup Decisions]
Row(i)  == [index |-> i, decision |-> "all"]

Review ==
  \/ \E d \in Verdicts :
       \/ \E i \in 1..4 : DecideRows(Row(i), 1, d)
       \/ \E f \in Filters : \E n \in 1..4 : DecideRows(f, n, d)
  \/ \E i \in 1..4 : Undo(Row(i))
  \/ \E f \in Filters : Undo(f)

Pass(j) ==
  BeginInspect(j) \/ OpenStore(j) \/ ReadItem(j) \/ Restart(j) \/ EndPass(j) \/ FailPass(j) \/ AnswerInspect(j)

Export(j) ==
  \/ \E k \in 1..Len(Chars[scan[j].file]) : NextChunk(j, k)
  \/ Splice(j) \/ EndChunk(j) \/ EndText(j)
  \/ WriteExceptions(j) \/ WriteLedger(j) \/ AnswerExport(j)

LargeNext ==
  \/ \E f \in File : ChooseFile(f)
  \/ InspectLarge \/ Cancel \/ Discard \/ Review \/ BuildExport
  \/ \E j \in 1..jobs : Pass(j) \/ Export(j)

LargeSpec == LargeInit /\ [][LargeNext]_largeVars

(* ---- properties ---- *)

\* The store of the current job, once its pass has ended, holds the records of its file, each
\* once and in order: all of them, or the first ones if the pass was cancelled; whether or not
\* the file had to be read again in another encoding, was cancelled, closed or replaced
\* (runStream).  No decision is without its record.
StoreIsWhole ==
  /\ LargeTypeOK
  /\ cur # 0 /\ scan[cur].result # "none" =>
       /\ IsPrefix(scan[cur].store, RecordsOf(cur))
       /\ scan[cur].result = "done" => scan[cur].store = RecordsOf(cur)

\* What becomes of a character of a file when some of its records are corrected.
Covering(f, ids, p) == {i \in ids : Items[f][i].at <= p /\ p < Items[f][i].at + Items[f][i].len}

Becomes(f, ids, p) ==
  IF Covering(f, ids, p) = {} THEN <<Chars[f][p]>>
  ELSE LET r == Items[f][CHOOSE i \in Covering(f, ids, p) : TRUE] IN IF r.at = p THEN r.cand ELSE <<>>

\* The beginnings of a file, and the whole of it, with the corrections in their places.
Rewritten(f, ids) ==
  LET upTo[p \in 0..Len(Chars[f])] == IF p = 0 THEN <<>> ELSE upTo[p - 1] \o Becomes(f, ids, p)
  IN  upTo

Corrected(f, ids) == Rewritten(f, ids)[Len(Chars[f])]

\* However the text is cut into chunks and whatever is decided meanwhile, the corrected file
\* is the source with exactly the recorded corrections: every one that was approved throughout
\* the splice, and none that was not approved at some moment of it (exportCorrected).
ExportIsSplice ==
  \A j \in Job : export[j].phase = "exceptions" =>
    /\ export[j].out = Corrected(scan[j].file, export[j].applied)
    /\ export[j].always \subseteq export[j].applied /\ export[j].applied \subseteq export[j].ever

(* ---- why: an invariant that every step keeps, if the files are files ---- *)

Pieces == UNION {{Items[f][i] : i \in DOMAIN Items[f]} : f \in File}

Letters ==
  UNION {{Chars[f][p] : p \in DOMAIN Chars[f]} : f \in File}
  \cup UNION {{r.cand[p] : p \in DOMAIN r.cand} : r \in {q \in Pieces : q.kind = "corrected"}}

LargeFiles ==
  /\ MaxJobs \in Nat /\ Null \notin File
  /\ Items \in [File -> Seq(Pieces)]
  /\ Verdicts \subseteq Decisions
  /\ Chars \in [File -> Seq(Letters)]
  /\ \A r \in Pieces : r.kind = "corrected" => r.at \in Nat \ {0} /\ r.len \in Nat \ {0} /\ r.cand \in Seq(Letters)
  /\ \A f \in File : \A m, n \in 0..Len(Chars[f]) : SubSeq(Chars[f], m + 1, n) # Null

JobRow ==
  [file : File \cup {Null}, store : Seq(Pieces), dec : Seq(Decisions), buffer : Seq(Pieces), at : Nat \ {0},
   codec : {"utf-8", "latin-1"}, result : {"none", "done", "cancelled"}, cancelled : BOOLEAN, pass : Passes]

PageRow == [file : File \cup {Null}, state : PageStates, shows : 0..MaxJobs, offered : BOOLEAN,
            can : BOOLEAN, chosen : Nat]

StoreTyped ==
  /\ LargeTypeOK
  /\ scan \in [Job -> JobRow] /\ page \in PageRow
  /\ DOMAIN export = Job /\ \A j \in Job : "phase" \in DOMAIN export[j]

\* A job that has not been opened has read nothing.
Unread(r) ==
  r.pass \in {"none", "asked", "opening"} =>
    r.store = <<>> /\ r.buffer = <<>> /\ r.at = 1 /\ r.result = "none"

NotYetRead == \A j \in Job : Unread(scan[j])

\* Store and buffer of the current job are what was read of its file so far.
ReadSoFar(r) ==
  /\ r.pass \in {"reading", "ended", "answered"}
  /\ r.at - 1 <= Len(Items[r.file])
  /\ r.store \o r.buffer = SubSeq(Items[r.file], 1, r.at - 1)
  /\ r.pass = "reading" <=> r.result = "none"
  /\ r.result # "none" => r.buffer = <<>>
  /\ r.result = "done" => r.at = Len(Items[r.file]) + 1

CurrentIsRead == cur # 0 => cur <= jobs /\ ReadSoFar(scan[cur])

StoreInv == StoreTyped /\ NotYetRead /\ CurrentIsRead

(* ---- and one for the export ---- *)

ExportRow ==
  [phase : {"none", "splice", "exceptions", "ledger", "done", "failed", "cancelled", "answered"},
   pos : Nat, carry : Seq(Letters), chunk : {Null} \cup Seq(Letters), cursor : Nat, edit : Nat, out : Seq(Letters),
   applied : SUBSET Nat, ever : SUBSET Nat, always : SUBSET Nat]

\* How many characters of the file are behind what was written.
Written(e) == IF e.chunk = Null THEN e.pos - Len(e.carry) ELSE e.pos - Len(e.chunk) + e.cursor

\* What is in hand are the characters before the place where the file is read.
InHand(f, e) ==
  /\ e.pos <= Len(Chars[f])
  /\ IF e.chunk = Null
     THEN Len(e.carry) <= e.pos /\ e.carry = SubSeq(Chars[f], e.pos - Len(e.carry) + 1, e.pos)
     ELSE /\ Len(e.chunk) <= e.pos /\ e.chunk = SubSeq(Chars[f], e.pos - Len(e.chunk) + 1, e.pos)
          /\ e.carry = <<>> /\ e.cursor <= Len(e.chunk)

\* What was written is a beginning of the file with the applied corrections, which end there.
SplicedSoFar(f, e) ==
  /\ e.out = Rewritten(f, e.applied)[Written(e)]
  /\ \A i \in e.applied : Items[f][i].at + Items[f][i].len - 1 <= Written(e)

Corrections(f) == {i \in DOMAIN Items[f] : Items[f][i].kind = "corrected"}

\* The corrections approved all the time were applied or are still to come.
Chosen(r, e) ==
  /\ e.ever \subseteq Corrections(r.file) /\ e.applied \subseteq e.ever
  /\ e.edit # 0 => e.edit \in e.ever
  /\ e.always \subseteq Approved(r.dec, r.store) /\ Approved(r.dec, r.store) \subseteq e.ever
  /\ \A i \in e.always : i \in e.applied \/ (e.edit # 0 /\ e.edit <= i)

ExportIsSound(r, e) ==
  /\ e.phase = "splice" =>
       /\ ReadSoFar(r) /\ r.result # "none"
       /\ InHand(r.file, e) /\ SplicedSoFar(r.file, e) /\ Chosen(r, e)
  /\ e.phase = "exceptions" =>
       e.out = Corrected(r.file, e.applied) /\ e.always \subseteq e.applied /\ e.applied \subseteq e.ever

SpliceInv ==
  /\ export \in [Job -> ExportRow]
  /\ \A j \in Job : /\ export[j].phase \in {"splice", "exceptions"} => j <= jobs
                    /\ ExportIsSound(scan[j], export[j])
=============================================================================
