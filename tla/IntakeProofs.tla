---------------------------- MODULE IntakeProofs ----------------------------
(***************************************************************************)
(* What comes in from outside is kept whole: the files of resumable        *)
(* uploads and the sources of jobs (Storage), the drop folder of the       *)
(* headless worker (WatchFolder), and the folders and answers of partners  *)
(* (Inbox).                                                                *)
(***************************************************************************)
EXTENDS Inbox, Storage, WatchFolder, FiniteSetTheorems, SequenceTheorems, WellFoundedInduction, TLAPS

-----------------------------------------------------------------------------
(* Uploads and the source store.                                           *)

Standing == {"idle", "write", "count", "hash", "register", "submit"}

\* What is remembered of a client that goes back to rest.
LEMMA ForgottenOK == Forgotten \in Memory
BY StorageAssumption DEF Forgotten, Memory

\* A client goes on with a memory of the right type, or forgets; the others stay.
LEMMA MoveOnOK ==
  ASSUME StorageTyped, NEW c \in Asker, NEW p \in Standing, NEW l \in Memory, MoveOn(c, p, l)
  PROVE  /\ askPc' \in [Asker -> Standing] /\ askLoc' \in [Asker -> Memory]
         /\ askPc'[c] = p /\ (p # "idle" => askLoc'[c] = l)
         /\ \A d \in Asker : d # c => askPc'[d] = askPc[d] /\ askLoc'[d] = askLoc[d]
BY ForgottenOK DEF MoveOn, StorageTyped, StorageTypeOK, Standing

\* What a client remembers when it begins to append.
LEMMA ReadsOK ==
  ASSUME StorageTyped, NEW c \in Asker, ReadUpload(c)
  PROVE  \E u \in Upload, n \in Nat :
           /\ n \in 1 .. Size - upload[u].received /\ upload[u].state = "open"
           /\ [Forgotten EXCEPT !.upload = u, !.offset = upload[u].received, !.length = n] \in Memory
           /\ MoveOn(c, "write", [Forgotten EXCEPT !.upload = u, !.offset = upload[u].received, !.length = n])
<1>1. PICK u \in Upload : \E n \in 1 .. Size - upload[u].received :
        /\ upload[u].state = "open"
        /\ MoveOn(c, "write", [Forgotten EXCEPT !.upload = u, !.offset = upload[u].received, !.length = n])
  BY DEF ReadUpload
<1>2. PICK n \in 1 .. Size - upload[u].received :
        /\ upload[u].state = "open"
        /\ MoveOn(c, "write", [Forgotten EXCEPT !.upload = u, !.offset = upload[u].received, !.length = n])
  BY <1>1
<1>3. upload[u].received \in 0 .. Size
  BY DEF StorageTyped, StorageTypeOK, UploadRow
<1>4. n \in Nat /\ n \in 0 .. Size
  BY <1>3, StorageAssumption
<1>5. [Forgotten EXCEPT !.upload = u, !.offset = upload[u].received, !.length = n] \in Memory
  BY <1>3, <1>4, StorageAssumption DEF Forgotten, Memory
<1> QED
  BY <1>2, <1>4, <1>5

\* What a client does to its own place and memory, whatever it does besides.
LEMMA AskersStep ==
  ASSUME StorageTyped, NEW c \in Asker, Ask(c)
  PROVE  /\ askPc' \in [Asker -> Standing] /\ askLoc' \in [Asker -> Memory]
         /\ \A d \in Asker : d # c => askPc'[d] = askPc[d] /\ askLoc'[d] = askLoc[d]
<1>m. askLoc[c] \in Memory /\ Forgotten \in Memory /\ \A u \in Upload : [Forgotten EXCEPT !.upload = u] \in Memory
  BY ForgottenOK DEF StorageTyped, Memory, Forgotten
<1>s. \A p \in {"idle", "write", "count", "hash", "register", "submit"} : p \in Standing
  BY DEF Standing
<1>1. CASE CreateUpload(c)
  BY <1>1 DEF CreateUpload, askVars, StorageTyped, StorageTypeOK, Standing
<1>2. CASE ReadUpload(c)
  <2>1. PICK u \in Upload, n \in Nat :
          /\ [Forgotten EXCEPT !.upload = u, !.offset = upload[u].received, !.length = n] \in Memory
          /\ MoveOn(c, "write", [Forgotten EXCEPT !.upload = u, !.offset = upload[u].received, !.length = n])
    BY <1>2, ReadsOK
  <2> QED
    BY <1>s, <2>1, MoveOnOK
<1>3. CASE WritePart(c)
  BY <1>3, <1>m, <1>s, MoveOnOK DEF WritePart
<1>4. CASE CountPart(c)
  BY <1>4, <1>m, <1>s, MoveOnOK DEF CountPart
<1>5. CASE AskComplete(c)
  BY <1>5, <1>m, <1>s, MoveOnOK DEF AskComplete
<1>6. CASE HashPart(c)
  BY <1>6, <1>m, <1>s, MoveOnOK DEF HashPart
<1>7. CASE CompleteUpload(c)
  BY <1>7, <1>m, <1>s, MoveOnOK DEF CompleteUpload
<1>8. CASE LoseUpload(c)
  BY <1>8, <1>m, <1>s, MoveOnOK DEF LoseUpload
<1>9. CASE FindSource(c)
  <2>1. PICK d \in source : MoveOn(c, "submit", [Forgotten EXCEPT !.source = d])
    BY <1>9 DEF FindSource
  <2>2. [Forgotten EXCEPT !.source = d] \in Memory
    BY StorageAssumption DEF Forgotten, Memory, StorageTyped, StorageTypeOK
  <2> QED
    BY <1>s, <2>1, <2>2, MoveOnOK
<1>10. CASE SubmitJob(c)
  BY <1>10, <1>m, <1>s, MoveOnOK DEF SubmitJob
<1>11. CASE BreakOff(c)
  BY <1>11, <1>m, <1>s, MoveOnOK DEF BreakOff
<1> QED
  BY <1>1, <1>2, <1>3, <1>4, <1>5, <1>6, <1>7, <1>8, <1>9, <1>10, <1>11 DEF Ask

\* Registering moves a part away; the store may gain its digest.
LEMMA MoveDoes ==
  ASSUME StorageTyped, NEW u \in Upload, MovePart(u)
  PROVE  /\ part[u] # Gone /\ part' = [part EXCEPT ![u] = Gone]
         /\ part' \in [Upload -> {Gone} \cup SUBSET Unit]
         /\ Digest(u) \in WholeFile \cup {Torn}
         /\ store' \subseteq store \cup {Digest(u)}
         /\ part[u] = Unit => Digest(u) \in WholeFile
BY StorageAssumption DEF MovePart, Digest, StorageTyped, StorageTypeOK

\* The uploads that clients remember are uploads once they have one in hand.
LEMMA InHand ==
  ASSUME HandsAreRight, NEW c \in Asker, askPc[c] \in {"write", "count", "hash", "register"}
  PROVE  askLoc[c].upload \in Upload
BY DEF HandsAreRight

\* The steps of a client keep the types.
LEMMA AskTypes ==
  ASSUME StorageTyped, HandsAreRight, NEW c \in Asker, Ask(c)
  PROVE  StorageTyped'
<1> SUFFICES /\ upload' \in [Upload -> UploadRow]
             /\ part' \in [Upload -> {Gone} \cup SUBSET Unit]
             /\ store' \subseteq WholeFile \cup {Torn} /\ source' \subseteq WholeFile \cup {Torn}
             /\ job' \in [SourceJob -> SourceJobRow]
             /\ old' = old /\ sweep' = sweep
  BY AskersStep DEF StorageTyped, StorageTypeOK, Standing
<1> USE StorageAssumption DEF StorageTyped, StorageTypeOK
<1>h. askPc[c] \in {"write", "count", "hash", "register"} => askLoc[c].upload \in Upload
  BY InHand
<1>m. askLoc[c] \in Memory
  OBVIOUS
<1>1. CASE CreateUpload(c)
  <2>1. PICK u \in Upload : upload' = [upload EXCEPT ![u].state = "open"] /\ part' = [part EXCEPT ![u] = {}]
    BY <1>1 DEF CreateUpload
  <2> QED
    BY <1>1, <2>1 DEF CreateUpload, UploadRow
<1>2. CASE ReadUpload(c)
  BY <1>2 DEF ReadUpload, rowVars, fileVars
<1>3. CASE WritePart(c)
  <2>1. PICK u \in Upload, n \in 0 .. Size, k \in 0 .. Size :
          /\ part[u] # Gone /\ u = askLoc[c].upload /\ n = askLoc[c].offset /\ k = askLoc[c].length
          /\ part' = [part EXCEPT ![u] = @ \cup (n + 1 .. n + k)]
    BY <1>3, <1>h, <1>m DEF WritePart, Memory
  <2>2. n + k <= Size
    BY <1>3, <2>1 DEF HandsAreRight, WritePart
  <2>3. part[u] \cup (n + 1 .. n + k) \in SUBSET Unit
    BY <2>1, <2>2 DEF Unit
  <2> QED
    BY <1>3, <2>1, <2>3 DEF WritePart, rowVars
<1>4. CASE CountPart(c)
  <2>1. askLoc[c].offset + askLoc[c].length \in 0 .. Size
    BY <1>4, <1>m DEF CountPart, HandsAreRight, Memory
  <2> QED
    BY <1>4, <2>1, <1>h DEF CountPart, fileVars, UploadRow
<1>5. CASE AskComplete(c)
  BY <1>5 DEF AskComplete, rowVars, fileVars
<1>6. CASE HashPart(c)
  BY <1>6 DEF HashPart, rowVars, fileVars
<1>7. CASE CompleteUpload(c)
  <2>1. MovePart(askLoc[c].upload) /\ askLoc[c].upload \in Upload
    BY <1>7, <1>h DEF CompleteUpload
  <2>2. upload' \in [Upload -> UploadRow]
    BY <1>7, <2>1 DEF CompleteUpload, UploadRow
  <2> QED
    BY <1>7, <2>1, <2>2, MoveDoes DEF CompleteUpload
<1>8. CASE LoseUpload(c)
  <2>1. MovePart(askLoc[c].upload) /\ askLoc[c].upload \in Upload
    BY <1>8, <1>h DEF LoseUpload
  <2> QED
    BY <1>8, <2>1, MoveDoes DEF LoseUpload, rowVars
<1>9. CASE FindSource(c)
  BY <1>9 DEF FindSource, rowVars, fileVars
<1>10. CASE SubmitJob(c)
  <2>1. askLoc[c].source \in WholeFile \cup {Torn, Gone}
    BY <1>m DEF Memory
  <2>2. PICK j \in SourceJob :
          job' = [job EXCEPT ![j] = [state |-> "running", source |-> askLoc[c].source, messages |-> FALSE]]
    BY <1>10 DEF SubmitJob
  <2> QED
    BY <1>10, <2>1, <2>2 DEF SubmitJob, fileVars, SourceJobRow
<1>11. CASE BreakOff(c)
  BY <1>11 DEF BreakOff, rowVars, fileVars
<1> QED
  BY <1>1, <1>2, <1>3, <1>4, <1>5, <1>6, <1>7, <1>8, <1>9, <1>10, <1>11 DEF Ask

\* The steps of jobs, of time and of the purge.
Upkeep ==
  (\E j \in SourceJob : JobGoesOn(j)) \/ Age \/ Select \/ RemoveFile \/ AbandonUpload \/ DeleteJob
  \/ DeleteSource \/ PurgeDies

\* They keep the types, and leave the clients alone.
LEMMA UpkeepTypes ==
  ASSUME StorageTyped, SweepIsRight, Upkeep
  PROVE  StorageTyped' /\ UNCHANGED askVars
<1> USE StorageAssumption DEF StorageTyped, StorageTypeOK, askVars
<1>1. ASSUME NEW j \in SourceJob, JobGoesOn(j) PROVE StorageTyped' /\ UNCHANGED askVars
  BY <1>1 DEF JobGoesOn, SourceJobRow, fileVars
<1>2. CASE Age
  BY <1>2 DEF Age, rowVars, fileVars
<1>3. CASE Select
  <2>1. sweep' \in [step : SweepSteps, rows : SUBSET (Upload \cup SourceJob \cup WholeFile \cup {Torn}),
                    removed : Upload \cup WholeFile \cup {Torn, Gone}]
    <3>1. CASE sweep.step = "idle"
      BY <1>3, <3>1 DEF Select, Sweep, SweepSteps
    <3>2. CASE sweep.step = "uploads"
      BY <1>3, <3>2 DEF Select, Sweep, SweepSteps
    <3>3. CASE sweep.step = "jobs"
      BY <1>3, <3>3 DEF Select, Sweep, SweepSteps
    <3>4. CASE sweep.step = "sources"
      BY <1>3, <3>4 DEF Select, SweepSteps, Resting
    <3> QED
      BY <3>1, <3>2, <3>3, <3>4 DEF SweepSteps
  <2> QED
    BY <1>3, <2>1 DEF Select, rowVars, fileVars
<1>4. CASE RemoveFile
  <2>1. PICK x \in sweep.rows :
          /\ sweep' = [sweep EXCEPT !.removed = x]
          /\ IF sweep.step = "uploads" THEN part' = [part EXCEPT ![x] = Gone] /\ UNCHANGED store
             ELSE store' = store \ {x} /\ UNCHANGED part
    BY <1>4 DEF RemoveFile
  <2>2. x \in Upload \cup WholeFile
    BY <1>4 DEF RemoveFile, SweepIsRight
  <2>3. sweep' \in [step : SweepSteps, rows : SUBSET (Upload \cup SourceJob \cup WholeFile \cup {Torn}),
                    removed : Upload \cup WholeFile \cup {Torn, Gone}]
    BY <2>1, <2>2
  <2>4. part' \in [Upload -> {Gone} \cup SUBSET Unit] /\ store' \subseteq WholeFile \cup {Torn}
    BY <2>1
  <2> QED
    BY <1>4, <2>3, <2>4 DEF RemoveFile, rowVars
<1>5. CASE AbandonUpload
  <2>1. sweep.removed \in Upload
    BY <1>5 DEF AbandonUpload, SweepIsRight
  <2>2. upload' \in [Upload -> UploadRow]
    BY <1>5, <2>1 DEF AbandonUpload, UploadRow
  <2> QED
    BY <1>5, <2>2 DEF AbandonUpload, Swept, fileVars
<1>6. CASE DeleteJob
  <2>1. PICK j \in sweep.rows :
          job' = [job EXCEPT ![j] = NoJob] /\ old' = old \ {j} /\ Swept(j)
    BY <1>6 DEF DeleteJob
  <2>2. j \in SourceJob
    BY <1>6, <2>1 DEF DeleteJob, SweepIsRight
  <2>3. job' \in [SourceJob -> SourceJobRow]
    BY <2>1, <2>2 DEF NoJob, SourceJobRow
  <2> QED
    BY <1>6, <2>1, <2>3 DEF DeleteJob, Swept, fileVars
<1>7. CASE DeleteSource
  BY <1>7 DEF DeleteSource, Swept, fileVars
<1>8. CASE PurgeDies
  BY <1>8 DEF PurgeDies, Resting, SweepSteps, rowVars, fileVars
<1> QED
  BY <1>1, <1>2, <1>3, <1>4, <1>5, <1>6, <1>7, <1>8 DEF Upkeep

\* The first state.
LEMMA StorageStarts == StorageInit => StorageInv
<1> SUFFICES ASSUME StorageInit PROVE StorageInv
  OBVIOUS
<1>1. StorageTypeOK
  BY StorageAssumption DEF StorageInit, StorageTypeOK, UploadRow, SourceJobRow, NoJob, Resting, SweepSteps
<1>2. StorageTyped
  BY <1>1, ForgottenOK DEF StorageInit, StorageTyped, Resting, SweepSteps
<1>3. PartsAreCounted /\ HandsAreRight /\ SweepIsRight
  BY <1>1 DEF StorageInit, PartsAreCounted, HandsAreRight, SweepIsRight, Resting
<1>4. StorageSound
  BY <1>1 DEF StorageInit, StorageSound, NoJob
<1> QED
  BY <1>2, <1>3, <1>4 DEF StorageInv

\* An upload that has begun stays begun, and its file only grows or goes away.
Grows ==
  \A u \in Upload : upload[u].state # "none" =>
    /\ upload'[u].state # "none"
    /\ part'[u] # Gone => part[u] # Gone /\ part[u] \subseteq part'[u]

\* No step of a client takes anything back from an upload.
LEMMA AskGrows ==
  ASSUME StorageTyped, HandsAreRight, NEW c \in Asker, Ask(c)
  PROVE  Grows
<1> USE DEF Grows
<1>t. upload \in [Upload -> UploadRow] /\ part \in [Upload -> {Gone} \cup SUBSET Unit]
  BY DEF StorageTyped, StorageTypeOK
<1>h. askPc[c] \in {"write", "count", "hash", "register"} => askLoc[c].upload \in Upload
  BY InHand
<1>1. CASE CreateUpload(c)
  BY <1>1, <1>t DEF CreateUpload
<1>2. CASE ReadUpload(c)
  BY <1>2 DEF ReadUpload, rowVars, fileVars
<1>3. CASE WritePart(c)
  BY <1>3, <1>t, <1>h DEF WritePart, rowVars
<1>4. CASE CountPart(c)
  BY <1>4, <1>t, <1>h DEF CountPart, fileVars, UploadRow
<1>5. CASE AskComplete(c)
  BY <1>5 DEF AskComplete, rowVars, fileVars
<1>6. CASE HashPart(c)
  BY <1>6 DEF HashPart, rowVars, fileVars
<1>7. CASE CompleteUpload(c)
  BY <1>7, <1>t, <1>h DEF CompleteUpload, MovePart, UploadRow
<1>8. CASE LoseUpload(c)
  BY <1>8, <1>t, <1>h DEF LoseUpload, MovePart, rowVars
<1>9. CASE FindSource(c)
  BY <1>9 DEF FindSource, rowVars, fileVars
<1>10. CASE SubmitJob(c)
  BY <1>10 DEF SubmitJob, fileVars
<1>11. CASE BreakOff(c)
  BY <1>11 DEF BreakOff, rowVars, fileVars
<1> QED
  BY <1>1, <1>2, <1>3, <1>4, <1>5, <1>6, <1>7, <1>8, <1>9, <1>10, <1>11 DEF Ask

\* Neither does a step of the upkeep, other than by removing the file.
LEMMA UpkeepGrows ==
  ASSUME StorageTyped, SweepIsRight, Upkeep
  PROVE  Grows
<1> USE DEF Grows
<1>t. upload \in [Upload -> UploadRow] /\ part \in [Upload -> {Gone} \cup SUBSET Unit]
  BY DEF StorageTyped, StorageTypeOK
<1>4. CASE RemoveFile
  BY <1>4, <1>t DEF RemoveFile, rowVars
<1>5. CASE AbandonUpload
  BY <1>5, <1>t DEF AbandonUpload, fileVars, UploadRow
<1>6. CASE ~RemoveFile /\ ~AbandonUpload
  BY <1>6 DEF Upkeep, JobGoesOn, Age, Select, DeleteJob, DeleteSource, PurgeDies, rowVars, fileVars
<1> QED
  BY <1>4, <1>5, <1>6

\* What a client has in hand stays as it was while others act.
LEMMA HandsStay ==
  ASSUME StorageTyped, StorageTyped', HandsAreRight, Grows,
         NEW d \in Asker, askPc'[d] = askPc[d], askLoc'[d] = askLoc[d],
         askPc[d] \in {"write", "count", "hash", "register"}
  PROVE  LET u == askLoc'[d].upload IN
           /\ u \in Upload /\ upload'[u].state # "none"
           /\ askLoc'[d].offset + askLoc'[d].length <= Size
           /\ part'[u] # Gone =>
                /\ askPc'[d] \in {"write", "count"} => 1 .. askLoc'[d].offset \subseteq part'[u]
                /\ askPc'[d] = "count" =>
                     askLoc'[d].offset + 1 .. askLoc'[d].offset + askLoc'[d].length \subseteq part'[u]
                /\ askPc'[d] \in {"hash", "register"} => part'[u] = Unit
<1> DEFINE u == askLoc[d].upload
<1>1. /\ u \in Upload /\ upload[u].state # "none"
      /\ askLoc[d].offset + askLoc[d].length <= Size
      /\ part[u] # Gone =>
           /\ askPc[d] \in {"write", "count"} => 1 .. askLoc[d].offset \subseteq part[u]
           /\ askPc[d] = "count" =>
                askLoc[d].offset + 1 .. askLoc[d].offset + askLoc[d].length \subseteq part[u]
           /\ askPc[d] \in {"hash", "register"} => part[u] = Unit
  BY DEF HandsAreRight
<1>2. /\ upload'[u].state # "none"
      /\ part'[u] # Gone => part[u] # Gone /\ part[u] \subseteq part'[u] /\ part'[u] \subseteq Unit
  BY <1>1 DEF Grows, StorageTyped, StorageTypeOK
<1>3. part'[u] # Gone => /\ askPc[d] \in {"hash", "register"} => part'[u] = Unit
                         /\ part[u] # Gone /\ part[u] \subseteq part'[u]
  BY <1>1, <1>2
<1>4. part'[u] # Gone =>
        /\ askPc[d] \in {"write", "count"} => 1 .. askLoc[d].offset \subseteq part'[u]
        /\ askPc[d] = "count" =>
             askLoc[d].offset + 1 .. askLoc[d].offset + askLoc[d].length \subseteq part'[u]
  BY <1>1, <1>3, Zenon
<1> QED
  BY <1>1, <1>2, <1>3, <1>4, Zenon

\* A client's step leaves the files counted.
LEMMA AskCounted ==
  ASSUME StorageTyped, PartsAreCounted, HandsAreRight, NEW c \in Asker, Ask(c)
  PROVE  PartsAreCounted'
<1> USE DEF PartsAreCounted
<1>t. upload \in [Upload -> UploadRow] /\ part \in [Upload -> {Gone} \cup SUBSET Unit]
  BY DEF StorageTyped, StorageTypeOK
<1>h. askPc[c] \in {"write", "count", "hash", "register"} => askLoc[c].upload \in Upload
  BY InHand
<1>1. CASE CreateUpload(c)
  <2>1. PICK u \in Upload : /\ upload[u].state = "none"
                            /\ upload' = [upload EXCEPT ![u].state = "open"] /\ part' = [part EXCEPT ![u] = {}]
    BY <1>1 DEF CreateUpload
  <2> QED
    BY <2>1, <1>t DEF UploadRow
<1>3. CASE WritePart(c)
  BY <1>3, <1>t, <1>h DEF WritePart, rowVars
<1>4. CASE CountPart(c)
  <2> DEFINE u == askLoc[c].upload
             n == askLoc[c].offset
             k == askLoc[c].length
  <2>1. u \in Upload /\ n \in Nat /\ k \in Nat
    BY <1>4, <1>h, StorageAssumption DEF CountPart, StorageTyped, Memory
  <2>2. /\ upload[u].state # "none"
        /\ part[u] # Gone => 1 .. n \subseteq part[u] /\ n + 1 .. n + k \subseteq part[u]
    BY <1>4 DEF CountPart, HandsAreRight
  <2>3. part[u] # Gone => 1 .. n + k \subseteq part[u]
    BY <2>1, <2>2
  <2>4. upload' = [upload EXCEPT ![u].received = n + k] /\ part' = part
    BY <1>4 DEF CountPart, fileVars
  <2> QED
    BY <2>1, <2>2, <2>3, <2>4, <1>t DEF UploadRow
<1>7. CASE CompleteUpload(c)
  BY <1>7, <1>t, <1>h DEF CompleteUpload, MovePart, UploadRow
<1>8. CASE LoseUpload(c)
  BY <1>8, <1>t, <1>h DEF LoseUpload, MovePart, rowVars
<1>9. CASE ReadUpload(c) \/ AskComplete(c) \/ HashPart(c) \/ FindSource(c) \/ SubmitJob(c) \/ BreakOff(c)
  BY <1>9 DEF ReadUpload, AskComplete, HashPart, FindSource, SubmitJob, BreakOff, rowVars, fileVars
<1> QED
  BY <1>1, <1>3, <1>4, <1>7, <1>8, <1>9 DEF Ask

\* A client's step leaves what it has in hand right.
LEMMA AskHands ==
  ASSUME StorageTyped, StorageTyped', PartsAreCounted, HandsAreRight, NEW c \in Asker, Ask(c)
  PROVE  HandsAreRight'
<1>g. Grows
  BY AskGrows
<1>o. \A d \in Asker : d # c => askPc'[d] = askPc[d] /\ askLoc'[d] = askLoc[d]
  BY AskersStep
<1> SUFFICES ASSUME askPc'[c] \in {"write", "count", "hash", "register"}
             PROVE  LET u == askLoc'[c].upload IN
                      /\ u \in Upload /\ upload'[u].state # "none"
                      /\ askLoc'[c].offset + askLoc'[c].length <= Size
                      /\ part'[u] # Gone =>
                           /\ askPc'[c] \in {"write", "count"} => 1 .. askLoc'[c].offset \subseteq part'[u]
                           /\ askPc'[c] = "count" =>
                                askLoc'[c].offset + 1 .. askLoc'[c].offset + askLoc'[c].length \subseteq part'[u]
                           /\ askPc'[c] \in {"hash", "register"} => part'[u] = Unit
  BY <1>g, <1>o, HandsStay DEF HandsAreRight
<1>t. /\ upload \in [Upload -> UploadRow] /\ part \in [Upload -> {Gone} \cup SUBSET Unit]
      /\ part' \in [Upload -> {Gone} \cup SUBSET Unit]
      /\ askPc \in [Asker -> Standing] /\ askLoc \in [Asker -> Memory]
  BY DEF StorageTyped, StorageTypeOK, Standing
<1>i. \A l : MoveOn(c, "idle", l) => askPc'[c] = "idle"
  BY <1>t DEF MoveOn
<1>k. \A p, l : MoveOn(c, p, l) /\ p # "idle" => askPc'[c] = p /\ askLoc'[c] = l
  BY <1>t DEF MoveOn
<1>1. CASE CreateUpload(c)
  BY <1>1 DEF CreateUpload, askVars
<1>2. CASE ReadUpload(c)
  <2>1. PICK u \in Upload, n \in Nat :
          /\ n \in 1 .. Size - upload[u].received /\ upload[u].state = "open"
          /\ MoveOn(c, "write", [Forgotten EXCEPT !.upload = u, !.offset = upload[u].received, !.length = n])
    BY <1>2, ReadsOK
  <2>2. /\ askPc'[c] = "write" /\ askLoc'[c].upload = u
        /\ askLoc'[c].offset = upload[u].received /\ askLoc'[c].length = n
    BY <2>1, <1>k DEF Forgotten
  <2>3. upload' = upload /\ part' = part
    BY <1>2 DEF ReadUpload, rowVars, fileVars
  <2>4. upload[u].received \in Nat /\ upload[u].received + n <= Size
    BY <2>1, <1>t, StorageAssumption DEF UploadRow
  <2>5. part[u] # Gone => 1 .. upload[u].received \subseteq part[u]
    BY DEF PartsAreCounted
  <2> QED
    BY <2>1, <2>2, <2>3, <2>4, <2>5
<1>3. CASE WritePart(c)
  <2> DEFINE u == askLoc[c].upload
             n == askLoc[c].offset
             k == askLoc[c].length
  <2>1. /\ u \in Upload /\ upload[u].state # "none" /\ n + k <= Size
        /\ part[u] # Gone => 1 .. n \subseteq part[u]
    BY <1>3 DEF WritePart, HandsAreRight
  <2>2. askPc'[c] = "count" /\ askLoc'[c] = askLoc[c]
    BY <1>3, <1>k DEF WritePart
  <2>3. /\ part[u] # Gone /\ upload' = upload
        /\ part' = [part EXCEPT ![u] = @ \cup (n + 1 .. n + k)]
    BY <1>3 DEF WritePart, rowVars
  <2>4. part'[u] = part[u] \cup (n + 1 .. n + k)
    BY <2>1, <2>3, <1>t
  <2> QED
    BY <2>1, <2>2, <2>3, <2>4
<1>4. CASE CountPart(c) \/ CompleteUpload(c) \/ LoseUpload(c) \/ SubmitJob(c) \/ BreakOff(c)
  BY <1>4, <1>i DEF CountPart, CompleteUpload, LoseUpload, SubmitJob, BreakOff
<1>5. CASE AskComplete(c)
  <2>1. PICK u \in Upload : /\ upload[u].state \in {"open", "abandoned"} /\ upload[u].received = Size
                            /\ MoveOn(c, "hash", [Forgotten EXCEPT !.upload = u])
    BY <1>5 DEF AskComplete
  <2>2. /\ askPc'[c] = "hash" /\ askLoc'[c].upload = u
        /\ askLoc'[c].offset = 0 /\ askLoc'[c].length = 0
    BY <2>1, <1>k DEF Forgotten
  <2>3. upload' = upload /\ part' = part
    BY <1>5 DEF AskComplete, rowVars, fileVars
  <2>4. part[u] # Gone => part[u] = Unit
    BY <2>1, <1>t DEF PartsAreCounted, Unit
  <2> QED
    BY <2>1, <2>2, <2>3, <2>4, StorageAssumption
<1>6. CASE HashPart(c)
  <2>1. askPc'[c] = "register" /\ askLoc'[c] = askLoc[c] /\ askPc[c] = "hash"
    BY <1>6, <1>k DEF HashPart
  <2>2. upload' = upload /\ part' = part
    BY <1>6 DEF HashPart, rowVars, fileVars
  <2> QED
    BY <2>1, <2>2 DEF HandsAreRight
<1>9. CASE FindSource(c)
  BY <1>9, <1>k DEF FindSource
<1> QED
  BY <1>1, <1>2, <1>3, <1>4, <1>5, <1>6, <1>9 DEF Ask

\* Only whole files reach the store, and jobs keep their sources.
LEMMA AskSound ==
  ASSUME StorageInv, StorageTyped', PartsAreCounted', NEW c \in Asker, Ask(c)
  PROVE  StorageSound'
<1> USE StorageAssumption DEF StorageInv
<1> SUFFICES /\ Torn \notin store' \cup source'
             /\ \A j \in SourceJob : job'[j].state # "none" => job'[j].source \in source'
  BY DEF StorageSound, StorageTyped, PartsAreCounted
<1>s. /\ Torn \notin store \cup source
      /\ \A j \in SourceJob : job[j].state # "none" => job[j].source \in source
  BY DEF StorageSound
<1>r. ASSUME askPc[c] = "register", MovePart(askLoc[c].upload)
      PROVE  Digest(askLoc[c].upload) # Torn /\ Torn \notin store'
  <2>1. /\ askLoc[c].upload \in Upload
        /\ part[askLoc[c].upload] # Gone => part[askLoc[c].upload] = Unit
    BY <1>r DEF HandsAreRight
  <2> QED
    BY <1>r, <1>s, <2>1, MoveDoes
<1>1. CASE CompleteUpload(c)
  BY <1>1, <1>r, <1>s DEF CompleteUpload
<1>2. CASE LoseUpload(c)
  BY <1>2, <1>r, <1>s DEF LoseUpload, rowVars
<1>3. CASE SubmitJob(c)
  <2>1. PICK j \in SourceJob :
          job' = [job EXCEPT ![j] = [state |-> "running", source |-> askLoc[c].source, messages |-> FALSE]]
    BY <1>3 DEF SubmitJob
  <2> QED
    BY <1>3, <1>s, <2>1 DEF SubmitJob, fileVars, StorageTyped, StorageTypeOK
<1>4. CASE UNCHANGED <<store, source, job>>
  BY <1>4, <1>s
<1> QED
  BY <1>1, <1>2, <1>3, <1>4 DEF Ask, CreateUpload, ReadUpload, WritePart, CountPart, AskComplete, HashPart,
     FindSource, BreakOff, rowVars, fileVars

\* The purge and the jobs keep the parts of the invariant.
LEMMA UpkeepKeeps ==
  ASSUME StorageInv, Upkeep
  PROVE  StorageInv'
<1> USE DEF StorageInv
<1>t. StorageTyped' /\ UNCHANGED askVars
  BY UpkeepTypes
<1>f. /\ upload \in [Upload -> UploadRow] /\ part \in [Upload -> {Gone} \cup SUBSET Unit]
      /\ job \in [SourceJob -> SourceJobRow]
  BY DEF StorageTyped, StorageTypeOK
<1>h. HandsAreRight'
  BY <1>t, UpkeepGrows, HandsStay DEF HandsAreRight, askVars
<1>p. PartsAreCounted'
  <2>1. CASE RemoveFile
    BY <2>1, <1>f DEF RemoveFile, rowVars, PartsAreCounted
  <2>2. CASE AbandonUpload
    BY <2>2, <1>f DEF AbandonUpload, fileVars, PartsAreCounted, SweepIsRight, UploadRow
  <2>3. CASE ~RemoveFile /\ ~AbandonUpload
    BY <2>3 DEF Upkeep, JobGoesOn, Age, Select, DeleteJob, DeleteSource, PurgeDies, rowVars, fileVars,
       PartsAreCounted
  <2> QED
    BY <2>1, <2>2, <2>3
<1>w. SweepIsRight'
  <2> USE DEF SweepIsRight
  <2>1. CASE Select
    <3>1. CASE sweep.step = "idle"
      BY <2>1, <3>1 DEF Select, Sweep, rowVars
    <3>2. CASE sweep.step = "uploads"
      BY <2>1, <3>2 DEF Select, Sweep, rowVars
    <3>3. CASE sweep.step = "jobs"
      BY <2>1, <3>3 DEF Select, Sweep, rowVars, StorageSound, StorageTyped, StorageTypeOK
    <3>4. CASE sweep.step = "sources"
      BY <2>1, <3>4 DEF Select, Resting, rowVars
    <3> QED
      BY <3>1, <3>2, <3>3, <3>4 DEF StorageTyped, StorageTypeOK, SweepSteps
  <2>2. CASE RemoveFile
    BY <2>2, <1>f, StorageAssumption DEF RemoveFile, rowVars, StorageTyped
  <2>3. CASE AbandonUpload
    BY <2>3, <1>f DEF AbandonUpload, Swept, fileVars, UploadRow, StorageTyped
  <2>4. CASE DeleteJob
    BY <2>4 DEF DeleteJob, Swept, StorageTyped
  <2>5. CASE DeleteSource
    BY <2>5 DEF DeleteSource, Swept, StorageTyped
  <2>6. CASE PurgeDies
    BY <2>6 DEF PurgeDies, Resting
  <2>7. CASE Age \/ \E j \in SourceJob : JobGoesOn(j)
    BY <2>7 DEF Age, JobGoesOn, rowVars, fileVars
  <2> QED
    BY <2>1, <2>2, <2>3, <2>4, <2>5, <2>6, <2>7 DEF Upkeep
<1>s. StorageSound'
  <2> SUFFICES /\ Torn \notin store' \cup source'
               /\ \A j \in SourceJob : job'[j].state # "none" => job'[j].source \in source'
    BY <1>t, <1>p DEF StorageSound, StorageTyped, PartsAreCounted
  <2>s. /\ Torn \notin store \cup source
        /\ \A j \in SourceJob : job[j].state # "none" => job[j].source \in source
    BY DEF StorageSound
  <2>1. ASSUME NEW j \in SourceJob, JobGoesOn(j)
        PROVE  /\ Torn \notin store' \cup source'
               /\ \A k \in SourceJob : job'[k].state # "none" => job'[k].source \in source'
    <3>1. source' = source /\ store' = store
      BY <2>1 DEF JobGoesOn, fileVars
    <3>2. \A k \in SourceJob : job'[k].source = job[k].source /\ (job'[k].state # "none" => job[k].state # "none")
      BY <2>1, <1>f DEF JobGoesOn, SourceJobRow
    <3> QED
      BY <2>s, <3>1, <3>2
  <2>2. CASE RemoveFile
    BY <2>2, <2>s DEF RemoveFile, rowVars
  <2>3. CASE DeleteJob
    <3>1. PICK j \in sweep.rows : job' = [job EXCEPT ![j] = NoJob]
      BY <2>3 DEF DeleteJob
    <3> QED
      BY <2>3, <2>s, <3>1, <1>f DEF DeleteJob, fileVars, NoJob
  <2>4. CASE DeleteSource
    BY <2>4, <2>s DEF DeleteSource, UsedSources, fileVars
  <2>5. CASE Age \/ Select \/ AbandonUpload \/ PurgeDies
    BY <2>5, <2>s DEF Age, Select, AbandonUpload, PurgeDies, rowVars, fileVars
  <2> QED
    BY <2>1, <2>2, <2>3, <2>4, <2>5 DEF Upkeep
<1> QED
  BY <1>t, <1>h, <1>p, <1>w, <1>s

\* A client's step leaves the purge right: no upload is forgotten, no removed file comes back.
LEMMA AskKeeps ==
  ASSUME StorageInv, NEW c \in Asker, Ask(c)
  PROVE  StorageInv'
<1> USE DEF StorageInv
<1>t. StorageTyped'
  BY AskTypes
<1>p. PartsAreCounted'
  BY AskCounted
<1>h. HandsAreRight'
  BY <1>t, AskHands
<1>s. StorageSound'
  BY <1>t, <1>p, AskSound
<1>w. SweepIsRight'
  <2>1. sweep' = sweep
    BY DEF Ask, CreateUpload, ReadUpload, WritePart, CountPart, AskComplete, HashPart, CompleteUpload,
       LoseUpload, FindSource, SubmitJob, BreakOff
  <2> QED
    BY <2>1, AskGrows DEF Grows, SweepIsRight
<1> QED
  BY <1>t, <1>p, <1>h, <1>s, <1>w

\* Every step keeps the invariant.
LEMMA StorageStep == StorageInv /\ [StorageNext]_storageVars => StorageInv'
<1> SUFFICES ASSUME StorageInv, [StorageNext]_storageVars PROVE StorageInv'
  OBVIOUS
<1>1. ASSUME NEW c \in Asker, Ask(c) PROVE StorageInv'
  BY <1>1, AskKeeps
<1>2. CASE Upkeep
  BY <1>2, UpkeepKeeps
<1>3. CASE UNCHANGED storageVars
  BY <1>3 DEF storageVars, StorageInv, StorageTyped, StorageTypeOK, StorageSound, PartsAreCounted, HandsAreRight,
     SweepIsRight
<1> QED
  BY <1>1, <1>2, <1>3 DEF StorageNext, Upkeep

\* The inductive invariant: what is in a client's hands and in the purge's is known.
THEOREM StorageIsSound == StorageSpec => []StorageInv
BY StorageStarts, StorageStep, PTL DEF StorageSpec

\* However many requests write one upload, die, or are overtaken by the purge: the
\* units counted are in the file, only whole files reach the source store, and no job
\* loses the row of its source (api.append_upload, ingest.register_source,
\* maintenance.purge).
THEOREM UploadsAreSound == StorageSpec => []StorageSound
BY StorageIsSound, PTL DEF StorageInv

-----------------------------------------------------------------------------
(* The drop folder.                                                        *)

\* Every nonempty set of names has a first one.
LEMMA FirstName == ASSUME NEW S \in SUBSET Nat, S # {} PROVE Min(S) \in S
<1> DEFINE R == OpToRel(<, Nat)
<1>1. IsWellFoundedOn(R, Nat)
  BY NatLessThanWellFounded
<1> HIDE DEF R
<1>2. PICK m \in S : \A k \in S : <<k, m>> \notin R
  BY <1>1, WFMin
<1>3. \A k \in S : k < m => <<k, m>> \in R
  BY DEF R, OpToRel
<1>4. \A k \in S : ~(k < m)
  BY <1>2, <1>3, Zenon
<1>5. \A k \in S : m <= k
  BY <1>4
<1> QED
  BY <1>5 DEF Min

\* The current file is one that waits.
LEMMA CurWaits == ASSUME FolderTypeOK, todo # {} PROVE Cur \in todo /\ Cur \in File
<1>1. todo \in SUBSET Nat /\ todo \subseteq File
  BY FolderAssumption DEF FolderTypeOK, File
<1> QED
  BY <1>1, FirstName DEF Cur

\* The first state.
LEMMA FolderStarts == FolderInit => FolderInv
<1> SUFFICES ASSUME FolderInit PROVE FolderInv
  OBVIOUS
<1> USE FolderAssumption DEF FolderInit, Idle
<1>1. FolderTyped
  BY DEF FolderTyped, FolderTypeOK, Steps, Files
<1>2. SeenIsPast /\ TodoIsWhole /\ WorkIsRight /\ DoneIsOld
  BY DEF SeenIsPast, TodoIsWhole, WorkIsRight, DoneIsOld
<1>3. OnlyWholeFilesAreRead /\ AnsweredBeforeArchived
  BY <1>1 DEF OnlyWholeFilesAreRead, AnsweredBeforeArchived, FolderTyped
<1> QED
  BY <1>1, <1>2, <1>3 DEF FolderInv

\* A file that was taken out of the folder, or was put there.
LEMMA PutOK ==
  ASSUME FolderTyped, NEW n \in File, NEW p \in 1..Whole, NEW v \in Version, Put(n, p, v)
  PROVE  /\ dropped' \in [File -> Files \cup {None}]
         /\ dropped'[n] = [v |-> v, parts |-> p, polls |-> 0, age |-> 0]
         /\ dropped'[n] \in Files
         /\ \A m \in File : m # n => dropped'[m] = dropped[m]
BY FolderAssumption DEF Put, FolderTyped, FolderTypeOK, Files

\* A count below its cap is counted exactly.
LEMMA CappedOK == ASSUME NEW c \in Nat, NEW n \in 0..c PROVE Capped(n, c) = n /\ Capped(n + 1, c) \in 0..c
                                                          /\ (Capped(n + 1, c) = n + 1 \/ Capped(n + 1, c) = c)
BY DEF Capped

\* What a poll remembers of a file that is there.
LEMMA SeenOK ==
  ASSUME FolderTyped, NEW n \in File, dropped[n] # None
  PROVE  /\ SeenAgain(n) \in [file : Files, stable : 1..StableScans]
         /\ SeenAgain(n).file = dropped[n]
         /\ \/ SeenAgain(n).stable = 1
            \/ /\ state[n] # None /\ SameFile(state[n].file, dropped[n])
               /\ SeenAgain(n).stable <= state[n].stable + 1
BY FolderAssumption DEF SeenAgain, Capped, FolderTyped, FolderTypeOK, Files

\* Partners keep the types.
LEMMA PartnerTypes ==
  ASSUME FolderTyped, SeenIsPast, NEW n \in File, BeginUpload(n) \/ GrowUpload(n)
  PROVE  FolderTyped'
<1> USE FolderAssumption DEF FolderTyped, FolderTypeOK
<1>1. CASE BeginUpload(n)
  <2>1. uploads[n] + 1 \in Version /\ 1 \in 1..Whole
    BY <1>1 DEF BeginUpload, Version
  <2>2. dropped' \in [File -> Files \cup {None}]
    BY <1>1, <2>1, PutOK DEF BeginUpload
  <2>3. uploads' \in [File -> 0..MaxUploads]
    BY <1>1 DEF BeginUpload
  <2> QED
    BY <1>1, <2>2, <2>3 DEF BeginUpload, workerVars
<1>2. CASE GrowUpload(n)
  <2>1. dropped[n].parts + 1 \in 1..Whole /\ dropped[n].v \in Version
    BY <1>2 DEF GrowUpload, Files
  <2>2. dropped' \in [File -> Files \cup {None}]
    BY <1>2, <2>1, PutOK DEF GrowUpload
  <2> QED
    BY <1>2, <2>2 DEF GrowUpload, workerVars
<1> QED
  BY <1>1, <1>2

\* Partners keep the rest of the invariant.
LEMMA PartnerKeeps ==
  ASSUME ~Overwrite, FolderInv, NEW n \in File, BeginUpload(n) \/ GrowUpload(n)
  PROVE  FolderInv'
<1> USE FolderAssumption DEF FolderInv
<1>t. FolderTyped'
  BY PartnerTypes
<1>f. /\ dropped \in [File -> Files \cup {None}] /\ uploads \in [File -> 0..MaxUploads]
      /\ todo \subseteq File /\ todo' = todo /\ work' = work /\ Cur' = Cur /\ state' = state
      /\ done' = done /\ events' = events /\ outbox' = outbox
  BY DEF FolderTyped, FolderTypeOK, BeginUpload, GrowUpload, workerVars, Cur
<1>1. CASE BeginUpload(n)
  <2>1. /\ dropped[n] = None /\ uploads' = [uploads EXCEPT ![n] = @ + 1]
        /\ uploads[n] + 1 \in Version /\ Put(n, 1, uploads[n] + 1)
    BY <1>1, <1>f DEF BeginUpload, Version
  <2>2. /\ dropped'[n] = [v |-> uploads[n] + 1, parts |-> 1, polls |-> 0, age |-> 0] /\ dropped'[n] # None
        /\ \A m \in File : m # n => dropped'[m] = dropped[m]
    BY <2>1, PutOK
  <2>3. /\ uploads'[n] = uploads[n] + 1
        /\ \A m \in File : m # n => uploads'[m] = uploads[m]
    BY <2>1, <1>f
  <2>4. SeenIsPast'
    BY <1>f, <2>2, <2>3 DEF SeenIsPast, FolderTyped, Files, Version
  <2>5. TodoIsWhole'
    BY <1>f, <2>1, <2>2 DEF TodoIsWhole
  <2>6. WorkIsRight'
    <3>1. work.step \in {"read", "rejected", "crashed", "processed", "corrected", "reported"} => dropped'[Cur] = dropped[Cur]
      <4> SUFFICES ASSUME work.step \in {"read", "rejected", "crashed", "processed", "corrected", "reported"}
                   PROVE  dropped'[Cur] = dropped[Cur]
        OBVIOUS
      <4>1. todo # {}
        BY DEF WorkIsRight
      <4>2. Cur \in todo /\ Cur \in File
        BY <4>1, CurWaits DEF FolderTyped
      <4>3. dropped[Cur] # None
        BY <4>2 DEF TodoIsWhole
      <4> QED
        BY <4>2, <4>3, <2>1, <2>2
    <3> QED
      BY <1>f, <3>1 DEF WorkIsRight
  <2>7. DoneIsOld'
    BY <1>f, <2>3 DEF DoneIsOld, FolderTyped, Version
  <2>8. AnsweredBeforeArchived'
    BY <1>f, <2>1, <2>2, <2>3 DEF AnsweredBeforeArchived
  <2> QED
    BY <1>t, <1>f, <2>4, <2>5, <2>6, <2>7, <2>8 DEF OnlyWholeFilesAreRead, FolderTyped
<1>2. CASE GrowUpload(n)
  <2>1. /\ dropped[n] # None /\ dropped[n].parts < Whole /\ Put(n, dropped[n].parts + 1, dropped[n].v)
        /\ dropped[n].parts + 1 \in 1..Whole /\ dropped[n].v \in Version /\ uploads' = uploads
    BY <1>2, <1>f DEF GrowUpload, Files
  <2>2. /\ dropped'[n] = [v |-> dropped[n].v, parts |-> dropped[n].parts + 1, polls |-> 0, age |-> 0]
        /\ dropped'[n] # None
        /\ \A m \in File : m # n => dropped'[m] = dropped[m]
    BY <2>1, PutOK
  <2>4. SeenIsPast'
    BY <1>f, <2>1, <2>2 DEF SeenIsPast, FolderTyped, Files, Version
  <2>5. TodoIsWhole'
    BY <1>f, <2>1, <2>2 DEF TodoIsWhole
  <2>6. WorkIsRight'
    <3>1. todo # {} => Cur \in File
      BY CurWaits DEF FolderTyped
    <3>2. Cur \in File => dropped'[Cur].v = dropped[Cur].v
      BY <2>2
    <3> QED
      BY <1>f, <3>1, <3>2 DEF WorkIsRight
  <2>7. DoneIsOld'
    BY <1>f, <2>1 DEF DoneIsOld
  <2>8. AnsweredBeforeArchived'
    BY <1>f, <2>1, <2>2 DEF AnsweredBeforeArchived
  <2> QED
    BY <1>t, <1>f, <2>4, <2>5, <2>6, <2>7, <2>8 DEF OnlyWholeFilesAreRead, FolderTyped
<1> QED
  BY <1>1, <1>2

\* The worker and its crashes keep the types.
LEMMA WorkerTypes ==
  ASSUME FolderTyped, WorkIsRight, Worker \/ Crash
  PROVE  FolderTyped'
<1> USE FolderAssumption DEF FolderTyped, FolderTypeOK
<1>c. todo # {} => Cur \in File
  BY CurWaits
<1>n. ASSUME NextFile, todo # {}
      PROVE  /\ todo' \subseteq File /\ state' \in [File -> [file : Files, stable : 1..StableScans] \cup {None}]
             /\ work' \in [step : Steps, file : Files \cup {None}]
  BY <1>n, <1>c DEF NextFile, Idle, Steps
<1>d. ASSUME Dies
      PROVE  /\ todo' \subseteq File /\ state' \in [File -> [file : Files, stable : 1..StableScans] \cup {None}]
             /\ work' \in [step : Steps, file : Files \cup {None}]
  BY <1>d DEF Dies, Dead, Steps
<1>g. ASSUME NEW p \in Steps, GoOn(p) PROVE work' \in [step : Steps, file : Files \cup {None}]
  BY <1>g DEF GoOn
<1>q. \A p \in {"read", "rejected", "crashed", "moved", "processed", "corrected", "reported"} : p \in Steps
  BY DEF Steps
<1>s. ASSUME state' \in [File -> [file : Files, stable : 1..StableScans] \cup {None}]
      PROVE  \A n \in File : state'[n] # None => state'[n].stable \in 1..StableScans
  BY <1>s
<1>m. ASSUME NEW d \in {"processed", "failed"}, Moved(d), todo # {}
      PROVE  /\ dropped' \in [File -> Files \cup {None}]
             /\ done' \in [{"processed", "failed"} -> SUBSET (File \X Version)]
  BY <1>m, <1>c DEF Moved, Files
<1>1. CASE PollFolder
  <2>1. ASSUME NEW n \in File
        PROVE  /\ (IF dropped[n] = None THEN None ELSE SeenAgain(n)) \in [file : Files, stable : 1..StableScans] \cup {None}
               /\ (IF dropped[n] = None THEN None ELSE [dropped[n] EXCEPT !.polls = Capped(@ + 1, StableScans)])
                    \in Files \cup {None}
    <3>1. CASE dropped[n] = None
      BY <3>1
    <3>2. CASE dropped[n] # None
      BY <3>2, SeenOK, CappedOK DEF Files
    <3> QED
      BY <3>1, <3>2
  <2>2. state' \in [File -> [file : Files, stable : 1..StableScans] \cup {None}]
    BY <1>1, <2>1 DEF PollFolder
  <2>3. dropped' \in [File -> Files \cup {None}]
    BY <1>1, <2>1 DEF PollFolder
  <2>4. todo' \subseteq File /\ work' \in [step : Steps, file : Files \cup {None}]
    BY <1>1 DEF PollFolder, Idle, Steps
  <2> QED
    BY <1>1, <2>2, <2>3, <2>4, <1>s DEF PollFolder
<1>2. CASE Sleep
  <2>1. ASSUME NEW n \in File
        PROVE  (IF dropped[n] = None THEN None ELSE [dropped[n] EXCEPT !.age = Capped(@ + 1, MinAge)])
                    \in Files \cup {None}
    <3>1. CASE dropped[n] = None
      BY <3>1
    <3>2. CASE dropped[n] # None
      BY <3>2, CappedOK DEF Files
    <3> QED
      BY <3>1, <3>2
  <2>3. dropped' \in [File -> Files \cup {None}]
    BY <1>2, <2>1 DEF Sleep
  <2> QED
    BY <1>2, <2>3 DEF Sleep, Idle, Steps
<1>3. CASE ReadFile
  <2>1. CASE dropped[Cur] = None
    BY <1>3, <2>1, <1>n, <1>s DEF ReadFile, Working
  <2>2. CASE dropped[Cur] # None
    <3>1. work' \in [step : Steps, file : Files \cup {None}]
      BY <1>3, <2>2, <1>c, <1>q DEF ReadFile, Working
    <3> QED
      BY <1>3, <2>2, <3>1 DEF ReadFile
  <2> QED
    BY <2>1, <2>2
<1>4. CASE Pipeline
  <2>1. PICK verdict \in Outcome, audited \in BOOLEAN, raises \in BOOLEAN :
          /\ events' = IF audited THEN events \cup {<<Cur, work.file.v, verdict>>} ELSE events
          /\ GoOn(IF raises THEN "crashed" ELSE verdict)
    BY <1>4 DEF Pipeline
  <2>2. work.file.v \in Version /\ Cur \in File
    BY <1>4, <1>c DEF Pipeline, Working, WorkIsRight, Files
  <2>3. (IF raises THEN "crashed" ELSE verdict) \in Steps
    BY DEF Outcome, Steps
  <2>4. work' \in [step : Steps, file : Files \cup {None}] /\ events' \subseteq File \X Version \X Outcome
    BY <2>1, <2>2, <2>3, <1>g
  <2> QED
    BY <1>4, <2>4 DEF Pipeline
<1>5. CASE Quarantine
  <2>1. CASE Moved("failed") /\ GoOn("moved") /\ UNCHANGED <<state, todo>>
    <3>1. work' \in [step : Steps, file : Files \cup {None}]
      BY <2>1, <1>g, <1>q
    <3>2. /\ dropped' \in [File -> Files \cup {None}]
          /\ done' \in [{"processed", "failed"} -> SUBSET (File \X Version)]
      BY <1>5, <2>1, <1>m DEF Quarantine, Working
    <3> QED
      BY <1>5, <2>1, <3>1, <3>2 DEF Quarantine
  <2>2. CASE Dies /\ UNCHANGED <<dropped, done>>
    BY <1>5, <2>2, <1>d, <1>s DEF Quarantine
  <2> QED
    BY <1>5, <2>1, <2>2 DEF Quarantine
<1>6. CASE WriteReason
  BY <1>6, <1>n, <1>s DEF WriteReason, Working
<1>7. CASE WriteCorrected
  <2>1. CASE Cur \in TooLong
    BY <1>7, <2>1, <1>d, <1>s DEF WriteCorrected
  <2>2. CASE Cur \notin TooLong
    <3>1. work.file.v \in 0..MaxUploads /\ Cur \in File
      BY <1>7, <1>c DEF WriteCorrected, Working, WorkIsRight, Files, Version
    <3>2. work' \in [step : Steps, file : Files \cup {None}]
      BY <1>7, <2>2, <1>g, <1>q DEF WriteCorrected
    <3>3. outbox' \in [{"corrected", "report"} -> [File -> 0..MaxUploads]]
      BY <1>7, <2>2, <3>1 DEF WriteCorrected
    <3> QED
      BY <1>7, <2>2, <3>2, <3>3 DEF WriteCorrected
  <2> QED
    BY <2>1, <2>2
<1>8. CASE WriteReport
  <2>1. work.file.v \in 0..MaxUploads /\ Cur \in File
    BY <1>8, <1>c DEF WriteReport, Working, WorkIsRight, Files, Version
  <2>2. work' \in [step : Steps, file : Files \cup {None}]
    BY <1>8, <1>g, <1>q DEF WriteReport
  <2>3. outbox' \in [{"corrected", "report"} -> [File -> 0..MaxUploads]]
    BY <1>8, <2>1 DEF WriteReport
  <2> QED
    BY <1>8, <2>2, <2>3 DEF WriteReport
<1>9. CASE MoveToProcessed
  <2>1. CASE Moved("processed") /\ NextFile
    BY <1>9, <2>1, <1>m, <1>n, <1>s DEF MoveToProcessed, Working
  <2>2. CASE Dies /\ UNCHANGED <<dropped, done>>
    BY <1>9, <2>2, <1>d, <1>s DEF MoveToProcessed
  <2> QED
    BY <1>9, <2>1, <2>2 DEF MoveToProcessed
<1>10. CASE Crash
  BY <1>10, <1>d, <1>s DEF Crash
<1>11. CASE Restart
  BY <1>11 DEF Restart, Idle, Steps
<1> QED
  BY <1>1, <1>2, <1>3, <1>4, <1>5, <1>6, <1>7, <1>8, <1>9, <1>10, <1>11 DEF Worker

\* When the worker dies, what it knew of the folder is forgotten with it.
LEMMA DeathKeeps ==
  ASSUME FolderInv, Dies, dropped' = dropped, uploads' = uploads
  PROVE  SeenIsPast' /\ TodoIsWhole' /\ WorkIsRight'
BY DEF FolderInv, Dies, Dead, SeenIsPast, TodoIsWhole, WorkIsRight

\* When the worker takes the next file, the others are as they were.
LEMMA NextFileKeeps ==
  ASSUME FolderInv, FolderTyped', todo # {}, NextFile, uploads' = uploads,
         \A n \in File : n # Cur => dropped'[n] = dropped[n],
         work.step # "moved" => dropped'[Cur] \in {dropped[Cur], None}, work.step = "moved" => dropped' = dropped
  PROVE  SeenIsPast' /\ TodoIsWhole' /\ WorkIsRight'
<1> USE DEF FolderInv
<1>c. Cur \in todo /\ Cur \in File
  BY CurWaits DEF FolderTyped
<1>1. /\ todo' = todo \ {Cur} /\ work' = [step |-> "polled", file |-> None]
      /\ state'[Cur] = None /\ \A n \in File : n # Cur => state'[n] = state[n]
  BY <1>c DEF NextFile, Idle, FolderTyped
<1>2. SeenIsPast'
  BY <1>c, <1>1 DEF SeenIsPast
<1>3. TodoIsWhole'
  BY <1>c, <1>1 DEF TodoIsWhole, FolderTyped, FolderTypeOK
<1>4. WorkIsRight'
  BY <1>1 DEF WorkIsRight
<1> QED
  BY <1>2, <1>3, <1>4

\* A step that goes on with the file in work.
LEMMA GoOnKeeps ==
  ASSUME FolderInv, NEW p, GoOn(p), todo # {}, state' = state, todo' = todo, uploads' = uploads, dropped' = dropped,
         work.step \notin {"dead", "asleep", "polled", "moved"}, p \notin {"dead", "asleep", "polled", "moved"}
  PROVE  /\ SeenIsPast' /\ TodoIsWhole' /\ Cur' = Cur /\ work'.step = p /\ work'.file = work.file
         /\ work.step \in {"read", "rejected", "crashed", "processed", "corrected", "reported"}
         /\ work.file # None /\ work.file.parts = Whole /\ work.file.v = dropped[Cur].v
         /\ Cur \in File
<1> USE DEF FolderInv
<1>1. work'.step = p /\ work'.file = work.file /\ work.step \in Steps
  BY DEF GoOn, FolderTyped, FolderTypeOK
<1>2. work.step \in {"read", "rejected", "crashed", "processed", "corrected", "reported"}
  BY <1>1 DEF Steps
<1>3. Cur' = Cur /\ Cur \in File
  BY CurWaits DEF Cur, FolderTyped
<1> QED
  BY <1>1, <1>2, <1>3 DEF SeenIsPast, TodoIsWhole, WorkIsRight

\* What was polled or slept over: the files are the same, only older.
LEMMA PollKeeps ==
  ASSUME ~Overwrite, FolderInv, FolderTyped', PollFolder
  PROVE  FolderInv'
<1> USE FolderAssumption DEF FolderInv
<1>f. /\ dropped \in [File -> Files \cup {None}] /\ uploads' = uploads /\ done' = done /\ events' = events
      /\ outbox' = outbox /\ work' = [step |-> "polled", file |-> None]
  BY DEF FolderTyped, FolderTypeOK, PollFolder, Idle
<1>1. ASSUME NEW n \in File, dropped[n] = None
      PROVE  dropped'[n] = None /\ state'[n] = None
  BY <1>1, <1>f DEF PollFolder
<1>2. ASSUME NEW n \in File, dropped[n] # None
      PROVE  /\ dropped'[n] # None /\ dropped'[n].v = dropped[n].v /\ dropped'[n].parts = dropped[n].parts
             /\ dropped'[n].polls = Capped(dropped[n].polls + 1, StableScans)
             /\ state'[n] = SeenAgain(n)
  <2>1. /\ dropped'[n] = [dropped[n] EXCEPT !.polls = Capped(@ + 1, StableScans)]
        /\ state'[n] = SeenAgain(n)
    BY <1>2, <1>f DEF PollFolder
  <2>2. dropped[n] \in Files
    BY <1>2, <1>f
  <2>3. dropped'[n] \in Files
    BY <2>1, <2>2, CappedOK DEF Files
  <2> QED
    BY <2>1, <2>2, <2>3 DEF Files
<1>3. ASSUME NEW n \in File, dropped[n] # None
      PROVE  SeenAgain(n).stable <= Capped(dropped[n].polls + 1, StableScans)
  <2>0. dropped[n].polls \in 0..StableScans
    BY <1>3, <1>f DEF Files
  <2>1. SeenAgain(n).stable \in 1..StableScans
    BY <1>3, SeenOK
  <2>2. SeenAgain(n).stable <= dropped[n].polls + 1
    <3>1. CASE SeenAgain(n).stable = 1
      BY <2>0, <3>1
    <3>2. CASE /\ state[n] # None /\ SameFile(state[n].file, dropped[n])
               /\ SeenAgain(n).stable <= state[n].stable + 1
      <4>1. state[n].stable <= dropped[n].polls
        BY <1>3, <3>2 DEF SeenIsPast, SameFile
      <4>2. state[n].stable \in Nat
        BY <3>2 DEF FolderTyped
      <4> QED
        BY <2>0, <2>1, <3>2, <4>1, <4>2
    <3> QED
      BY <1>3, <3>1, <3>2, SeenOK
  <2> QED
    BY <2>0, <2>1, <2>2 DEF Capped
<1>4. SeenIsPast'
  <2>1. ASSUME NEW n \in File, dropped[n] # None
        PROVE  /\ dropped'[n].v = uploads'[n] /\ state'[n].file = dropped[n]
               /\ state'[n].stable <= dropped'[n].polls /\ dropped[n].parts \in Nat /\ uploads[n] \in Nat
    BY <2>1, <1>2, <1>3, <1>f, SeenOK DEF SeenIsPast, Files, FolderTyped
  <2> QED
    BY <1>1, <1>2, <2>1, <1>f DEF SeenIsPast
<1>5. TodoIsWhole'
  <2> SUFFICES ASSUME NEW n \in todo' PROVE dropped'[n] # None /\ dropped'[n].parts = Whole
    BY DEF TodoIsWhole
  <2>1. n \in File /\ dropped[n] # None /\ SeenAgain(n).stable >= StableScans /\ dropped[n].age >= MinAge
    BY DEF PollFolder, Ready
  <2>2. dropped[n].polls \in 0..StableScans /\ dropped[n].age \in 0..MinAge /\ dropped[n].parts \in 1..Whole
    BY <2>1, <1>f DEF Files
  <2>3. dropped[n].polls + 1 >= StableScans
    BY <2>1, <2>2, <1>3, SeenOK, CappedOK DEF Capped
  <2>4. ~(dropped[n].parts < Whole)
    BY <2>1, <2>2, <2>3 DEF PollFolder, NoLongPause
  <2> QED
    BY <2>1, <2>2, <2>4, <1>2
<1>6. WorkIsRight'
  BY <1>f DEF WorkIsRight
<1>7. DoneIsOld'
  BY <1>f DEF DoneIsOld
<1>8. AnsweredBeforeArchived'
  BY <1>f, <1>1, <1>2 DEF AnsweredBeforeArchived
<1> QED
  BY <1>f, <1>4, <1>5, <1>6, <1>7, <1>8 DEF OnlyWholeFilesAreRead, FolderTyped

\* Going to sleep keeps the invariant of the folder.
LEMMA SleepKeeps ==
  ASSUME FolderInv, FolderTyped', Sleep
  PROVE  FolderInv'
<1> USE FolderAssumption DEF FolderInv
<1>f. /\ dropped \in [File -> Files \cup {None}] /\ uploads' = uploads /\ done' = done /\ events' = events
      /\ outbox' = outbox /\ work' = [step |-> "asleep", file |-> None] /\ todo' = {} /\ state' = state
  BY DEF FolderTyped, FolderTypeOK, Sleep, Idle
<1>1. ASSUME NEW n \in File
      PROVE  /\ dropped'[n] = None <=> dropped[n] = None
             /\ dropped[n] # None => /\ dropped'[n].v = dropped[n].v /\ dropped'[n].parts = dropped[n].parts
                                     /\ dropped'[n].polls = dropped[n].polls
  <2>1. CASE dropped[n] = None
    BY <2>1, <1>f DEF Sleep
  <2>2. CASE dropped[n] # None
    <3>1. dropped[n] \in Files /\ dropped'[n] = [dropped[n] EXCEPT !.age = Capped(@ + 1, MinAge)]
      BY <2>2, <1>f DEF Sleep
    <3>2. dropped'[n] \in Files
      BY <3>1, CappedOK DEF Files
    <3> QED
      BY <2>2, <3>1, <3>2 DEF Files
  <2> QED
    BY <2>1, <2>2
<1>2. SeenIsPast'
  BY <1>f, <1>1 DEF SeenIsPast
<1>3. TodoIsWhole' /\ WorkIsRight'
  BY <1>f DEF TodoIsWhole, WorkIsRight
<1>4. DoneIsOld' /\ AnsweredBeforeArchived'
  BY <1>f, <1>1 DEF DoneIsOld, AnsweredBeforeArchived
<1> QED
  BY <1>f, <1>2, <1>3, <1>4 DEF OnlyWholeFilesAreRead, FolderTyped

\* So does reading the next file,
LEMMA ReadKeeps ==
  ASSUME FolderInv, FolderTyped', ReadFile
  PROVE  FolderInv'
<1> USE DEF FolderInv
<1>1. /\ todo # {} /\ work.step = "polled" /\ dropped' = dropped /\ done' = done /\ outbox' = outbox
      /\ events' = events /\ uploads' = uploads
  BY DEF ReadFile, Working
<1>2. Cur \in todo /\ Cur \in File
  BY <1>1, CurWaits DEF FolderTyped
<1>3. dropped[Cur] # None /\ dropped[Cur].parts = Whole
  BY <1>1, <1>2 DEF TodoIsWhole
<1>4. /\ work' = [step |-> "read", file |-> dropped[Cur]] /\ todo' = todo /\ state' = state /\ Cur' = Cur
  BY <1>3 DEF ReadFile, Cur
<1>5. SeenIsPast' /\ TodoIsWhole'
  BY <1>1, <1>2, <1>4 DEF SeenIsPast, TodoIsWhole
<1>6. WorkIsRight'
  BY <1>1, <1>3, <1>4 DEF WorkIsRight
<1>7. DoneIsOld' /\ AnsweredBeforeArchived'
  BY <1>1 DEF DoneIsOld, AnsweredBeforeArchived
<1> QED
  BY <1>3, <1>4, <1>5, <1>6, <1>7 DEF OnlyWholeFilesAreRead, FolderTyped

\* the verdict on it,
LEMMA PipelineKeeps ==
  ASSUME FolderInv, FolderTyped', Pipeline
  PROVE  FolderInv'
<1> USE DEF FolderInv
<1>1. PICK verdict \in Outcome, audited \in BOOLEAN, raises \in BOOLEAN :
        /\ ~audited => raises
        /\ events' = IF audited THEN events \cup {<<Cur, work.file.v, verdict>>} ELSE events
        /\ GoOn(IF raises THEN "crashed" ELSE verdict)
  BY DEF Pipeline
<1> DEFINE p == IF raises THEN "crashed" ELSE verdict
<1>2. /\ todo # {} /\ work.step = "read" /\ dropped' = dropped /\ done' = done /\ outbox' = outbox
      /\ uploads' = uploads /\ todo' = todo /\ state' = state
  BY DEF Pipeline, Working
<1>3. p \in {"crashed", "processed", "rejected"} /\ (p = "processed" => verdict = "processed" /\ audited)
  BY <1>1 DEF Outcome
<1>4. GoOn(p)
  BY <1>1
<1> HIDE DEF p
<1>5. /\ SeenIsPast' /\ TodoIsWhole' /\ Cur' = Cur /\ work'.step = p /\ work'.file = work.file
      /\ work.file # None /\ work.file.parts = Whole /\ work.file.v = dropped[Cur].v
  BY <1>2, <1>3, <1>4, GoOnKeeps
<1>6. p = "processed" => <<Cur, work.file.v, "processed">> \in events'
  BY <1>1, <1>3
<1>7. WorkIsRight'
  BY <1>2, <1>3, <1>5, <1>6 DEF WorkIsRight
<1>8. events \subseteq events'
  BY <1>1
<1>9. DoneIsOld' /\ AnsweredBeforeArchived'
  BY <1>2, <1>8 DEF DoneIsOld, AnsweredBeforeArchived
<1> QED
  BY <1>5, <1>7, <1>9 DEF OnlyWholeFilesAreRead, FolderTyped

\* An original that is moved away keeps the account of what was uploaded.
LEMMA MovedKeeps ==
  ASSUME FolderInv, FolderTyped', NEW d \in {"processed", "failed"}, Moved(d), todo # {},
         events' = events, outbox' = outbox, uploads' = uploads,
         d = "processed" => /\ <<Cur, dropped[Cur].v, "processed">> \in events
                            /\ outbox["corrected"][Cur] = dropped[Cur].v
                            /\ outbox["report"][Cur] = dropped[Cur].v
  PROVE  DoneIsOld' /\ AnsweredBeforeArchived'
<1> USE FolderAssumption DEF FolderInv
<1>1. Cur \in File
  BY CurWaits DEF FolderTyped
<1>2. /\ dropped[Cur] # None /\ dropped[Cur].v = uploads[Cur] /\ uploads[Cur] \in Nat
      /\ dropped'[Cur] = None /\ \A n \in File : n # Cur => dropped'[n] = dropped[n]
      /\ done'[d] = done[d] \cup {<<Cur, uploads[Cur]>>}
      /\ \A e \in {"processed", "failed"} : e # d => done'[e] = done[e]
  BY <1>1 DEF Moved, SeenIsPast, FolderTyped, FolderTypeOK
<1>3. DoneIsOld'
  BY <1>1, <1>2 DEF DoneIsOld
<1>4. \A f \in done'["processed"] :
        /\ <<f[1], f[2], "processed">> \in events'
        /\ outbox'["corrected"][f[1]] >= f[2] /\ outbox'["report"][f[1]] >= f[2]
  <2>1. CASE d = "processed"
    <3> SUFFICES ASSUME NEW f \in done'["processed"], f = <<Cur, uploads[Cur]>>
                 PROVE  /\ <<f[1], f[2], "processed">> \in events
                        /\ outbox["corrected"][f[1]] >= f[2] /\ outbox["report"][f[1]] >= f[2]
      BY <1>2, <2>1 DEF AnsweredBeforeArchived
    <3>1. f[1] = Cur /\ f[2] = uploads[Cur]
      OBVIOUS
    <3> QED
      BY <1>2, <2>1, <3>1
  <2>2. CASE d = "failed"
    BY <1>2, <2>2 DEF AnsweredBeforeArchived
  <2> QED
    BY <2>1, <2>2
<1>5. ASSUME NEW n \in File, NEW v \in 1..uploads'[n]
      PROVE  \/ dropped'[n] # None /\ dropped'[n].v = v
             \/ <<n, v>> \in done'["processed"] \cup done'["failed"]
  <2>1. \/ dropped[n] # None /\ dropped[n].v = v
        \/ <<n, v>> \in done["processed"] \cup done["failed"]
    BY <1>5 DEF AnsweredBeforeArchived
  <2>2. done["processed"] \cup done["failed"] \subseteq done'["processed"] \cup done'["failed"]
    BY <1>2
  <2>3. <<Cur, uploads[Cur]>> \in done'["processed"] \cup done'["failed"]
    BY <1>2
  <2> QED
    BY <1>2, <2>1, <2>2, <2>3
<1> QED
  BY <1>3, <1>4, <1>5 DEF AnsweredBeforeArchived

\* its move to failed/,
LEMMA QuarantineKeeps ==
  ASSUME FolderInv, FolderTyped', Quarantine
  PROVE  FolderInv'
<1> USE DEF FolderInv
<1>1. /\ todo # {} /\ work.step \in {"rejected", "crashed"} /\ events' = events /\ outbox' = outbox /\ uploads' = uploads
  BY DEF Quarantine, Working
<1>2. CASE Moved("failed") /\ GoOn("moved") /\ UNCHANGED <<state, todo>>
  <2>1. DoneIsOld' /\ AnsweredBeforeArchived'
    BY <1>1, <1>2, MovedKeeps
  <2>2. Cur \in File /\ Cur \in todo /\ Cur' = Cur
    BY <1>1, <1>2, CurWaits DEF FolderTyped, Cur
  <2>3. /\ dropped'[Cur] = None /\ \A n \in File : n # Cur => dropped'[n] = dropped[n]
        /\ work'.step = "moved" /\ work'.file = work.file /\ work.file # None /\ work.file.parts = Whole
    BY <1>1, <1>2, <2>2 DEF Moved, GoOn, FolderTyped, FolderTypeOK, WorkIsRight
  <2>4. SeenIsPast'
    BY <1>1, <1>2, <2>3 DEF SeenIsPast
  <2>5. TodoIsWhole'
    BY <1>1, <1>2, <2>2, <2>3 DEF TodoIsWhole, FolderTyped, FolderTypeOK
  <2>6. WorkIsRight'
    BY <1>1, <1>2, <2>3 DEF WorkIsRight
  <2> QED
    BY <2>1, <2>3, <2>4, <2>5, <2>6 DEF OnlyWholeFilesAreRead, FolderTyped
<1>3. CASE Dies /\ UNCHANGED <<dropped, done>>
  <2>1. SeenIsPast' /\ TodoIsWhole' /\ WorkIsRight'
    BY <1>1, <1>3, DeathKeeps
  <2>2. DoneIsOld' /\ AnsweredBeforeArchived'
    BY <1>1, <1>3 DEF DoneIsOld, AnsweredBeforeArchived
  <2> QED
    BY <1>3, <2>1, <2>2 DEF Dies, Dead, OnlyWholeFilesAreRead, FolderTyped
<1> QED
  BY <1>2, <1>3 DEF Quarantine

\* the note of the reason,
LEMMA ReasonKeeps ==
  ASSUME FolderInv, FolderTyped', WriteReason
  PROVE  FolderInv'
<1> USE DEF FolderInv
<1>1. /\ todo # {} /\ work.step = "moved" /\ events' = events /\ outbox' = outbox /\ uploads' = uploads
      /\ dropped' = dropped /\ done' = done /\ NextFile
  BY DEF WriteReason, Working
<1>2. SeenIsPast' /\ TodoIsWhole' /\ WorkIsRight'
  BY <1>1, NextFileKeeps
<1>3. DoneIsOld' /\ AnsweredBeforeArchived'
  BY <1>1 DEF DoneIsOld, AnsweredBeforeArchived
<1> QED
  BY <1>1, <1>2, <1>3 DEF NextFile, Idle, OnlyWholeFilesAreRead, FolderTyped

\* An answer that is written is newer than whatever was answered under its name.
LEMMA WrittenKeeps ==
  ASSUME FolderInv, FolderTyped', NEW k \in {"corrected", "report"}, Cur \in File,
         work.file.v = dropped[Cur].v, dropped[Cur] # None,
         outbox' = [outbox EXCEPT ![k][Cur] = work.file.v],
         events' = events, uploads' = uploads, dropped' = dropped, done' = done
  PROVE  DoneIsOld' /\ AnsweredBeforeArchived'
<1> USE DEF FolderInv
<1>1. work.file.v = uploads[Cur] /\ uploads[Cur] \in Nat
  BY DEF SeenIsPast, FolderTyped
<1>2. outbox'[k][Cur] = uploads[Cur]
      /\ \A l \in {"corrected", "report"} : \A n \in File : l # k \/ n # Cur => outbox'[l][n] = outbox[l][n]
  BY <1>1 DEF FolderTyped
<1>3. ASSUME NEW f \in done["processed"]
      PROVE  /\ <<f[1], f[2], "processed">> \in events'
             /\ outbox'["corrected"][f[1]] >= f[2] /\ outbox'["report"][f[1]] >= f[2]
  <2>1. /\ <<f[1], f[2], "processed">> \in events
        /\ outbox["corrected"][f[1]] >= f[2] /\ outbox["report"][f[1]] >= f[2]
    BY DEF AnsweredBeforeArchived
  <2>2. f[1] \in File /\ f[2] <= uploads[f[1]]
    BY DEF DoneIsOld, FolderTyped
  <2>3. f[1] = Cur => uploads[Cur] >= f[2]
    BY <2>2, <1>1 DEF FolderTyped, Version
  <2> QED
    BY <1>2, <2>1, <2>2, <2>3
<1>4. DoneIsOld'
  BY DEF DoneIsOld
<1>5. \A n \in File : \A v \in 1..uploads'[n] :
        \/ dropped'[n] # None /\ dropped'[n].v = v
        \/ <<n, v>> \in done'["processed"] \cup done'["failed"]
  BY DEF AnsweredBeforeArchived
<1> QED
  BY <1>3, <1>4, <1>5 DEF AnsweredBeforeArchived

\* the corrected file,
LEMMA CorrectedKeeps ==
  ASSUME FolderInv, FolderTyped', WriteCorrected
  PROVE  FolderInv'
<1> USE DEF FolderInv
<1>1. /\ todo # {} /\ work.step = "processed" /\ events' = events /\ uploads' = uploads
      /\ dropped' = dropped /\ done' = done
  BY DEF WriteCorrected, Working
<1>2. CASE Cur \in TooLong
  <2>1. Dies /\ outbox' = outbox
    BY <1>2 DEF WriteCorrected
  <2>2. SeenIsPast' /\ TodoIsWhole' /\ WorkIsRight'
    BY <1>1, <2>1, DeathKeeps
  <2>3. DoneIsOld' /\ AnsweredBeforeArchived'
    BY <1>1, <2>1 DEF DoneIsOld, AnsweredBeforeArchived
  <2> QED
    BY <2>1, <2>2, <2>3 DEF Dies, Dead, OnlyWholeFilesAreRead, FolderTyped
<1>3. CASE Cur \notin TooLong
  <2>1. /\ outbox' = [outbox EXCEPT !["corrected"][Cur] = work.file.v]
        /\ GoOn("corrected") /\ state' = state /\ todo' = todo
    BY <1>3 DEF WriteCorrected
  <2>2. /\ SeenIsPast' /\ TodoIsWhole' /\ Cur' = Cur /\ work'.step = "corrected" /\ work'.file = work.file
        /\ work.file # None /\ work.file.parts = Whole /\ work.file.v = dropped[Cur].v
        /\ Cur \in File
    BY <1>1, <2>1, GoOnKeeps
  <2>3. dropped[Cur] # None
    BY <1>1, CurWaits DEF TodoIsWhole, FolderTyped
  <2>4. DoneIsOld' /\ AnsweredBeforeArchived'
    BY <1>1, <2>1, <2>2, <2>3, WrittenKeeps
  <2>5. outbox'["corrected"][Cur] = work.file.v
    BY <2>1, <2>2 DEF FolderTyped
  <2>6. WorkIsRight'
    BY <1>1, <2>1, <2>2, <2>5 DEF WorkIsRight
  <2> QED
    BY <2>2, <2>4, <2>6 DEF OnlyWholeFilesAreRead, FolderTyped
<1> QED
  BY <1>2, <1>3

\* the report,
LEMMA ReportKeeps ==
  ASSUME FolderInv, FolderTyped', WriteReport
  PROVE  FolderInv'
<1> USE DEF FolderInv
<1>1. /\ todo # {} /\ work.step = "corrected" /\ events' = events /\ uploads' = uploads
      /\ dropped' = dropped /\ done' = done /\ outbox' = [outbox EXCEPT !["report"][Cur] = work.file.v]
      /\ GoOn("reported") /\ state' = state /\ todo' = todo
  BY DEF WriteReport, Working
<1>2. /\ SeenIsPast' /\ TodoIsWhole' /\ Cur' = Cur /\ work'.step = "reported" /\ work'.file = work.file
      /\ work.file # None /\ work.file.parts = Whole /\ work.file.v = dropped[Cur].v
      /\ Cur \in File
  BY <1>1, GoOnKeeps
<1>3. dropped[Cur] # None
  BY <1>1, CurWaits DEF TodoIsWhole, FolderTyped
<1>4. DoneIsOld' /\ AnsweredBeforeArchived'
  BY <1>1, <1>2, <1>3, WrittenKeeps
<1>5. outbox'["report"][Cur] = work.file.v /\ outbox'["corrected"][Cur] = outbox["corrected"][Cur]
  BY <1>1, <1>2 DEF FolderTyped
<1>6. WorkIsRight'
  BY <1>1, <1>2, <1>5 DEF WorkIsRight
<1> QED
  BY <1>2, <1>4, <1>6 DEF OnlyWholeFilesAreRead, FolderTyped

\* and the move to processed/.
LEMMA MoveKeeps ==
  ASSUME FolderInv, FolderTyped', MoveToProcessed
  PROVE  FolderInv'
<1> USE DEF FolderInv
<1>1. /\ todo # {} /\ work.step = "reported" /\ events' = events /\ outbox' = outbox /\ uploads' = uploads
  BY DEF MoveToProcessed, Working
<1>2. CASE Moved("processed") /\ NextFile
  <2>1. DoneIsOld' /\ AnsweredBeforeArchived'
    BY <1>1, <1>2, MovedKeeps DEF WorkIsRight
  <2>2. Cur \in File
    BY <1>1, CurWaits DEF FolderTyped
  <2>3. dropped'[Cur] = None /\ \A n \in File : n # Cur => dropped'[n] = dropped[n]
    BY <1>2, <2>2 DEF Moved, FolderTyped, FolderTypeOK
  <2>4. SeenIsPast' /\ TodoIsWhole' /\ WorkIsRight'
    BY <1>1, <1>2, <2>3, NextFileKeeps
  <2> QED
    BY <1>2, <2>1, <2>4 DEF NextFile, Idle, OnlyWholeFilesAreRead, FolderTyped
<1>3. CASE Dies /\ UNCHANGED <<dropped, done>>
  <2>1. SeenIsPast' /\ TodoIsWhole' /\ WorkIsRight'
    BY <1>1, <1>3, DeathKeeps
  <2>2. DoneIsOld' /\ AnsweredBeforeArchived'
    BY <1>1, <1>3 DEF DoneIsOld, AnsweredBeforeArchived
  <2> QED
    BY <1>3, <2>1, <2>2 DEF Dies, Dead, OnlyWholeFilesAreRead, FolderTyped
<1> QED
  BY <1>2, <1>3 DEF MoveToProcessed

\* The process dies and is started again.
LEMMA ProcessKeeps ==
  ASSUME FolderInv, FolderTyped', Crash \/ Restart
  PROVE  FolderInv'
<1> USE DEF FolderInv
<1>1. CASE Crash
  <2>1. SeenIsPast' /\ TodoIsWhole' /\ WorkIsRight'
    BY <1>1, DeathKeeps DEF Crash
  <2>2. DoneIsOld' /\ AnsweredBeforeArchived'
    BY <1>1 DEF Crash, DoneIsOld, AnsweredBeforeArchived
  <2> QED
    BY <1>1, <2>1, <2>2 DEF Crash, Dies, Dead, OnlyWholeFilesAreRead, FolderTyped
<1>2. CASE Restart
  BY <1>2 DEF Restart, Idle, SeenIsPast, TodoIsWhole, WorkIsRight, DoneIsOld, AnsweredBeforeArchived, Cur,
     OnlyWholeFilesAreRead, FolderTyped
<1> QED
  BY <1>1, <1>2

\* Every step keeps the invariant of the folder.
LEMMA FolderStep == ASSUME ~Overwrite PROVE FolderInv /\ [FolderNext]_folderVars => FolderInv'
<1> SUFFICES ASSUME FolderInv, [FolderNext]_folderVars PROVE FolderInv'
  OBVIOUS
<1>1. CASE Partner
  BY <1>1, PartnerKeeps DEF Partner
<1>2. CASE Worker \/ Crash
  <2>1. FolderTyped'
    BY <1>2, WorkerTypes DEF FolderInv
  <2> QED
    BY <1>2, <2>1, PollKeeps, SleepKeeps, ReadKeeps, PipelineKeeps, QuarantineKeeps, ReasonKeeps, CorrectedKeeps,
       ReportKeeps, MoveKeeps, ProcessKeeps DEF Worker
<1>3. CASE UNCHANGED folderVars
  BY <1>3 DEF folderVars, FolderInv, FolderTyped, FolderTypeOK, SeenIsPast, TodoIsWhole, WorkIsRight, DoneIsOld,
     OnlyWholeFilesAreRead, AnsweredBeforeArchived, Cur
<1> QED
  BY <1>1, <1>2, <1>3 DEF FolderNext

\* The inductive invariant: what was seen of a name is past, what waits is whole, and
\* the file in work is the one in the folder.
THEOREM FolderIsSound == ASSUME ~Overwrite PROVE FolderSpec => []FolderInv
BY FolderStarts, FolderStep, PTL DEF FolderSpec

\* If nobody uploads over a file that is there, and no upload pauses as long as a whole
\* file rests, only whole files are read, wherever the worker dies (watch_folder.select_ready).
THEOREM WholeFilesAreRead == ASSUME ~Overwrite PROVE FolderSpec => []OnlyWholeFilesAreRead
BY FolderIsSound, PTL DEF FolderInv

\* Nothing that was dropped is lost, and an original is in processed/ only after its event
\* and both of its answers were written (watch_folder.process_file).
THEOREM AnswersComeFirst == ASSUME ~Overwrite PROVE FolderSpec => []AnsweredBeforeArchived
BY FolderIsSound, PTL DEF FolderInv

-----------------------------------------------------------------------------
(* Folders and answers of partners: types.                                 *)

Match == [state : {"exact", "ambiguous", "unmatched"}, matched : SUBSET (1 .. MaxJobs)]

\* Zero stands for no name, no content, no row and no job.
PollMemory == [names : SUBSET Name, name : Name \cup {0}, text : Content \cup {0}, row : Nat,
               corr : Match, job : 0 .. MaxJobs, hand : BOOLEAN]

\* Places of a poll, of an answer before its row and of one behind it.
Polling   == {"seen", "register", "head", "source", "submit", "record", "failing", "archive"}
Reading   == {"find", "correlate", "insert"}
Answering == {"decide", "repair", "resubmit", "link"}

TablesOK ==
  /\ dir \subseteq came /\ came \subseteq Name
  /\ inbox \in [Content -> InboxRow]
  /\ jobs \in Seq(JobRow) /\ Len(jobs) <= MaxJobs
  /\ resolved \subseteq Job /\ delivered \subseteq Job
  /\ feedback \in Seq(FeedbackRow)
  /\ \A f \in DOMAIN feedback : feedback[f].matched \subseteq Job

Fits(place, l) ==
  /\ place \in Polling => l.text \in Content /\ ~l.hand
  /\ place \in Reading => l.text \in Ack
  /\ place \in Answering => l.row \in DOMAIN feedback /\ (l.hand \/ l.text \in Content)
  /\ place = "insert" => l.corr.matched \subseteq Job
  /\ place \in {"resubmit", "link"} => l.job \in Job

PlacesOK ==
  /\ pc \in [Client -> Places] /\ loc \in [Client -> PollMemory]
  /\ \A c \in Client : Fits(pc[c], loc[c])

Typed == TablesOK /\ PlacesOK

FitsAfter(place, l) ==
  /\ place \in Polling => l.text \in Content /\ ~l.hand
  /\ place \in Reading => l.text \in Ack
  /\ place \in Answering => l.row \in DOMAIN feedback' /\ (l.hand \/ l.text \in Content)
  /\ place = "insert" => l.corr.matched \subseteq Job'
  /\ place \in {"resubmit", "link"} => l.job \in Job'

\* A client at rest fits its place.
LEMMA BlankOK == Blank \in PollMemory /\ "idle" \in Places /\ FitsAfter("idle", Blank)
BY InboxAssumption DEF Blank, PollMemory, NoMatch, Match, Places, FitsAfter, Polling, Reading, Answering

\* A client that took up a file remembers its name and text.
LEMMA BlankOf == ASSUME NEW names \in SUBSET Name, NEW name \in Name, NEW text \in Content
                 PROVE  LET l == [Blank EXCEPT !.names = names, !.name = name, !.text = text]
                        IN  l \in PollMemory /\ l.text = text /\ l.hand = FALSE
<1> DEFINE a == [Blank EXCEPT !.names = names]
           b == [a EXCEPT !.name = name]
           l == [b EXCEPT !.text = text]
<1>1. a \in PollMemory /\ a.hand = FALSE
  BY BlankOK DEF PollMemory, Blank
<1> HIDE DEF a
<1>2. b \in PollMemory /\ b.hand = FALSE
  BY <1>1 DEF PollMemory
<1> HIDE DEF b
<1>3. l \in PollMemory /\ l.hand = FALSE /\ l.text = text
  BY <1>2 DEF PollMemory
<1> USE DEF a, b
<1>4. [Blank EXCEPT !.names = names, !.name = name, !.text = text] = l
  OBVIOUS
<1> HIDE DEF l
<1> QED BY <1>3, <1>4

\* Jobs and feedback are only added, so what a client remembers stays a row.
LEMMA GotoOK ==
  ASSUME PlacesOK, NEW c \in Client, NEW place \in Places, NEW l \in PollMemory, Goto(c, place, l),
         FitsAfter(place, l), Job \subseteq Job', DOMAIN feedback \subseteq DOMAIN feedback'
  PROVE  PlacesOK'
<1>1. pc' \in [Client -> Places] /\ loc' \in [Client -> PollMemory]
  BY BlankOK DEF Goto, PlacesOK
<1>2. ASSUME NEW d \in Client PROVE FitsAfter(pc'[d], loc'[d])
  <2>1. CASE d # c
    <3>1. pc'[d] = pc[d] /\ loc'[d] = loc[d] /\ Fits(pc[d], loc[d])
      BY <2>1 DEF Goto, PlacesOK
    <3>2. FitsAfter(pc[d], loc[d])
      BY <3>1 DEF Fits, FitsAfter
    <3> QED BY <3>1, <3>2
  <2>2. CASE d = c /\ place = "idle"
    BY <2>2, BlankOK DEF Goto, PlacesOK
  <2>3. CASE d = c /\ place # "idle"
    BY <2>3 DEF Goto, PlacesOK
  <2> QED BY <2>1, <2>2, <2>3
<1>3. \A d \in Client : Fits(pc[d], loc[d])'
  BY <1>2 DEF Fits, FitsAfter
<1> QED BY <1>1, <1>3 DEF PlacesOK

\* A client that rests keeps the places typed.
LEMMA GoIdle ==
  ASSUME PlacesOK, NEW c \in Client, NEW l, Goto(c, "idle", l), UNCHANGED <<jobs, feedback>>
  PROVE  PlacesOK'
<1>1. Goto(c, "idle", Blank)
  BY DEF Goto
<1> QED BY <1>1, BlankOK, GotoOK DEF Job

\* The same when neither table grows.
LEMMA GotoPlace ==
  ASSUME Typed, NEW c \in Client, NEW place \in Places, NEW l \in PollMemory, Goto(c, place, l),
         Fits(place, l), UNCHANGED <<jobs, feedback>>
  PROVE  PlacesOK'
<1>1. FitsAfter(place, l) /\ Job' = Job
  BY DEF Fits, FitsAfter, Job
<1> QED BY <1>1, GotoOK DEF Typed

\* The steps of a poll keep the types.
LEMMA PollTypes == ASSUME Typed, NEW c \in Client, Poll(c) PROVE Typed'
<1> USE DEF farVars, jobVars
<1>1. CASE ListInbox(c)
  <2> DEFINE l == [Blank EXCEPT !.names = dir]
  <2>1. l \in PollMemory
    BY BlankOK DEF PollMemory, Typed, TablesOK
  <2>2. Goto(c, "next", l) /\ TablesOK'
    BY <1>1 DEF ListInbox, Typed, TablesOK, Job
  <2>3. "next" \in Places /\ Fits("next", l)
    BY DEF Places, Fits, Polling, Reading, Answering
  <2> QED BY <1>1, <2>1, <2>2, <2>3, GotoPlace DEF ListInbox, Typed
<1>2. CASE Fetch(c)
  <2>1. TablesOK' /\ UNCHANGED <<jobs, feedback>>
    BY <1>2 DEF Fetch, Typed, TablesOK, Job
  <2>2. CASE Goto(c, "idle", Blank)
    BY <2>1, <2>2, GoIdle DEF Typed
  <2>3. CASE ~Goto(c, "idle", Blank)
    <3> DEFINE n == Min(loc[c].names)
               l == [Blank EXCEPT !.names = loc[c].names \ {n}, !.name = n, !.text = ContentOf[n]]
    <3>1. n \in dir /\ Goto(c, "seen", l)
      BY <1>2, <2>3 DEF Fetch
    <3>2. n \in Name /\ ContentOf[n] \in Content /\ loc[c].names \in SUBSET Name
      BY <3>1, InboxAssumption DEF Typed, TablesOK, PlacesOK, PollMemory
    <3> HIDE DEF n
    <3>3. l \in PollMemory /\ l.text = ContentOf[n] /\ l.hand = FALSE
      BY <3>2, BlankOf
    <3> HIDE DEF l
    <3>4. "seen" \in Places /\ Fits("seen", l)
      BY <3>2, <3>3 DEF Places, Fits, Polling, Reading, Answering
    <3> QED BY <2>1, <3>1, <3>3, <3>4, GotoPlace DEF Typed
  <2> QED BY <2>2, <2>3
<1>3. CASE CheckSeen(c) \/ ReadHead(c) \/ RegisterSource(c) \/ Stumble(c) \/ Archive(c) \/ Register(c)
           \/ Record(c) \/ RecordFailure(c)
  <2>1. PICK place \in Places : Goto(c, place, loc[c]) /\ Fits(place, loc[c])
    <3>1. CASE CheckSeen(c) \/ ReadHead(c) \/ RegisterSource(c) \/ Archive(c) \/ Register(c)
               \/ Record(c) \/ RecordFailure(c)
      <4>1. loc[c].text \in Content /\ ~loc[c].hand
        BY <3>1 DEF CheckSeen, ReadHead, RegisterSource, Archive, Register, Record, RecordFailure, At, Typed,
           PlacesOK, Fits, Polling
      <4>2. \A p \in Polling \cup {"next"} : Fits(p, loc[c])
        BY <4>1 DEF Fits, Polling, Reading, Answering
      <4>3. CASE ReadHead(c)
        <5>1. Fits("source", loc[c]) /\ (loc[c].text \in Ack => Fits("find", loc[c]))
          BY <4>2 DEF Fits, Polling, Reading, Answering
        <5> QED BY <4>3, <5>1 DEF ReadHead, Places
      <4>4. CASE CheckSeen(c) \/ RegisterSource(c) \/ Archive(c) \/ Register(c) \/ Record(c) \/ RecordFailure(c)
        <5>1. \E p \in Polling \cup {"next"} : Goto(c, p, loc[c])
          BY <4>4 DEF CheckSeen, RegisterSource, Archive, Register, Record, RecordFailure, Polling
        <5> QED BY <4>2, <5>1 DEF Places, Polling
      <4> QED BY <3>1, <4>3, <4>4
    <3>2. CASE Stumble(c)
      <4>1. loc[c].text \in Content /\ ~loc[c].hand
        BY <3>2, InboxAssumption DEF Stumble, Typed, PlacesOK, Fits, Polling, Reading, Answering
      <4>2. Fits("failing", loc[c])
        BY <4>1 DEF Fits, Polling, Reading, Answering
      <4> QED BY <3>2, <4>2 DEF Stumble, Places
    <3> QED BY <1>3, <3>1, <3>2
  <2>2. UNCHANGED <<jobs, feedback, resolved, delivered>>
    BY <1>3 DEF CheckSeen, ReadHead, RegisterSource, Stumble, Archive, Register, Record, RecordFailure
  <2>3. PlacesOK'
    BY <2>1, <2>2, GotoPlace DEF Typed, PlacesOK
  <2>4. inbox' \in [Content -> InboxRow]
    <3>1. CASE Record(c)
      <4>1. loc[c].text \in Content /\ loc[c].row \in Nat
        BY <3>1 DEF Record, At, Typed, PlacesOK, Fits, Polling, PollMemory
      <4> QED BY <3>1, <4>1 DEF Record, Typed, TablesOK, InboxRow
    <3>2. CASE Register(c) \/ RecordFailure(c)
      <4>1. loc[c].text \in Content
        BY <3>2 DEF Register, RecordFailure, At, Typed, PlacesOK, Fits, Polling
      <4> QED BY <3>2, <4>1, ZenonT(30) DEF Register, RecordFailure, Typed, TablesOK, InboxRow
    <3>3. CASE UNCHANGED inbox
      BY <3>3 DEF Typed, TablesOK
    <3> QED BY <1>3, <3>1, <3>2, <3>3 DEF CheckSeen, ReadHead, RegisterSource, Stumble, Archive
  <2>5. dir' \subseteq came' /\ came' \subseteq Name
    BY <1>3 DEF CheckSeen, ReadHead, RegisterSource, Stumble, Archive, Register, Record, RecordFailure,
       Typed, TablesOK
  <2> QED BY <2>2, <2>3, <2>4, <2>5 DEF Typed, TablesOK, Job
<1>4. CASE Submit(c)
  <2> DEFINE new == [content |-> loc[c].text, asked |-> 0, repairs |-> 0]
  <2>1. loc[c].text \in Content /\ ~loc[c].hand /\ new \in JobRow
    BY <1>4 DEF Submit, At, Typed, PlacesOK, Fits, Polling, JobRow
  <2>2. jobs' = Append(jobs, new) /\ Len(jobs) < MaxJobs /\ Goto(c, "record", loc[c])
    BY <1>4 DEF Submit
  <2> HIDE DEF new
  <2>3. jobs' \in Seq(JobRow) /\ Len(jobs') = Len(jobs) + 1 /\ Len(jobs) \in Nat
    BY <2>1, <2>2 DEF Typed, TablesOK
  <2>4. Job \subseteq Job' /\ Len(jobs') <= MaxJobs
    BY <2>2, <2>3, InboxAssumption DEF Job
  <2>5. TablesOK'
    BY <1>4, <2>3, <2>4 DEF Submit, Typed, TablesOK
  <2>6. FitsAfter("record", loc[c]) /\ "record" \in Places
    BY <2>1 DEF FitsAfter, Polling, Reading, Answering, Places
  <2>7. feedback' = feedback
    BY <1>4 DEF Submit
  <2> QED BY <2>2, <2>4, <2>5, <2>6, <2>7, GotoOK DEF Typed, PlacesOK
<1> QED BY <1>1, <1>2, <1>3, <1>4 DEF Poll

\* A correlation names jobs that exist.
LEMMA CorrelationOK ==
  ASSUME Typed, NEW refs PROVE Correlation(refs) \in Match /\ Correlation(refs).matched \subseteq Job
<1>1. \A r : Rows(r) \subseteq Job
  BY DEF Rows, Carriers, Typed, TablesOK
<1>2. Correlation(refs).matched \subseteq Job
  BY <1>1 DEF Correlation
<1>3. Job \subseteq 1 .. MaxJobs
  BY InboxAssumption DEF Job, Typed, TablesOK
<1>4. Correlation(refs).state \in {"exact", "ambiguous", "unmatched"}
  BY DEF Correlation
<1>5. Correlation(refs) = [state |-> Correlation(refs).state, matched |-> Correlation(refs).matched]
  BY DEF Correlation
<1> QED BY <1>2, <1>3, <1>4, <1>5 DEF Match

\* Changing one field of a memory leaves it a memory.
LEMMA RowSet == ASSUME NEW l \in PollMemory, NEW f \in Nat
                PROVE  [l EXCEPT !.row = f] \in PollMemory /\ [l EXCEPT !.row = f].row = f
                       /\ [l EXCEPT !.row = f].hand = l.hand /\ [l EXCEPT !.row = f].text = l.text
BY DEF PollMemory

\* The steps on an acknowledgement keep the types.
LEMMA AnswerTypes == ASSUME Typed, NEW c \in Client, Answer(c) PROVE Typed'
<1> USE DEF farVars, jobVars
<1>0. loc[c] \in PollMemory /\ pc[c] \in Places /\ Fits(pc[c], loc[c])
  BY DEF Typed, PlacesOK
<1>1. CASE FindFeedback(c)
  <2>1. TablesOK' /\ UNCHANGED <<jobs, feedback>>
    BY <1>1 DEF FindFeedback, Typed, TablesOK, Job
  <2>2. loc[c].text \in Ack
    BY <1>0, <1>1 DEF FindFeedback, At, Fits, Reading
  <2>3. CASE Goto(c, "correlate", loc[c])
    <3>1. Fits("correlate", loc[c]) /\ "correlate" \in Places
      BY <2>2 DEF Fits, Polling, Reading, Answering, Places
    <3> QED BY <1>0, <2>1, <2>3, <3>1, GotoPlace DEF Typed
  <2>4. CASE ~Goto(c, "correlate", loc[c])
    <3>1. PICK f \in DOMAIN feedback : Goto(c, "decide", [loc[c] EXCEPT !.row = f])
      BY <1>1, <2>4 DEF FindFeedback
    <3> DEFINE l == [loc[c] EXCEPT !.row = f]
    <3>2. l \in PollMemory /\ l.row = f /\ l.text = loc[c].text
      <4>1. f \in Nat
        BY <3>1 DEF Typed, TablesOK
      <4> QED BY <1>0, <4>1, RowSet
    <3> HIDE DEF l
    <3>3. Fits("decide", l) /\ "decide" \in Places
      BY <2>2, <3>2, InboxAssumption DEF Fits, Polling, Reading, Answering, Places
    <3>4. Goto(c, "decide", l)
      BY <3>1 DEF l
    <3> QED BY <2>1, <3>2, <3>3, <3>4, GotoPlace DEF Typed
  <2> QED BY <2>3, <2>4
<1>2. CASE Correlate(c)
  <2> DEFINE m == Correlation(RefsOf[loc[c].text])
             l == [loc[c] EXCEPT !.corr = m]
  <2>1. m \in Match /\ m.matched \subseteq Job
    BY CorrelationOK
  <2>2. Goto(c, "insert", l) /\ loc[c].text \in Ack
    BY <1>0, <1>2 DEF Correlate, At, Fits, Reading
  <2> HIDE DEF m
  <2>3. l \in PollMemory /\ l.corr = m /\ l.text = loc[c].text
    BY <1>0, <2>1 DEF PollMemory
  <2> HIDE DEF l
  <2>4. Fits("insert", l) /\ "insert" \in Places
    BY <2>1, <2>2, <2>3 DEF Fits, Polling, Reading, Answering, Places
  <2>5. TablesOK' /\ UNCHANGED <<jobs, feedback>>
    BY <1>2 DEF Correlate, Typed, TablesOK, Job
  <2> QED BY <2>2, <2>3, <2>4, <2>5, GotoPlace DEF Typed
<1>3. CASE InsertFeedback(c)
  <2> DEFINE new == [text |-> loc[c].text, state |-> loc[c].corr.state,
                     matched |-> loc[c].corr.matched, repair |-> 0]
             a == [loc[c] EXCEPT !.row = Len(feedback) + 1]
             l == [a EXCEPT !.corr = NoMatch]
  <2>1. loc[c].text \in Ack /\ loc[c].corr \in Match /\ loc[c].corr.matched \subseteq Job
    BY <1>0, <1>3 DEF InsertFeedback, At, Fits, Reading, PollMemory
  <2>2. new \in FeedbackRow /\ new.matched \subseteq Job
    BY <2>1, InboxAssumption DEF FeedbackRow, Match
  <2>3. feedback' = Append(feedback, new) /\ jobs' = jobs
    BY <1>3 DEF InsertFeedback
  <2> HIDE DEF new
  <2>4. /\ feedback' \in Seq(FeedbackRow) /\ Len(feedback) \in Nat
        /\ DOMAIN feedback' = DOMAIN feedback \cup {Len(feedback) + 1}
        /\ \A f \in DOMAIN feedback : feedback'[f] = feedback[f]
        /\ feedback'[Len(feedback) + 1] = new
    BY <2>2, <2>3 DEF Typed, TablesOK
  <2>5. TablesOK'
    BY <1>3, <2>2, <2>3, <2>4 DEF InsertFeedback, Typed, TablesOK, Job
  <2>6. a \in PollMemory /\ a.row = Len(feedback) + 1 /\ a.text = loc[c].text
    <3>1. Len(feedback) + 1 \in Nat
      BY <2>4
    <3> QED BY <1>0, <3>1, RowSet
  <2> HIDE DEF a
  <2>7. l \in PollMemory /\ l.row = Len(feedback) + 1 /\ l.text = loc[c].text
    BY <2>6 DEF PollMemory, NoMatch, Match
  <2>8. Goto(c, "decide", l)
    BY <1>3 DEF InsertFeedback, a
  <2> HIDE DEF l
  <2>9. FitsAfter("decide", l) /\ "decide" \in Places
    BY <2>1, <2>4, <2>7, InboxAssumption DEF FitsAfter, Polling, Reading, Answering, Places
  <2> QED BY <2>3, <2>4, <2>5, <2>7, <2>8, <2>9, GotoOK DEF Typed, Job
<1>4. CASE Decide(c)
  <2>1. loc[c].row \in DOMAIN feedback /\ (loc[c].hand \/ loc[c].text \in Content)
    BY <1>0, <1>4 DEF Decide, At, Fits, Answering
  <2>2. TablesOK' /\ UNCHANGED <<jobs, feedback>>
    BY <1>4 DEF Decide, Typed, TablesOK, Job
  <2>3. CASE Goto(c, "idle", loc[c])
    BY <2>2, <2>3, GoIdle DEF Typed
  <2>4. CASE Goto(c, "repair", loc[c])
    <3>1. Fits("repair", loc[c]) /\ "repair" \in Places
      BY <2>1 DEF Fits, Polling, Reading, Answering, Places
    <3> QED BY <1>0, <2>2, <2>4, <3>1, GotoPlace DEF Typed
  <2>5. CASE ~loc[c].hand /\ Goto(c, "record", loc[c])
    <3>1. Fits("record", loc[c]) /\ "record" \in Places
      BY <2>1, <2>5 DEF Fits, Polling, Reading, Answering, Places
    <3> QED BY <1>0, <2>2, <2>5, <3>1, GotoPlace DEF Typed
  <2> QED BY <1>4, <2>3, <2>4, <2>5 DEF Decide
<1>5. CASE CheckRepair(c)
  <2>1. loc[c].row \in DOMAIN feedback /\ (loc[c].hand \/ loc[c].text \in Content)
    BY <1>0, <1>5 DEF CheckRepair, At, Fits, Answering
  <2>2. TablesOK' /\ UNCHANGED <<jobs, feedback>>
    BY <1>5 DEF CheckRepair, Typed, TablesOK, Job
  <2>3. CASE Goto(c, "idle", loc[c])
    BY <2>2, <2>3, GoIdle DEF Typed
  <2>4. CASE ~loc[c].hand /\ Goto(c, "record", loc[c])
    <3>1. Fits("record", loc[c]) /\ "record" \in Places
      BY <2>1, <2>4 DEF Fits, Polling, Reading, Answering, Places
    <3> QED BY <1>0, <2>2, <2>4, <3>1, GotoPlace DEF Typed
  <2>5. CASE \E j \in feedback[loc[c].row].matched : Goto(c, "resubmit", [loc[c] EXCEPT !.job = j])
    <3>1. PICK j \in feedback[loc[c].row].matched : Goto(c, "resubmit", [loc[c] EXCEPT !.job = j])
      BY <2>5
    <3>2. j \in Job /\ j \in 0 .. MaxJobs
      BY <2>1, <3>1, InboxAssumption DEF Typed, TablesOK, Job
    <3> DEFINE l == [loc[c] EXCEPT !.job = j]
    <3>3. l \in PollMemory /\ l.job = j /\ l.row = loc[c].row /\ l.hand = loc[c].hand /\ l.text = loc[c].text
      BY <1>0, <3>2 DEF PollMemory
    <3>4. Goto(c, "resubmit", l)
      BY <3>1
    <3> HIDE DEF l
    <3>5. Fits("resubmit", l) /\ "resubmit" \in Places
      BY <2>1, <3>2, <3>3 DEF Fits, Polling, Reading, Answering, Places
    <3> QED BY <2>2, <3>3, <3>4, <3>5, GotoPlace DEF Typed
  <2> QED BY <1>5, <2>3, <2>4, <2>5 DEF CheckRepair, After
<1>6. CASE Resubmit(c)
  <2> DEFINE before == jobs[loc[c].job]
             new == [content |-> before.content, asked |-> loc[c].row, repairs |-> 0]
             l == [loc[c] EXCEPT !.job = Len(jobs) + 1]
  <2>1. /\ loc[c].row \in DOMAIN feedback /\ (loc[c].hand \/ loc[c].text \in Content)
        /\ loc[c].job \in Job
    BY <1>0, <1>6 DEF Resubmit, At, Fits, Answering
  <2>2. before \in JobRow /\ loc[c].row \in Nat
    BY <1>0, <2>1 DEF Typed, TablesOK, Job, PollMemory
  <2> HIDE DEF before
  <2>3. new \in JobRow
    BY <2>2 DEF JobRow
  <2>4. jobs' = Append(jobs, new) /\ Len(jobs) < MaxJobs /\ Goto(c, "link", l) /\ feedback' = feedback
    BY <1>6 DEF Resubmit, before
  <2> HIDE DEF new
  <2>5. jobs' \in Seq(JobRow) /\ Len(jobs') = Len(jobs) + 1 /\ Len(jobs) \in Nat
    BY <2>3, <2>4 DEF Typed, TablesOK
  <2>6. Job \subseteq Job' /\ Len(jobs') <= MaxJobs /\ Len(jobs) + 1 \in Job'
    BY <2>4, <2>5, InboxAssumption DEF Job
  <2>7. TablesOK'
    BY <1>6, <2>5, <2>6 DEF Resubmit, Typed, TablesOK
  <2>8. l \in PollMemory /\ l.job = Len(jobs) + 1 /\ l.row = loc[c].row /\ l.hand = loc[c].hand
        /\ l.text = loc[c].text
    <3> DEFINE k == Len(jobs) + 1
    <3>1. k \in 0 .. MaxJobs
      BY <2>4, <2>5, InboxAssumption
    <3> HIDE DEF k
    <3>2. /\ [loc[c] EXCEPT !.job = k] \in PollMemory /\ [loc[c] EXCEPT !.job = k].job = k
          /\ [loc[c] EXCEPT !.job = k].row = loc[c].row /\ [loc[c] EXCEPT !.job = k].hand = loc[c].hand
          /\ [loc[c] EXCEPT !.job = k].text = loc[c].text
      BY <1>0, <3>1 DEF PollMemory
    <3> QED BY <3>2 DEF k
  <2> HIDE DEF l
  <2>9. FitsAfter("link", l) /\ "link" \in Places
    BY <2>1, <2>4, <2>6, <2>8 DEF FitsAfter, Polling, Reading, Answering, Places
  <2> QED BY <2>4, <2>6, <2>7, <2>8, <2>9, GotoOK DEF Typed
<1>7. CASE Link(c)
  <2> DEFINE r == loc[c].row
             j == loc[c].job
  <2>1. r \in DOMAIN feedback /\ (loc[c].hand \/ loc[c].text \in Content) /\ j \in Job
    BY <1>0, <1>7 DEF Link, At, Fits, Answering
  <2>2. r \in Nat /\ j \in 0 .. MaxJobs
    BY <1>0 DEF PollMemory
  <2>3. jobs' = [jobs EXCEPT ![j].repairs = r] /\ feedback' = [feedback EXCEPT ![r].repair = j]
    BY <1>7 DEF Link
  <2>4. Goto(c, "idle", loc[c]) \/ (~loc[c].hand /\ Goto(c, "record", loc[c]))
    BY <1>7 DEF Link, After
  <2>5. [jobs[j] EXCEPT !.repairs = r] \in JobRow
    <3>1. jobs[j] \in JobRow
      BY <2>1 DEF Typed, TablesOK, Job
    <3> HIDE DEF r, j
    <3> QED BY <2>2, <3>1 DEF JobRow
  <2>6. jobs' \in Seq(JobRow) /\ Len(jobs') = Len(jobs)
    BY <2>1, <2>3, <2>5, ExceptSeq, LenProperties DEF Typed, TablesOK, Job
  <2>7. [feedback[r] EXCEPT !.repair = j] \in FeedbackRow
    <3>1. feedback[r] \in FeedbackRow
      BY <2>1 DEF Typed, TablesOK
    <3> HIDE DEF r, j
    <3> QED BY <2>2, <3>1 DEF FeedbackRow
  <2>8. feedback' \in Seq(FeedbackRow) /\ DOMAIN feedback' = DOMAIN feedback
    BY <2>1, <2>3, <2>7 DEF Typed, TablesOK
  <2>9. \A f \in DOMAIN feedback : feedback'[f].matched = feedback[f].matched
    <3>1. [feedback[r] EXCEPT !.repair = j].matched = feedback[r].matched
      BY <2>1 DEF Typed, TablesOK, FeedbackRow
    <3> QED BY <2>1, <2>3, <3>1
  <2>10. TablesOK' /\ Job' = Job
    BY <1>7, <2>6, <2>8, <2>9 DEF Link, Typed, TablesOK, Job
  <2>11. CASE Goto(c, "idle", loc[c])
    <3>1. Goto(c, "idle", Blank)
      BY <2>11 DEF Goto
    <3> QED BY <2>8, <2>10, <3>1, BlankOK, GotoOK DEF Typed
  <2>12. CASE ~loc[c].hand /\ Goto(c, "record", loc[c])
    <3>1. FitsAfter("record", loc[c]) /\ "record" \in Places
      BY <2>1, <2>12 DEF FitsAfter, Polling, Reading, Answering, Places
    <3> QED BY <1>0, <2>8, <2>10, <2>12, <3>1, GotoOK DEF Typed
  <2> QED BY <2>4, <2>11, <2>12
<1> QED BY <1>1, <1>2, <1>3, <1>4, <1>5, <1>6, <1>7 DEF Answer

\* Every step keeps the types.
LEMMA TypedStep == ASSUME Typed, [Next]_vars PROVE Typed'
<1> USE DEF farVars, jobVars, clientVars
<1>1. ASSUME NEW n \in Name, Drop(n) PROVE Typed'
  <2>1. TablesOK' /\ UNCHANGED <<pc, loc, jobs, feedback>>
    BY <1>1 DEF Drop, Typed, TablesOK, Job
  <2> QED BY <2>1 DEF Typed, PlacesOK, Fits, Job
<1>2. ASSUME NEW c \in Poller, Poll(c) PROVE Typed'
  BY <1>2, PollTypes DEF Client
<1>3. ASSUME NEW c \in Desk, PostFeedback(c) \/ AskRepair(c) PROVE Typed'
  <2>1. TablesOK' /\ UNCHANGED <<jobs, feedback>>
    BY <1>3 DEF PostFeedback, AskRepair, Typed, TablesOK, Job
  <2>2. CASE PostFeedback(c)
    <3>1. PICK t \in Ack : Goto(c, "find", [Blank EXCEPT !.text = t, !.hand = TRUE])
      BY <2>2 DEF PostFeedback
    <3> DEFINE l == [Blank EXCEPT !.text = t, !.hand = TRUE]
    <3>2. l \in PollMemory /\ l.text = t
      BY InboxAssumption, BlankOK DEF Blank, PollMemory
    <3>3. Fits("find", l) /\ "find" \in Places
      BY <3>2 DEF Fits, Polling, Reading, Answering, Places
    <3> QED BY <2>1, <3>1, <3>2, <3>3, GotoPlace DEF Typed, Client
  <2>3. CASE AskRepair(c)
    <3>1. PICK f \in DOMAIN feedback : Goto(c, "repair", [Blank EXCEPT !.row = f, !.hand = TRUE])
      BY <2>3 DEF AskRepair
    <3>2. f \in Nat
      BY <3>1 DEF Typed, TablesOK
    <3> DEFINE l == [Blank EXCEPT !.row = f, !.hand = TRUE]
    <3>3. l \in PollMemory /\ l.row = f /\ l.hand = TRUE
      BY <3>2, BlankOK DEF Blank, PollMemory
    <3>4. Fits("repair", l) /\ "repair" \in Places
      BY <3>1, <3>3 DEF Fits, Polling, Reading, Answering, Places
    <3> QED BY <2>1, <3>1, <3>3, <3>4, GotoPlace DEF Typed, Client
  <2> QED BY <1>3, <2>2, <2>3
<1>4. ASSUME NEW c \in Client, Answer(c) PROVE Typed'
  BY <1>4, AnswerTypes
<1>5. ASSUME NEW c \in Client, GiveUp(c) PROVE Typed'
  <2>1. TablesOK' /\ UNCHANGED <<jobs, feedback>> /\ Goto(c, "idle", Blank)
    BY <1>5 DEF GiveUp, Typed, TablesOK, Job
  <2> QED BY <2>1, GoIdle DEF Typed
<1>6. CASE Progress
  <2>1. UNCHANGED <<came, dir, inbox, jobs, feedback, pc, loc>>
    BY <1>6 DEF Progress
  <2>2. resolved' \subseteq Job /\ delivered' \subseteq Job
    BY <1>6 DEF Progress, Typed, TablesOK
  <2> QED BY <2>1, <2>2 DEF Typed, TablesOK, PlacesOK, Fits, Job
<1>7. CASE UNCHANGED vars
  BY <1>7 DEF vars, Typed, TablesOK, PlacesOK, Fits, Job
<1> QED BY <1>1, <1>2, <1>3, <1>4, <1>5, <1>6, <1>7 DEF Next

\* They hold at first.
LEMMA TypedInit == Init => Typed
<1> SUFFICES ASSUME Init PROVE Typed
  OBVIOUS
<1>1. TablesOK
  BY InboxAssumption DEF Init, TablesOK, InboxRow, Job
<1>2. pc = [c \in Client |-> "idle"] /\ loc = [c \in Client |-> Blank]
  BY DEF Init
<1>3. Fits("idle", Blank)
  BY DEF Fits, Polling, Reading, Answering
<1> QED BY <1>1, <1>2, <1>3, BlankOK DEF Typed, PlacesOK

\* The tables, and what a client holds where it stands, keep their types: every
\* row a client remembers across its steps is there when it comes back to it.
THEOREM TypeCorrect == Spec => []TypeOK
<1>1. Typed => TypeOK
  BY DEF Typed, TablesOK, PlacesOK, TypeOK, Job
<1> QED BY TypedInit, TypedStep, <1>1, PTL DEF Spec

-----------------------------------------------------------------------------
(* One content, one job.                                                   *)

\* Between its row in inbox_files and its job, a poll owns a content.
Owning == {"head", "source", "submit"}

Unfed(d) == \A j \in Job : ~(jobs[j].content = d /\ jobs[j].asked = 0)

Single ==
  /\ \A c \in Client : pc[c] \in Owning =>
       /\ inbox[loc[c].text].state # "none" /\ Unfed(loc[c].text)
       /\ \A e \in Client : pc[e] \in Owning /\ loc[e].text = loc[c].text => e = c
  /\ \A d \in Content : inbox[d].state = "none" => Unfed(d)
  /\ \A i, j \in Job :
       jobs[i].asked = 0 /\ jobs[j].asked = 0 /\ jobs[i].content = jobs[j].content => i = j

UnfedAfter(d) == \A j \in Job' : ~(jobs'[j].content = d /\ jobs'[j].asked = 0)

\* The invariant in the next state, written out.
LEMMA SingleAfter ==
  ASSUME \A e \in Client : pc'[e] \in Owning =>
           /\ inbox'[loc'[e].text].state # "none" /\ UnfedAfter(loc'[e].text)
           /\ \A f \in Client : pc'[f] \in Owning /\ loc'[f].text = loc'[e].text => f = e,
         \A o \in Content : inbox'[o].state = "none" => UnfedAfter(o),
         \A i, j \in Job' :
           jobs'[i].asked = 0 /\ jobs'[j].asked = 0 /\ jobs'[i].content = jobs'[j].content => i = j
  PROVE  Single'
BY DEF Single, Unfed, UnfedAfter, Owning

\* A step that adds no job, frees no content and gives none a new owner.
LEMMA QuietStep ==
  ASSUME Typed, Single, Len(jobs') = Len(jobs),
         \A j \in Job : jobs'[j].content = jobs[j].content /\ jobs'[j].asked = jobs[j].asked,
         \A d \in Content : inbox'[d].state = "none" => inbox[d].state = "none",
         \A e \in Client : pc'[e] \in Owning => pc[e] \in Owning /\ loc'[e].text = loc[e].text
  PROVE  Single'
<1>1. Job' = Job
  BY DEF Job
<1>2. \A d : Unfed(d) => UnfedAfter(d)
  BY <1>1 DEF Unfed, UnfedAfter
<1>3. \A c \in Client : pc[c] \in Owning => loc[c].text \in Content
  BY DEF Owning, Typed, PlacesOK, Fits, Polling
<1>4. ASSUME NEW c \in Client, pc'[c] \in Owning
      PROVE  /\ inbox'[loc'[c].text].state # "none" /\ UnfedAfter(loc'[c].text)
             /\ \A e \in Client : pc'[e] \in Owning /\ loc'[e].text = loc'[c].text => e = c
  BY <1>2, <1>3, <1>4 DEF Single
<1>5. \A d \in Content : inbox'[d].state = "none" => UnfedAfter(d)
  BY <1>2 DEF Single
<1>6. \A i, j \in Job' :
        jobs'[i].asked = 0 /\ jobs'[j].asked = 0 /\ jobs'[i].content = jobs'[j].content => i = j
  BY <1>1 DEF Single
<1> QED BY <1>4, <1>5, <1>6, SingleAfter

\* Every step keeps one job to a content.
LEMMA SingleStep == ASSUME Typed, Typed', Single, [Next]_vars PROVE Single'
<1> USE DEF farVars, jobVars, clientVars
<1>0. \A c \in Client : pc[c] \in Owning \cup {"register"} => loc[c].text \in Content
  BY DEF Owning, Typed, PlacesOK, Fits, Polling
<1>1. ASSUME NEW c \in Poller, Register(c) PROVE Single'
  <2> DEFINE d == loc[c].text
  <2>1. d \in Content /\ c \in Client
    BY <1>0, <1>1 DEF Register, At, Client
  <2>2. /\ inbox[d].state = "none" /\ jobs' = jobs
        /\ pc' = [pc EXCEPT ![c] = "head"] /\ loc'[c] = loc[c]
        /\ \A e \in Client \ {c} : pc'[e] = pc[e] /\ loc'[e] = loc[e]
    BY <1>1, <2>1 DEF Register, Goto, Typed, PlacesOK
  <2>3. inbox' = [inbox EXCEPT ![d].state = "registered"]
    BY <1>1 DEF Register
  <2>4. /\ inbox'[d].state # "none"
        /\ \A o \in Content \ {d} : inbox'[o] = inbox[o]
    BY <2>1, <2>3 DEF Typed, TablesOK, InboxRow
  <2>5. Unfed(d) /\ \A e \in Client : pc[e] \in Owning => loc[e].text # d
    BY <2>1, <2>2 DEF Single
  <2>6. \A o : UnfedAfter(o) = Unfed(o)
    BY <2>2 DEF Unfed, UnfedAfter, Job
  <2>7. ASSUME NEW e \in Client, pc'[e] \in Owning
        PROVE  /\ inbox'[loc'[e].text].state # "none" /\ UnfedAfter(loc'[e].text)
               /\ \A f \in Client : pc'[f] \in Owning /\ loc'[f].text = loc'[e].text => f = e
    <3>1. CASE e = c
      BY <2>2, <2>4, <2>5, <2>6, <3>1
    <3>2. CASE e # c
      <4>1. pc[e] \in Owning /\ loc'[e] = loc[e] /\ loc[e].text # d /\ loc[e].text \in Content
        BY <1>0, <2>2, <2>5, <2>7, <3>2
      <4> QED BY <2>2, <2>4, <2>6, <4>1 DEF Single
    <3> QED BY <3>1, <3>2
  <2>8. \A o \in Content : inbox'[o].state = "none" => UnfedAfter(o)
    BY <2>4, <2>6 DEF Single
  <2>9. \A i, j \in Job' :
          jobs'[i].asked = 0 /\ jobs'[j].asked = 0 /\ jobs'[i].content = jobs'[j].content => i = j
    BY <2>2 DEF Single, Job
  <2> QED BY <2>7, <2>8, <2>9, SingleAfter
<1>2. ASSUME NEW c \in Poller, Submit(c) PROVE Single'
  <2> DEFINE d == loc[c].text
             new == [content |-> d, asked |-> 0, repairs |-> 0]
             k == Len(jobs) + 1
  <2>1. d \in Content /\ c \in Client /\ pc[c] \in Owning
    BY <1>0, <1>2 DEF Submit, At, Client, Owning
  <2>2. jobs' = Append(jobs, new) /\ inbox' = inbox
    BY <1>2 DEF Submit
  <2>3. /\ Job' = Job \cup {k} /\ k \notin Job /\ jobs'[k] = new
        /\ \A j \in Job : jobs'[j] = jobs[j]
    BY <2>2 DEF Typed, TablesOK, Job
  <2>4. /\ pc'[c] \notin Owning
        /\ \A e \in Client \ {c} : pc'[e] = pc[e] /\ loc'[e] = loc[e]
    BY <1>2, <2>1 DEF Submit, Goto, Typed, PlacesOK, Owning
  <2>5. inbox[d].state # "none" /\ Unfed(d)
    BY <2>1 DEF Single
  <2>6. \A o : o # d /\ Unfed(o) => UnfedAfter(o)
    BY <2>3 DEF Unfed, UnfedAfter
  <2>7. ASSUME NEW e \in Client, pc'[e] \in Owning
        PROVE  /\ inbox'[loc'[e].text].state # "none" /\ UnfedAfter(loc'[e].text)
               /\ \A f \in Client : pc'[f] \in Owning /\ loc'[f].text = loc'[e].text => f = e
    <3>1. pc[e] \in Owning /\ loc'[e] = loc[e] /\ loc[e].text # d
      BY <2>1, <2>4, <2>7 DEF Single
    <3> QED BY <2>2, <2>4, <2>6, <3>1 DEF Single
  <2>8. \A o \in Content : inbox'[o].state = "none" => UnfedAfter(o)
    BY <2>2, <2>5, <2>6 DEF Single
  <2>9. ASSUME NEW i \in Job', NEW j \in Job', jobs'[i].asked = 0, jobs'[j].asked = 0,
               jobs'[i].content = jobs'[j].content
        PROVE  i = j
    <3>1. \A o \in Job : jobs'[o].asked = 0 => jobs'[o].content # d
      BY <2>3, <2>5 DEF Unfed, UnfedAfter
    <3>2. jobs'[k].content = d
      BY <2>3
    <3> HIDE DEF d, k
    <3> QED BY <2>3, <2>9, <3>1, <3>2 DEF Single
  <2> QED BY <2>7, <2>8, <2>9, SingleAfter
<1>3. ASSUME NEW c \in Client, Resubmit(c) PROVE Single'
  <2> DEFINE new == [content |-> jobs[loc[c].job].content, asked |-> loc[c].row, repairs |-> 0]
             k == Len(jobs) + 1
  <2>1. loc[c].row \in DOMAIN feedback
    BY <1>3 DEF Resubmit, At, Typed, PlacesOK, Fits, Answering
  <2>2. new.asked # 0
    BY <2>1 DEF Typed, TablesOK
  <2>3. jobs' = Append(jobs, new) /\ inbox' = inbox
    BY <1>3 DEF Resubmit
  <2> HIDE DEF new
  <2>4. /\ Job' = Job \cup {k} /\ jobs'[k] = new
        /\ \A j \in Job : jobs'[j] = jobs[j]
    BY <2>3 DEF Typed, TablesOK, Job
  <2>5. /\ pc'[c] \notin Owning
        /\ \A e \in Client \ {c} : pc'[e] = pc[e] /\ loc'[e] = loc[e]
    BY <1>3 DEF Resubmit, Goto, Typed, PlacesOK, Owning
  <2>6. \A o : Unfed(o) => UnfedAfter(o)
    BY <2>2, <2>4 DEF Unfed, UnfedAfter
  <2>7. \A e \in Client : pc'[e] \in Owning => pc[e] \in Owning /\ loc'[e] = loc[e]
    BY <2>5
  <2>8. \A e \in Client : pc'[e] \in Owning =>
          /\ inbox'[loc'[e].text].state # "none" /\ UnfedAfter(loc'[e].text)
          /\ \A f \in Client : pc'[f] \in Owning /\ loc'[f].text = loc'[e].text => f = e
    BY <2>3, <2>6, <2>7 DEF Single
  <2>9. \A o \in Content : inbox'[o].state = "none" => UnfedAfter(o)
    BY <2>3, <2>6 DEF Single
  <2>10. \A i, j \in Job' :
           jobs'[i].asked = 0 /\ jobs'[j].asked = 0 /\ jobs'[i].content = jobs'[j].content => i = j
    <3> HIDE DEF k
    <3> QED BY <2>2, <2>4 DEF Single
  <2> QED BY <2>8, <2>9, <2>10, SingleAfter
<1>4. ASSUME NEW c \in Client,
             \/ Poll(c) /\ ~Register(c) /\ ~Submit(c)
             \/ c \in Desk /\ (PostFeedback(c) \/ AskRepair(c))
             \/ Answer(c) /\ ~Resubmit(c)
             \/ GiveUp(c)
      PROVE Single'
  <2>1. Len(jobs') = Len(jobs)
        /\ \A j \in Job : jobs'[j].content = jobs[j].content /\ jobs'[j].asked = jobs[j].asked
    <3>1. CASE jobs' = jobs
      BY <3>1
    <3>2. CASE Link(c)
      <4>1. jobs' = [jobs EXCEPT ![loc[c].job].repairs = loc[c].row]
        BY <3>2 DEF Link
      <4>2. Len(jobs') = Len(jobs)
        BY <4>1, ExceptSeq, LenProperties DEF Typed, TablesOK
      <4>3. ASSUME NEW j \in Job
            PROVE  jobs'[j].content = jobs[j].content /\ jobs'[j].asked = jobs[j].asked
        <5>1. jobs[j] \in JobRow /\ j \in DOMAIN jobs
          BY DEF Typed, TablesOK, Job
        <5> QED BY <4>1, <5>1 DEF JobRow
      <4> QED BY <4>2, <4>3
    <3> QED
      BY <1>4, <3>1, <3>2 DEF Poll, Answer, ListInbox, Fetch, CheckSeen, ReadHead, RegisterSource, Record,
         Stumble, RecordFailure, Archive, PostFeedback, AskRepair, FindFeedback, Correlate,
         InsertFeedback, Decide, CheckRepair, GiveUp
  <2>2. \A d \in Content : inbox'[d].state = "none" => inbox[d].state = "none"
    <3>1. CASE inbox' = inbox
      BY <3>1
    <3>2. CASE Record(c) \/ RecordFailure(c)
      <4>1. loc[c].text \in Content
        BY <3>2 DEF Record, RecordFailure, At, Typed, PlacesOK, Fits, Polling
      <4>2. inbox'[loc[c].text].state # "none"
        BY <3>2, <4>1 DEF Record, RecordFailure, Typed, TablesOK, InboxRow
      <4>3. \A d \in Content \ {loc[c].text} : inbox'[d] = inbox[d]
        BY <3>2, <4>1 DEF Record, RecordFailure, Typed, TablesOK
      <4> QED BY <4>2, <4>3
    <3> QED
      BY <1>4, <3>1, <3>2 DEF Poll, Answer, ListInbox, Fetch, CheckSeen, ReadHead, RegisterSource,
         Stumble, Archive, PostFeedback, AskRepair, FindFeedback, Correlate,
         InsertFeedback, Decide, CheckRepair, GiveUp, Link
  <2>3. \A e \in Client : pc'[e] \in Owning => pc[e] \in Owning /\ loc'[e].text = loc[e].text
    <3>1. \A e \in Client \ {c} : pc'[e] = pc[e] /\ loc'[e] = loc[e]
      BY <1>4 DEF Poll, Answer, ListInbox, Fetch, CheckSeen, ReadHead, RegisterSource, Record,
         Stumble, RecordFailure, Archive, PostFeedback, AskRepair, FindFeedback, Correlate,
         InsertFeedback, Decide, CheckRepair, GiveUp, Link, Goto, Typed, PlacesOK
    <3>2. CASE ReadHead(c) \/ RegisterSource(c)
      BY <3>1, <3>2 DEF ReadHead, RegisterSource, At, Goto, Typed, PlacesOK, Owning
    <3>3. CASE ~ReadHead(c) /\ ~RegisterSource(c)
      <4>1. pc'[c] \notin Owning
        BY <1>4, <3>3 DEF Poll, Answer, ListInbox, Fetch, CheckSeen, Record,
           Stumble, RecordFailure, Archive, PostFeedback, AskRepair, FindFeedback, Correlate,
           InsertFeedback, Decide, CheckRepair, GiveUp, Link, After, Goto, Typed, PlacesOK, Owning
      <4> QED BY <3>1, <4>1
    <3> QED BY <3>2, <3>3
  <2> QED BY <2>1, <2>2, <2>3, QuietStep
<1>5. CASE Progress \/ (\E n \in Name : Drop(n)) \/ UNCHANGED vars
  <2>1. UNCHANGED <<inbox, jobs, pc, loc>>
    BY <1>5 DEF Progress, Drop, vars
  <2> QED BY <2>1 DEF Single, Unfed, Job
<1> QED BY <1>1, <1>2, <1>3, <1>4, <1>5 DEF Next, Client, Poll, Answer

\* There is none at first.
LEMMA SingleInit == Init => Single
BY DEF Init, Single, Unfed, Job, Owning

\* One content in the inbox is one job (poll_connection): the row that is unique
\* makes one poll its owner, and only an owner that has made none makes a job of it.
THEOREM OneContentOneJob == Spec => []OneJobPerFile
<1>1. Single => OneJobPerFile
  <2> SUFFICES ASSUME Single, NEW d \in Content PROVE Cardinality(Fed(d)) <= 1
    BY DEF OneJobPerFile
  <2>1. CASE Fed(d) = {}
    BY <2>1, FS_EmptySet
  <2>2. CASE Fed(d) # {}
    <3>1. PICK j : j \in Fed(d)
      BY <2>2
    <3>2. \A i \in Fed(d) : i = j
      BY <3>1 DEF Fed, Single
    <3>3. Fed(d) = {j}
      BY <3>1, <3>2
    <3>4. Cardinality({j}) = 1
      BY FS_Singleton
    <3>5. Cardinality(Fed(d)) = 1
      BY <3>3, <3>4
    <3> QED BY <3>5
  <2> QED BY <2>1, <2>2
<1> QED BY TypedInit, TypedStep, SingleInit, SingleStep, <1>1, PTL DEF Spec

-----------------------------------------------------------------------------
(* A rejection has its repair.                                             *)

\* Job j was asked for by feedback f and repairs the one job f was matched to.
Mends(f, j) ==
  /\ Repairable(f) /\ jobs[j].asked = f
  /\ \E of \in Job : feedback[f].matched = {of} /\ jobs[j].content = jobs[of].content

\* Feedback f may be recorded as done with.
Settled(f) == f \in DOMAIN feedback /\ (Repairable(f) => feedback[f].repair # 0)

RowsLinked ==
  \A f \in DOMAIN feedback :
    LET j == feedback[f].repair IN j # 0 => j \in Job /\ Mends(f, j) /\ jobs[j].repairs = f

\* What a client relies on where it stands.
Relies(place, l) ==
  /\ place \in {"source", "submit"} => l.text \notin Ack
  /\ place = "resubmit" => Repairable(l.row) /\ feedback[l.row].matched = {l.job}
  /\ place = "link" => Mends(l.row, l.job)
  /\ place = "record" /\ l.text \in Ack => Settled(l.row)

Recorded == \A d \in Ack : inbox[d].state = "feedback_recorded" => Settled(inbox[d].feedback)

Linked == RowsLinked /\ Recorded /\ \A c \in Client : Relies(pc[c], loc[c])

\* The same after a step.
RepairableAfter(f) == Verdict[feedback'[f].text] = "rejected" /\ feedback'[f].state = "exact"

MendsAfter(f, j) ==
  /\ RepairableAfter(f) /\ jobs'[j].asked = f
  /\ \E of \in Job' : feedback'[f].matched = {of} /\ jobs'[j].content = jobs'[of].content

SettledAfter(f) == f \in DOMAIN feedback' /\ (RepairableAfter(f) => feedback'[f].repair # 0)

ReliesAfter(place, l) ==
  /\ place \in {"source", "submit"} => l.text \notin Ack
  /\ place = "resubmit" => RepairableAfter(l.row) /\ feedback'[l.row].matched = {l.job}
  /\ place = "link" => MendsAfter(l.row, l.job)
  /\ place = "record" /\ l.text \in Ack => SettledAfter(l.row)

\* The invariant in the next state, written out.
LEMMA LinkedAfter ==
  ASSUME \A f \in DOMAIN feedback' :
           feedback'[f].repair # 0 =>
             /\ feedback'[f].repair \in Job' /\ MendsAfter(f, feedback'[f].repair)
             /\ jobs'[feedback'[f].repair].repairs = f,
         \A d \in Ack : inbox'[d].state = "feedback_recorded" => SettledAfter(inbox'[d].feedback),
         \A c \in Client : ReliesAfter(pc'[c], loc'[c])
  PROVE  Linked'
<1>1. RowsLinked'
  BY DEF RowsLinked, Mends, MendsAfter, Repairable, RepairableAfter
<1>2. Recorded'
  BY DEF Recorded, Settled, SettledAfter, Repairable, RepairableAfter
<1>3. \A c \in Client : Relies(pc[c], loc[c])'
  BY DEF Relies, ReliesAfter, Mends, MendsAfter, Settled, SettledAfter, Repairable, RepairableAfter
<1> QED BY <1>1, <1>2, <1>3 DEF Linked

\* What no step takes back: what a job is and was asked for, what feedback says
\* and was matched to, and that it has a repair.
Kept ==
  /\ \A j \in Job : /\ j \in Job' /\ jobs'[j].content = jobs[j].content /\ jobs'[j].asked = jobs[j].asked
                    /\ jobs'[j].repairs \in {jobs[j].repairs, jobs[j].asked}
  /\ \A f \in DOMAIN feedback :
       /\ f \in DOMAIN feedback' /\ feedback'[f].text = feedback[f].text
       /\ feedback'[f].state = feedback[f].state /\ feedback'[f].matched = feedback[f].matched
       /\ feedback[f].repair # 0 => feedback'[f].repair # 0

\* Feedback and repairs that are linked stay so.
LEMMA KeptStep == ASSUME Typed, Linked, [Next]_vars PROVE Kept
<1> USE DEF farVars, jobVars, clientVars
<1>1. ASSUME NEW c \in Client, Resubmit(c) \/ Submit(c) PROVE Kept
  <2>1. feedback' = feedback /\ \E new : jobs' = Append(jobs, new)
    BY <1>1 DEF Resubmit, Submit
  <2>2. \A j \in Job : j \in Job' /\ jobs'[j] = jobs[j]
    BY <2>1 DEF Typed, TablesOK, Job
  <2> QED BY <2>1, <2>2 DEF Kept
<1>2. ASSUME NEW c \in Client, InsertFeedback(c) PROVE Kept
  <2>1. jobs' = jobs /\ \E new : feedback' = Append(feedback, new)
    BY <1>2 DEF InsertFeedback
  <2>2. \A f \in DOMAIN feedback : f \in DOMAIN feedback' /\ feedback'[f] = feedback[f]
    BY <2>1 DEF Typed, TablesOK
  <2> QED BY <2>1, <2>2 DEF Kept, Job
<1>3. ASSUME NEW c \in Client, Link(c) PROVE Kept
  <2> DEFINE r == loc[c].row
             k == loc[c].job
  <2>1. r \in DOMAIN feedback /\ k \in Job /\ jobs[k].asked = r
    <3>1. pc[c] = "link" /\ Fits(pc[c], loc[c]) /\ Relies(pc[c], loc[c])
      BY <1>3 DEF Link, At, Typed, PlacesOK, Linked
    <3> QED BY <3>1 DEF Fits, Answering, Relies, Mends
  <2>2. jobs' = [jobs EXCEPT ![k].repairs = r] /\ feedback' = [feedback EXCEPT ![r].repair = k]
    BY <1>3 DEF Link
  <2>3. k # 0
    BY <2>1 DEF Job
  <2>4. Len(jobs') = Len(jobs)
    BY <2>2, ExceptSeq, LenProperties DEF Typed, TablesOK
  <2> HIDE DEF r, k
  <2>5. ASSUME NEW j \in Job
        PROVE  /\ j \in Job' /\ jobs'[j].content = jobs[j].content /\ jobs'[j].asked = jobs[j].asked
               /\ jobs'[j].repairs \in {jobs[j].repairs, jobs[j].asked}
    <3>1. jobs[j] \in JobRow /\ j \in DOMAIN jobs
      BY DEF Typed, TablesOK, Job
    <3> QED BY <2>1, <2>2, <2>4, <3>1 DEF JobRow, Job
  <2>6. ASSUME NEW f \in DOMAIN feedback
        PROVE  /\ f \in DOMAIN feedback' /\ feedback'[f].text = feedback[f].text
               /\ feedback'[f].state = feedback[f].state /\ feedback'[f].matched = feedback[f].matched
               /\ feedback[f].repair # 0 => feedback'[f].repair # 0
    <3>1. feedback[f] \in FeedbackRow
      BY DEF Typed, TablesOK
    <3> QED BY <2>1, <2>2, <2>3, <3>1 DEF FeedbackRow
  <2> QED BY <2>5, <2>6 DEF Kept
<1>4. CASE UNCHANGED <<jobs, feedback>>
  BY <1>4 DEF Kept, Job
<1> QED
  BY <1>1, <1>2, <1>3, <1>4 DEF Next, Poll, Answer, Drop, Progress, vars, ListInbox, Fetch, CheckSeen,
     Register, ReadHead, RegisterSource, Record, Stumble, RecordFailure, Archive, PostFeedback,
     AskRepair, FindFeedback, Correlate, Decide, CheckRepair, GiveUp, Client

\* What stays of feedback and repairs.
LEMMA KeptMeans ==
  ASSUME Kept, NEW f \in DOMAIN feedback
  PROVE  /\ RepairableAfter(f) <=> Repairable(f)
         /\ \A j \in Job : Mends(f, j) => MendsAfter(f, j)
         /\ Settled(f) => SettledAfter(f)
BY DEF Kept, RepairableAfter, Repairable, Mends, MendsAfter, Settled, SettledAfter

\* What a client relies on stays while others act.
LEMMA ReliesKept ==
  ASSUME Kept, NEW place, NEW l, Fits(place, l), Relies(place, l)
  PROVE  ReliesAfter(place, l)
<1>1. place \in {"resubmit", "link"} => l.row \in DOMAIN feedback /\ l.job \in Job
  BY DEF Fits, Answering
<1>2. place \in {"source", "submit"} => l.text \notin Ack
  BY DEF Relies
<1>3. place = "resubmit" => RepairableAfter(l.row) /\ feedback'[l.row].matched = {l.job}
  BY <1>1, KeptMeans DEF Relies, Kept
<1>4. place = "link" => MendsAfter(l.row, l.job)
  BY <1>1, KeptMeans DEF Relies
<1>5. place = "record" /\ l.text \in Ack => SettledAfter(l.row)
  BY KeptMeans DEF Relies, Settled
<1> QED BY <1>2, <1>3, <1>4, <1>5 DEF ReliesAfter

\* Every step keeps the rows linked both ways.
LEMMA RowsStep ==
  ASSUME Typed, Linked, [Next]_vars, NEW f \in DOMAIN feedback', feedback'[f].repair # 0
  PROVE  /\ feedback'[f].repair \in Job' /\ MendsAfter(f, feedback'[f].repair)
         /\ jobs'[feedback'[f].repair].repairs = f
<1>0. Kept
  BY KeptStep
<1>1. CASE f \in DOMAIN feedback /\ feedback'[f] = feedback[f]
  <2> DEFINE j == feedback[f].repair
  <2>1. j \in Job /\ Mends(f, j) /\ jobs[j].repairs = f /\ jobs[j].asked = f
    BY <1>1 DEF Linked, RowsLinked, Mends
  <2>2. j \in Job' /\ MendsAfter(f, j)
    BY <1>0, <1>1, <2>1, KeptMeans DEF Kept
  <2>3. jobs'[j].repairs = f
    BY <1>0, <2>1 DEF Kept
  <2> QED BY <1>1, <2>2, <2>3
<1>2. ASSUME NEW c \in Client, InsertFeedback(c), ~(f \in DOMAIN feedback /\ feedback'[f] = feedback[f])
      PROVE  FALSE
  <2> DEFINE new == [text |-> loc[c].text, state |-> loc[c].corr.state,
                     matched |-> loc[c].corr.matched, repair |-> 0]
  <2>1. feedback' = Append(feedback, new) /\ new.repair = 0
    BY <1>2 DEF InsertFeedback
  <2> HIDE DEF new
  <2>2. /\ DOMAIN feedback' = DOMAIN feedback \cup {Len(feedback) + 1}
        /\ feedback'[Len(feedback) + 1] = new
        /\ \A g \in DOMAIN feedback : feedback'[g] = feedback[g]
    BY <2>1 DEF Typed, TablesOK
  <2> QED BY <1>2, <2>1, <2>2
<1>3. ASSUME NEW c \in Client, Link(c), ~(f \in DOMAIN feedback /\ feedback'[f] = feedback[f])
      PROVE  /\ feedback'[f].repair \in Job' /\ MendsAfter(f, feedback'[f].repair)
             /\ jobs'[feedback'[f].repair].repairs = f
  <2> DEFINE r == loc[c].row
             k == loc[c].job
  <2>1. r \in DOMAIN feedback /\ k \in Job /\ Mends(r, k)
    <3>1. pc[c] = "link" /\ Fits(pc[c], loc[c]) /\ Relies(pc[c], loc[c])
      BY <1>3 DEF Link, At, Typed, PlacesOK, Linked
    <3> QED BY <3>1 DEF Fits, Answering, Relies
  <2>2. jobs' = [jobs EXCEPT ![k].repairs = r] /\ feedback' = [feedback EXCEPT ![r].repair = k]
    BY <1>3 DEF Link
  <2>3. k \in Job' /\ MendsAfter(r, k)
    BY <1>0, <2>1, KeptMeans DEF Kept
  <2> HIDE DEF r, k
  <2>4. f = r
    BY <1>3, <2>2 DEF Typed, TablesOK
  <2>5. feedback[r] \in FeedbackRow /\ jobs[k] \in JobRow /\ k \in DOMAIN jobs
    BY <2>1 DEF Typed, TablesOK, Job
  <2>6. feedback'[r].repair = k
    BY <2>1, <2>2, <2>5 DEF FeedbackRow
  <2>7. jobs'[k].repairs = r
    BY <2>1, <2>2, <2>5 DEF JobRow
  <2> QED BY <2>3, <2>4, <2>6, <2>7
<1>4. CASE feedback' = feedback
  BY <1>1, <1>4
<1> QED
  BY <1>1, <1>2, <1>3, <1>4 DEF Next, Poll, Answer, Drop, Progress, vars, ListInbox, Fetch, CheckSeen, Submit,
     Register, ReadHead, RegisterSource, Record, Stumble, RecordFailure, Archive, PostFeedback,
     AskRepair, FindFeedback, Correlate, Decide, CheckRepair, Resubmit, GiveUp, Client

\* Every step keeps what is recorded settled.
LEMMA RecordedStep ==
  ASSUME Typed, Linked, [Next]_vars, NEW d \in Ack, inbox'[d].state = "feedback_recorded"
  PROVE  SettledAfter(inbox'[d].feedback)
<1>0. Kept /\ d \in Content
  BY KeptStep, InboxAssumption
<1>1. CASE inbox'[d] = inbox[d]
  <2>1. Settled(inbox[d].feedback)
    BY <1>1 DEF Linked, Recorded
  <2> QED BY <1>0, <1>1, <2>1, KeptMeans DEF Settled
<1>2. ASSUME NEW c \in Client, Record(c) PROVE SettledAfter(inbox'[d].feedback)
  <2>1. /\ pc[c] = "record" /\ loc[c].text \in Content /\ Relies("record", loc[c])
        /\ loc[c].text = d => Settled(loc[c].row)
    BY <1>2 DEF Record, At, Typed, PlacesOK, Fits, Polling, Linked, Relies
  <2>2. loc[c].text = d => inbox'[d].feedback = loc[c].row
    BY <1>0, <1>2 DEF Record, Typed, TablesOK
  <2>3. loc[c].text # d => inbox'[d] = inbox[d]
    BY <1>0, <1>2 DEF Record, Typed, TablesOK
  <2>4. loc[c].text = d => SettledAfter(loc[c].row)
    BY <1>0, <2>1, KeptMeans DEF Settled
  <2> QED BY <1>1, <2>2, <2>3, <2>4
<1>3. ASSUME NEW c \in Client, Register(c) \/ RecordFailure(c) PROVE inbox'[d] = inbox[d]
  <2>1. loc[c].text \in Content
    BY <1>3 DEF Register, RecordFailure, At, Typed, PlacesOK, Fits, Polling
  <2> QED BY <1>0, <1>3, <2>1 DEF Register, RecordFailure, Typed, TablesOK, InboxRow
<1>4. CASE inbox' = inbox
  BY <1>1, <1>4
<1> QED
  BY <1>1, <1>2, <1>3, <1>4 DEF Next, Poll, Answer, Drop, Progress, vars, ListInbox, Fetch, CheckSeen, Submit,
     ReadHead, RegisterSource, Stumble, Archive, PostFeedback, InsertFeedback, Link,
     AskRepair, FindFeedback, Correlate, Decide, CheckRepair, Resubmit, GiveUp, Client

\* A client that goes to a place where it relies on nothing.
Carefree == Places \ {"source", "submit", "resubmit", "link", "record"}

\* The client that acts has what it relies on next.
LEMMA ClientStep ==
  ASSUME Typed, Linked, Kept, NEW c \in Client,
         Poll(c) \/ PostFeedback(c) \/ AskRepair(c) \/ Answer(c) \/ GiveUp(c)
  PROVE  ReliesAfter(pc'[c], loc'[c])
<1> USE DEF farVars, jobVars, clientVars
<1>0. Fits(pc[c], loc[c]) /\ Relies(pc[c], loc[c]) /\ loc[c] \in PollMemory /\ pc[c] \in Places
  BY DEF Typed, PlacesOK, Linked
<1>1. \A place \in Places : \A l : Goto(c, place, l) =>
        pc'[c] = place /\ loc'[c] = IF place = "idle" THEN Blank ELSE l
  BY DEF Goto, Typed, PlacesOK
<1>2. ASSUME pc'[c] \in Carefree PROVE ReliesAfter(pc'[c], loc'[c])
  BY <1>2 DEF ReliesAfter, Carefree
<1>3. CASE ReadHead(c) \/ RegisterSource(c)
  <2>1. PICK place \in {"find", "source", "submit"} :
          Goto(c, place, loc[c]) /\ (place # "find" => loc[c].text \notin Ack)
    BY <1>0, <1>3 DEF ReadHead, RegisterSource, At, Relies
  <2>2. pc'[c] = place /\ loc'[c] = loc[c]
    BY <1>1, <2>1 DEF Places
  <2> QED BY <2>1, <2>2 DEF ReliesAfter
<1>4. CASE Submit(c)
  <2>1. loc[c].text \notin Ack /\ Goto(c, "record", loc[c])
    BY <1>0, <1>4 DEF Submit, At, Relies
  <2>2. pc'[c] = "record" /\ loc'[c] = loc[c]
    BY <1>1, <2>1 DEF Places
  <2> QED BY <2>1, <2>2 DEF ReliesAfter
<1>5. CASE Decide(c) \/ (CheckRepair(c) /\ feedback[loc[c].row].repair # 0)
  <2>1. PICK place \in {"idle", "repair", "record"} :
          Goto(c, place, loc[c]) /\ (place = "record" => Settled(loc[c].row))
    <3>1. loc[c].row \in DOMAIN feedback
      BY <1>0, <1>5 DEF Decide, CheckRepair, At, Fits, Answering
    <3>2. CASE Decide(c)
      BY <3>1, <3>2 DEF Decide, Settled
    <3>3. CASE CheckRepair(c) /\ feedback[loc[c].row].repair # 0
      BY <3>1, <3>3 DEF CheckRepair, After, Settled
    <3> QED BY <1>5, <3>2, <3>3
  <2>2. pc'[c] = place /\ (place = "record" => loc'[c] = loc[c])
    BY <1>1, <2>1 DEF Places
  <2>3. place = "record" => SettledAfter(loc[c].row)
    BY <2>1, KeptMeans DEF Settled
  <2> QED BY <2>2, <2>3 DEF ReliesAfter
<1>6. CASE CheckRepair(c) /\ feedback[loc[c].row].repair = 0
  <2>1. /\ Repairable(loc[c].row) /\ loc[c].row \in DOMAIN feedback
        /\ \E j \in feedback[loc[c].row].matched :
             feedback[loc[c].row].matched = {j} /\ Goto(c, "resubmit", [loc[c] EXCEPT !.job = j])
    BY <1>0, <1>6 DEF CheckRepair, At, Fits, Answering
  <2>2. PICK j : feedback[loc[c].row].matched = {j} /\ Goto(c, "resubmit", [loc[c] EXCEPT !.job = j])
    BY <2>1
  <2>3. [loc[c] EXCEPT !.job = j].job = j /\ [loc[c] EXCEPT !.job = j].row = loc[c].row
    BY <1>0 DEF PollMemory
  <2>4. pc'[c] = "resubmit" /\ loc'[c].job = j /\ loc'[c].row = loc[c].row
    BY <1>1, <2>2, <2>3 DEF Places
  <2>5. RepairableAfter(loc[c].row) /\ feedback'[loc[c].row].matched = {j}
    BY <2>1, <2>2, KeptMeans DEF Kept
  <2> QED BY <2>4, <2>5 DEF ReliesAfter
<1>7. CASE Resubmit(c)
  <2> DEFINE r == loc[c].row
             of == loc[c].job
             k == Len(jobs) + 1
             new == [content |-> jobs[of].content, asked |-> r, repairs |-> 0]
             l == [loc[c] EXCEPT !.job = k]
  <2>1. r \in DOMAIN feedback /\ of \in Job /\ Repairable(r) /\ feedback[r].matched = {of}
    BY <1>0, <1>7 DEF Resubmit, At, Fits, Answering, Relies
  <2>2. jobs' = Append(jobs, new) /\ Goto(c, "link", l)
    BY <1>7 DEF Resubmit
  <2>3. jobs'[k] = new /\ of \in Job' /\ jobs'[of] = jobs[of]
    BY <2>1, <2>2 DEF Typed, TablesOK, Job
  <2>4. MendsAfter(r, k)
    <3>1. RepairableAfter(r) /\ feedback'[r].matched = {of}
      BY <2>1, KeptMeans DEF Kept
    <3>2. jobs'[k].asked = r /\ jobs'[k].content = jobs'[of].content
      BY <2>3
    <3> HIDE DEF r, of, k
    <3> QED BY <2>3, <3>1, <3>2 DEF MendsAfter
  <2>5. l.row = r /\ l.job = k
    BY <1>0 DEF PollMemory
  <2>6. pc'[c] = "link" /\ loc'[c] = l
    BY <1>1, <2>2 DEF Places
  <2> HIDE DEF r, k, l
  <2> QED BY <2>4, <2>5, <2>6 DEF ReliesAfter
<1>8. CASE Link(c)
  <2> DEFINE r == loc[c].row
             k == loc[c].job
  <2>1. r \in DOMAIN feedback /\ k \in Job
    BY <1>0, <1>8 DEF Link, At, Fits, Answering
  <2>2. feedback' = [feedback EXCEPT ![r].repair = k] /\ (Goto(c, "idle", loc[c]) \/ Goto(c, "record", loc[c]))
    BY <1>8 DEF Link, After
  <2>3. feedback[r] \in FeedbackRow /\ k # 0
    BY <2>1 DEF Typed, TablesOK, Job
  <2>4. (pc'[c] = "record" /\ loc'[c] = loc[c]) \/ pc'[c] = "idle"
    BY <1>1, <2>2 DEF Places
  <2>5. SettledAfter(r)
    <3> HIDE DEF r, k
    <3>1. feedback'[r].repair = k /\ r \in DOMAIN feedback'
      BY <2>1, <2>2, <2>3 DEF FeedbackRow
    <3> QED BY <2>3, <3>1 DEF SettledAfter
  <2> QED BY <2>4, <2>5 DEF ReliesAfter
<1>9. CASE /\ ~ReadHead(c) /\ ~RegisterSource(c) /\ ~Submit(c) /\ ~Decide(c) /\ ~CheckRepair(c)
           /\ ~Resubmit(c) /\ ~Link(c)
  <2>1. \E place \in Carefree : \E l : Goto(c, place, l)
    BY <1>9 DEF Poll, Answer, ListInbox, Fetch, CheckSeen, Register, Record, Stumble, RecordFailure,
       Archive, PostFeedback, AskRepair, FindFeedback, Correlate, InsertFeedback, GiveUp,
       Carefree, Places
  <2>2. PICK place \in Carefree : \E l : Goto(c, place, l)
    BY <2>1
  <2>3. pc'[c] = place
    BY <1>1, <2>2 DEF Carefree
  <2> QED BY <1>2, <2>3
<1>10. Decide(c) \/ CheckRepair(c) => ReliesAfter(pc'[c], loc'[c])
  BY <1>5, <1>6
<1> QED BY <1>3, <1>4, <1>7, <1>8, <1>9, <1>10

\* Every step keeps feedback and repairs linked.
LEMMA LinkedStep == ASSUME Typed, Linked, [Next]_vars PROVE Linked'
<1>1. Kept
  BY KeptStep
<1>2. ASSUME NEW e \in Client PROVE ReliesAfter(pc'[e], loc'[e])
  <2>1. ASSUME pc'[e] = pc[e], loc'[e] = loc[e] PROVE ReliesAfter(pc'[e], loc'[e])
    BY <1>1, <2>1, ReliesKept DEF Typed, PlacesOK, Linked
  <2>2. CASE Poll(e) \/ PostFeedback(e) \/ AskRepair(e) \/ Answer(e) \/ GiveUp(e)
    BY <1>1, <2>2, ClientStep
  <2>3. ASSUME NEW c \in Client, c # e,
               Poll(c) \/ PostFeedback(c) \/ AskRepair(c) \/ Answer(c) \/ GiveUp(c)
        PROVE  ReliesAfter(pc'[e], loc'[e])
    <3>1. \E place, l : Goto(c, place, l)
      BY <2>3 DEF Poll, Answer, ListInbox, Fetch, CheckSeen, Register, ReadHead, RegisterSource, Submit,
         Record, Stumble, RecordFailure, Archive, PostFeedback, AskRepair, FindFeedback, Correlate,
         InsertFeedback, Decide, CheckRepair, Resubmit, Link, GiveUp
    <3>2. pc'[e] = pc[e] /\ loc'[e] = loc[e]
      BY <2>3, <3>1 DEF Goto, Typed, PlacesOK
    <3> QED BY <2>1, <3>2
  <2>4. CASE Progress \/ (\E n \in Name : Drop(n)) \/ UNCHANGED vars
    BY <2>1, <2>4 DEF Progress, Drop, vars, clientVars
  <2> QED BY <2>2, <2>3, <2>4 DEF Next, Client
<1> QED BY <1>2, RowsStep, RecordedStep, LinkedAfter

\* There are none at first.
LEMMA LinkedInit == Init => Linked
BY InboxAssumption DEF Init, Linked, RowsLinked, Recorded, Relies, Settled

\* A repair that feedback names was asked for it and is linked back to it, and
\* an acknowledgment is recorded only behind the repair it calls for (start_repair,
\* poll_connection), whichever polls and requests run together or die half way.
THEOREM RepairsAreLinked == Spec => []RejectionsAreRepaired
<1>1. Typed /\ Linked => RejectionsAreRepaired
  BY DEF Typed, TablesOK, Linked, RowsLinked, Recorded, Mends, Settled, RejectionsAreRepaired
<1> QED BY TypedInit, TypedStep, LinkedInit, LinkedStep, <1>1, PTL DEF Spec
=============================================================================
