------------------------------ MODULE Artifacts ------------------------------
(***************************************************************************)
(* Building the corrected file of a job (workspace/export.py) from the     *)
(* decisions of module Review.  The approval is checked, the edits are     *)
(* read, the file is renamed into place and the row made ready in separate *)
(* steps; decisions, re-analyses and other builds come in between.  The    *)
(* exceptions and ledger files and free disk space are left out.           *)
(***************************************************************************)
EXTENDS Review

CONSTANTS
  Key,      \* idempotency keys; one names at most one artifact
  KeysOf,   \* the keys a client may give
  Group     \* record and identifier of an observation: equal ones are linked

ASSUME ArtifactsAssumption ==
  /\ KeysOf \in [Client -> SUBSET Key]
  /\ DOMAIN Group = Ordinal
  /\ None \notin Approval

VARIABLES
  art,    \* export_artifacts
  disk,   \* the corrected file that was renamed into place
  part    \* the builds that have the .part file of an artifact open

buildVars == <<art, disk, part>>
vars == <<reviewVars, clientVars, buildVars>>

Edit == Ordinal \X Cand

\* approval is the column; by is the approval the manifest names.
NoArtifact == [state |-> "none", approval |-> None, by |-> None, edits |-> {}]
Mixed == {<<>>}        \* what two writers of one file leave

ArtRow == [state : {"none", "building", "ready", "failed", "superseded"},
           approval : Approval \cup {None}, by : Approval \cup {None}, edits : SUBSET Edit]

Places == {"idle", "version", "lookup", "fingerprint", "insert", "decide", "stale", "bump",
           "read", "write", "check", "drift", "linked", "begin", "edits", "rename", "publish",
           "failing"}

TypeOK ==
  /\ job \in {"awaiting_review", "exporting", "completed"}
  /\ analysis \in Version
  /\ \A o \in Ordinal : obs[o] \in ObsRow
  /\ cs \in [Version -> Proposals \cup {None}]
  /\ \A a \in Approval : AprRow(apr[a])
  /\ pc \in [Client -> Places]
  /\ \A c \in Client : loc[c].request \in {"none", "decide", "reanalyze", "build"}
  /\ art \in [Key -> ArtRow]
  /\ \A k \in Key : disk[k] \in {None, Mixed} \cup SUBSET Edit
  /\ part \in [Key -> SUBSET Client]

InitArtifacts ==
  /\ Init
  /\ art = [k \in Key |-> NoArtifact]
  /\ disk = [k \in Key |-> None]
  /\ part = [k \in Key |-> {}]

-----------------------------------------------------------------------------
\* The row of this key, or that there is none, and the state of the job.
BeginBuild(c, k, a) ==
  /\ pc[c] = "idle"
  /\ k \in KeysOf[c]
  /\ art[k].state # "ready"
  /\ job \in {"awaiting_review", "completed"}
  /\ a # None => apr[a].state # "none"
  /\ Goto(c, IF a = None THEN "version" ELSE "check",
          [request |-> "build", key |-> k, approval |-> a, existing |-> art[k].state # "none",
           stale |-> FALSE, agreed |-> None, edits |-> {}, ver |-> 0, fp |-> None,
           next |-> IF a = None THEN "begin" ELSE "drift"])
  /\ UNCHANGED <<reviewVars, buildVars>>

\* check_approval reads the approval, ensures the change set and counts the
\* members whose version moved.
CheckApproval(c) ==
  /\ pc[c] = "check"
  /\ LET a == apr[loc[c].approval] IN
       Goto(c, "version", [loc[c] EXCEPT !.stale = a.state = "stale", !.agreed = a.fp])
  /\ UNCHANGED <<reviewVars, buildVars>>

Drifted(a) == {o \in DOMAIN apr[a].members : obs[o].version # apr[a].members[o]}

CheckDrift(c) ==
  /\ pc[c] = "drift"
  /\ ~loc[c].stale
  /\ loc[c].fp = loc[c].agreed
  /\ Drifted(loc[c].approval) = {}
  /\ Goto(c, "linked", [loc[c] EXCEPT !.agreed = None, !.fp = None])
  /\ UNCHANGED <<reviewVars, buildVars>>

\* Mutant of Covered: the members of a selection, whatever became of them.
CoveredAnyhow(a) ==
  {o \in DOMAIN apr[a].members : obs[o].cand # None}

\* The members of a selection that are approved in the version it froze.
Covered(a) ==
  {o \in DOMAIN apr[a].members :
     obs[o].decision = "approved" /\ obs[o].version = apr[a].members[o] /\ obs[o].cand # None}

\* linked_edit_violations: a group is covered completely or not at all.
CheckLinked(c) ==
  /\ pc[c] = "linked"
  /\ \A o, p \in {q \in Ordinal : obs[q].cand # None} :
       Group[o] = Group[p] /\ o \in Covered(loc[c].approval) => p \in Covered(loc[c].approval)
  /\ Goto(c, "version", [loc[c] EXCEPT !.next = "begin"])
  /\ UNCHANGED <<reviewVars, buildVars>>

\* The key is unique: an INSERT after somebody else's fails.  An existing row
\* keeps the approval of its first build.
BeginWriting(c) ==
  /\ pc[c] = "begin"
  /\ LET k == loc[c].key IN
       /\ ~loc[c].existing => art[k].state = "none"
       /\ art' = [art EXCEPT ![k].state = "building",
                             ![k].approval = IF loc[c].existing THEN @ ELSE loc[c].approval]
  /\ job' = "exporting"
  /\ Goto(c, "edits", [loc[c] EXCEPT !.existing = FALSE, !.fp = None])
  /\ UNCHANGED <<analysis, obs, cs, apr, disk, part>>

\* _edits is one SELECT, read while the .part file is written.
ReadEdits(c) ==
  /\ pc[c] = "edits"
  /\ LET a == loc[c].approval
         edits == IF a = None THEN {} ELSE {<<o, obs[o].cand>> : o \in Covered(a)}
     IN  Goto(c, "rename", [loc[c] EXCEPT !.edits = edits])
  /\ part' = [part EXCEPT ![loc[c].key] = @ \cup {c}]
  /\ UNCHANGED <<reviewVars, art, disk>>

\* Mutant of Rename: a file that is there already is kept.
RenameIfAbsent(c) ==
  /\ pc[c] = "rename"
  /\ Goto(c, "publish", loc[c])
  /\ disk' = [disk EXCEPT ![loc[c].key] = IF @ = None THEN loc[c].edits ELSE @]
  /\ part' = [part EXCEPT ![loc[c].key] = {}]
  /\ UNCHANGED <<reviewVars, art>>

\* os.replace: without a .part file, which another build renamed, it fails.
Rename(c) ==
  /\ pc[c] = "rename"
  /\ LET k == loc[c].key IN
       IF part[k] = {}
       THEN Goto(c, "failing", loc[c]) /\ UNCHANGED <<disk, part>>
       ELSE /\ Goto(c, "publish", loc[c])
            /\ disk' = [disk EXCEPT ![k] = IF part[k] = {c} THEN loc[c].edits ELSE Mixed]
            /\ part' = [part EXCEPT ![k] = {}]
  /\ UNCHANGED <<reviewVars, art>>

\* The row of k, with every other ready artifact of the job superseded.
Superseding(k, row) ==
  [i \in Key |-> IF i = k THEN row
                 ELSE IF art[i].state = "ready" THEN [art[i] EXCEPT !.state = "superseded"]
                 ELSE art[i]]

MakeReady(c) ==
  /\ pc[c] = "publish"
  /\ LET k == loc[c].key IN
       art' = Superseding(k, [art[k] EXCEPT !.state = "ready", !.by = loc[c].approval,
                                            !.edits = loc[c].edits])
  /\ job' = "completed"
  /\ Goto(c, "idle", Blank)
  /\ UNCHANGED <<analysis, obs, cs, apr, disk, part>>

\* Any exception while the outputs are written: a source that differs, a full
\* disk, overlapping edits.
StartFailing(c) ==
  /\ pc[c] \in {"edits", "rename"}
  /\ Goto(c, "failing", loc[c])
  /\ part' = [part EXCEPT ![loc[c].key] = @ \ {c}]
  /\ UNCHANGED <<reviewVars, art, disk>>

FailBuild(c) ==
  /\ pc[c] = "failing"
  /\ art' = [art EXCEPT ![loc[c].key].state = "failed"]
  /\ job' = "awaiting_review"
  /\ Goto(c, "idle", Blank)
  /\ UNCHANGED <<analysis, obs, cs, apr, disk, part>>

\* The process dies; a .part file it had open is truncated by the next build.
CrashBuild(c) ==
  /\ loc[c].request = "build"
  /\ part' = [part EXCEPT ![loc[c].key] = @ \ {c}]
  /\ Goto(c, "idle", Blank)
  /\ UNCHANGED <<reviewVars, art, disk>>

\* A worker claims the exporting job, which has no lease, compares it again
\* and presents it.
WorkerPresents ==
  /\ job = "exporting"
  /\ job' = "awaiting_review"
  /\ UNCHANGED <<analysis, obs, cs, apr, clientVars, buildVars>>

-----------------------------------------------------------------------------
Build(c) ==
  \/ \E k \in Key, a \in Approval \cup {None} : BeginBuild(c, k, a)
  \/ CheckApproval(c) \/ CheckDrift(c) \/ CheckLinked(c)
  \/ BeginWriting(c) \/ ReadEdits(c) \/ Rename(c) \/ MakeReady(c)
  \/ StartFailing(c) \/ FailBuild(c) \/ CrashBuild(c)

Next ==
  \/ \E c \in Client : Build(c)
  \/ \E c \in Client : Request(c) /\ UNCHANGED buildVars
  \/ WorkerPresents

Spec == InitArtifacts /\ [][Next]_vars

-----------------------------------------------------------------------------
Built == {k \in Key : art[k].state \in {"ready", "superseded"}}

\* export.py: "Build the corrected file ... for one approval".  Every edit of
\* an artifact was approved in the selection its manifest names, as the
\* candidate the reviewer was shown, however many decisions and re-analyses
\* came between the check and the reading.
AppliedWasApproved ==
  \A k \in Built : \A e \in art[k].edits :
    /\ art[k].by # None
    /\ apr[art[k].by].decision = "approved"
    /\ e[1] \in DOMAIN apr[art[k].by].members
    /\ apr[art[k].by].shown[e[1]] = e[2]

\* The hash and edits of a ready row are those of the file that was renamed,
\* as long as no two requests give one key at the same time.
FileIsWhole ==
  \A k \in Key : art[k].state = "ready" => disk[k] = art[k].edits

\* With the types of the variables: what is ready is there.
ArtifactsAreWhole == TypeOK /\ FileIsWhole

\* No two clients give one key; one client gives a key again when its build has ended.
OneClientPerKey == \A c, d \in Client : KeysOf[c] \cap KeysOf[d] # {} => c = d

=============================================================================
