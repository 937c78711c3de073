------------------------------ MODULE FilesPage ------------------------------
(***************************************************************************)
(* The file page of the browser application (src/pages/files.ts) over the  *)
(* local job model (src/lib/localjob.ts) and the inspect worker            *)
(* (src/worker/inspect.worker.ts), for files small enough to be read whole.*)
(*                                                                         *)
(* An event handler runs until it awaits a digest or the worker; what it   *)
(* does after that is a task, and tasks resume in any order, between other *)
(* events.  A text is a function from places to values; a change replaces  *)
(* one value at all its places, and proposals are named p1, p2, ... anew   *)
(* in every analysis.                                                      *)
(***************************************************************************)
EXTENDS Naturals, FiniteSets

CONSTANTS
  Source,     \* the files a user may choose
  Intent,     \* the import intents a user may declare
  Id,         \* names of proposals
  None,       \* null
  Text,       \* the text of each source
  Found,      \* what the checker finds: the proposals, or None for no report
  MaxAsks     \* bound on the continuations a behavior starts

VARIABLES
  source, file, text, coded,       \* state.source, sourceFile, text, encoding # null
  intent, analysis, proposals,     \* state.intent, analysis, proposals
  approvals, fingerprint, allow,   \* state.approvals, fingerprint, allowUndecided
  job,                             \* state.jobState
  large,                           \* large.active()
  rows,                            \* the table of proposals on screen
  screen,                          \* the controls: inspect and build enabled, export section shown
  offered,                         \* what the link to the reviewed file and the reports hold
  tasks,                           \* handlers that wait for a digest or for the worker
  asked,                           \* how many were started
  agreed                           \* ghost: the changes a decision has approved

reviewVars == <<analysis, proposals, approvals, fingerprint, allow>>
sourceVars == <<source, file, text, coded, large>>
vars == <<sourceVars, intent, reviewVars, job, rows, screen, offered, tasks, asked, agreed>>

States == {"proposed", "approved", "rejected", "deferred", "stale"}
Jobs   == {"uploaded", "inspecting", "awaiting_review", "failed", "exporting", "completed"}

TypeOK ==
  /\ source \in Source \cup {None} /\ file \in Source \cup {None}
  /\ coded \in BOOLEAN /\ large \in BOOLEAN
  /\ intent \in Intent
  /\ DOMAIN proposals \subseteq Id /\ \A p \in DOMAIN proposals : proposals[p].state \in States
  /\ \A a \in approvals : a.state \in {"approved", "stale"}
  /\ allow \in BOOLEAN
  /\ job \in Jobs
  /\ screen \in [inspect : BOOLEAN, build : BOOLEAN, export : BOOLEAN]
  /\ \A t \in tasks : t.kind \in {"sha", "inspect", "fingerprint", "apply"}
  /\ asked \in 0..MaxAsks

\* What the page keeps of an analysis.
Analyses == [version : Nat, of : Source, intent : Intent, report : BOOLEAN]

ASSUME FilesPageAssumption ==
  /\ MaxAsks \in Nat
  /\ None \notin Source /\ None \notin Analyses
  /\ \A s \in Source, i \in Intent : Found[s][i] # None => DOMAIN Found[s][i] \subseteq Id

NoProposals == [p \in {} |-> None]

Init ==
  /\ source = None /\ file = None /\ text = None /\ coded = FALSE /\ large = FALSE
  /\ intent \in Intent
  /\ analysis = None /\ proposals = NoProposals /\ approvals = {} /\ fingerprint = None /\ allow = FALSE
  /\ job = "uploaded"
  /\ rows = NoProposals
  /\ screen = [inspect |-> FALSE, build |-> FALSE, export |-> FALSE]
  /\ offered = None
  /\ tasks = {} /\ asked = 0
  /\ agreed = {}

InState(s) == {p \in DOMAIN proposals : proposals[p].state = s}

Ask(rest, t) ==
  /\ asked < MaxAsks
  /\ asked' = asked + 1
  /\ tasks' = rest \cup {[t EXCEPT !.no = asked]}

(* ---- the job model ---- *)

\* One proposal per change and one per flag, all undecided (buildProposals).
BuildProposals(found) == [p \in DOMAIN found |-> [change |-> found[p], state |-> "proposed"]]

\* The worker's analysis of the bytes and the intent it was sent (inspect).
HasReport(t) == Found[t.of][t.intent] # None
ProposalsOf(t) == IF HasReport(t) THEN BuildProposals(Found[t.of][t.intent]) ELSE NoProposals

IsFlag(p) == proposals[p].change.new = None

\* The digest of the inputs of the change set (changeSetFingerprint).
Fingerprint(ps, a) ==
  [source |-> file, version |-> a.version, intent |-> intent,
   edits |-> {<<p, ps[p].change>> : p \in {q \in DOMAIN ps : ps[q].state = "approved"}}]

Verdict == [approve |-> "approved", reject |-> "rejected", defer |-> "deferred", undo |-> "proposed"]

\* A flag has no candidate to approve.
Affected(ids, act) == {p \in ids \cap DOMAIN proposals : ~(act = "approve" /\ IsFlag(p))}

Decided(ids, act) ==
  [p \in DOMAIN proposals |->
     IF p \in Affected(ids, act) THEN [proposals[p] EXCEPT !.state = Verdict[act]] ELSE proposals[p]]

MarkStale(ps) ==
  [p \in DOMAIN ps |-> IF ps[p].state = "approved" THEN [ps[p] EXCEPT !.state = "stale"] ELSE ps[p]]

\* Only approved corrections are applied, at every occurrence (applyApproved).
EditsOf(ps) ==
  UNION {{[at |-> o, old |-> ps[p].change.old, new |-> ps[p].change.new] : o \in ps[p].change.at} :
           p \in {q \in DOMAIN ps : ps[q].state = "approved" /\ ps[q].change.new # None}}

\* The worker refuses an edit that does not find its old text where it should be (applyEdits).
FitsUnchecked(edits, t) == \A e \in edits : e.at \in DOMAIN t
Fits(edits, t) == \A e \in edits : e.at \in DOMAIN t /\ t[e.at] = e.old

Spliced(edits, t) ==
  [o \in DOMAIN t |-> IF \E e \in edits : e.at = o THEN (CHOOSE e \in edits : e.at = o).new ELSE t[o]]

(* ---- rendering ---- *)

\* Stale approvals and undecided proposals block a build (renderExportState).
Blocked(ps, allowed) ==
  \/ \E p \in DOMAIN ps : ps[p].state = "stale"
  \/ ~allowed /\ \E p \in DOMAIN ps : ps[p].state = "proposed"

\* A row shows a proposal's change; its buttons carry only the proposal's name.
Rows(ps) == [p \in DOMAIN ps |-> ps[p].change]

RenderAll(ps, allowed, export) ==
  /\ rows' = Rows(ps)
  /\ screen' = [screen EXCEPT !.build = ~Blocked(ps, allowed), !.export = export]

(* ---- choosing a file ---- *)

\* setSource up to the digest of the bytes.
Choose(s) ==
  /\ source' = s /\ large' = FALSE
  /\ Ask(tasks, [kind |-> "sha", no |-> 0, of |-> s])
  /\ UNCHANGED <<file, text, coded, intent, reviewVars, job, rows, screen, offered, agreed>>

\* The rest of it: a new source starts a fresh review.  The section with the link of an
\* earlier build is hidden, the link itself is left as it is.
Sha(t) ==
  /\ t.kind = "sha"
  /\ tasks' = tasks \ {t}
  /\ file' = t.of /\ text' = Text[t.of] /\ coded' = TRUE
  /\ analysis' = None /\ proposals' = NoProposals /\ approvals' = {} /\ fingerprint' = None /\ allow' = FALSE
  /\ job' = "uploaded"
  /\ screen' = [screen EXCEPT !.inspect = TRUE, !.export = FALSE]
  /\ UNCHANGED <<source, large, intent, rows, offered, asked, agreed>>

\* setLargeSource: the page keeps the head of the text and hands the file on.
ChooseLarge(s) ==
  /\ asked < MaxAsks /\ asked' = asked + 1
  /\ source' = None /\ file' = None /\ text' = Text[s] /\ coded' = FALSE /\ large' = TRUE
  /\ analysis' = None /\ proposals' = NoProposals
  /\ job' = "uploaded"
  /\ screen' = [screen EXCEPT !.inspect = TRUE, !.export = FALSE]
  /\ UNCHANGED <<intent, approvals, fingerprint, allow, rows, offered, tasks, agreed>>

(* ---- inspecting ---- *)

\* The approvals of an earlier analysis go stale before the worker is asked.
Inspect(i) ==
  /\ screen.inspect /\ ~large /\ source # None
  /\ LET again == analysis # None /\ \E a \in approvals : a.state = "approved"
     IN  /\ approvals' = IF again THEN {[a EXCEPT !.state = "stale"] : a \in approvals} ELSE approvals
         /\ proposals' = IF again THEN MarkStale(proposals) ELSE proposals
  /\ intent' = i
  /\ job' = "inspecting"
  /\ screen' = [screen EXCEPT !.inspect = FALSE]
  /\ Ask(tasks, [kind |-> "inspect", no |-> 0, of |-> source, intent |-> i,
                 version |-> IF analysis = None THEN 1 ELSE analysis.version + 1])
  /\ UNCHANGED <<sourceVars, analysis, fingerprint, allow, rows, offered, agreed>>

InspectFailsSilently(t) ==
  /\ t.kind = "inspect"
  /\ tasks' = tasks \ {t}
  /\ screen' = [screen EXCEPT !.inspect = TRUE]
  /\ UNCHANGED <<sourceVars, intent, reviewVars, job, rows, offered, asked, agreed>>

InspectFails(t) ==
  /\ t.kind = "inspect"
  /\ tasks' = tasks \ {t}
  /\ screen' = [screen EXCEPT !.inspect = TRUE]
  /\ job' = "failed"
  /\ UNCHANGED <<sourceVars, intent, reviewVars, rows, offered, asked, agreed>>

\* The answer is taken for the page as it is now; the fingerprint is computed next,
\* or at once left alone when the page has no whole file any more.
Inspected(t) ==
  /\ t.kind = "inspect"
  /\ LET fresh  == ProposalsOf(t)
         report == HasReport(t)
         result == [version |-> t.version, of |-> t.of, intent |-> t.intent, report |-> report]
     IN  /\ analysis' = result /\ proposals' = fresh
         /\ job' = IF report THEN "awaiting_review" ELSE "failed"
         /\ IF file # None
            THEN /\ screen' = [screen EXCEPT !.inspect = TRUE]
                 /\ Ask(tasks \ {t}, [kind |-> "fingerprint", no |-> 0, value |-> Fingerprint(fresh, result),
                                      after |-> "inspect", report |-> report, ids |-> {}])
                 /\ UNCHANGED rows
            ELSE /\ rows' = Rows(fresh)
                 /\ screen' = [inspect |-> TRUE, build |-> ~Blocked(fresh, allow), export |-> report]
                 /\ tasks' = tasks \ {t} /\ UNCHANGED asked
  /\ UNCHANGED <<sourceVars, intent, approvals, fingerprint, allow, offered, agreed>>

Rendered(t) ==
  /\ t.kind = "fingerprint" /\ t.after = "inspect"
  /\ tasks' = tasks \ {t}
  /\ fingerprint' = t.value
  /\ RenderAll(proposals, allow, t.report)
  /\ UNCHANGED <<sourceVars, intent, analysis, proposals, approvals, allow, job, offered, asked, agreed>>

(* ---- deciding ---- *)

\* What the filters let through: all proposals, or those in one state.
Filtered(f) == IF f = "all" THEN DOMAIN proposals ELSE InState(f)

\* The bulk buttons; only corrections are approved in bulk.
Bulk(act) ==
  IF act = "defer" THEN {}
  ELSE {{p \in Filtered(f) : act = "approve" => ~IsFlag(p)} : f \in States \cup {"all"}}

\* A row's button decides the proposal of the row's name, a bulk button the filtered ones.
Decide(ids, act) ==
  /\ ids \in {{p} : p \in DOMAIN rows} \cup Bulk(act)
  /\ file # None /\ analysis # None /\ Affected(ids, act) # {}
  /\ LET next == Decided(ids, act)
     IN  /\ proposals' = next
         /\ Ask(tasks, [kind |-> "fingerprint", no |-> 0, value |-> Fingerprint(next, analysis),
                        after |-> act, report |-> FALSE, ids |-> Affected(ids, act)])
  /\ agreed' = IF act = "approve" THEN agreed \cup {proposals[p].change : p \in Affected(ids, act)} ELSE agreed
  /\ UNCHANGED <<sourceVars, intent, analysis, approvals, fingerprint, allow, job, rows, screen, offered>>

\* What was built no longer matches the decisions (invalidateExport).
Withdraw ==
  /\ offered' = None
  /\ job' = IF job \in {"completed", "exporting"} THEN "awaiting_review" ELSE job

Recorded(t) ==
  /\ t.kind = "fingerprint" /\ t.after # "inspect"
  /\ tasks' = tasks \ {t}
  /\ fingerprint' = t.value
  /\ approvals' = IF t.after = "approve"
                  THEN approvals \cup {[no |-> t.no, ids |-> t.ids, fingerprint |-> t.value, state |-> "approved"]}
                  ELSE approvals
  /\ Withdraw
  /\ RenderAll(proposals, allow, screen.export)
  /\ UNCHANGED <<sourceVars, intent, analysis, proposals, allow, asked, agreed>>

\* The checkbox that lets undecided items through.
Allow ==
  /\ screen.export /\ ~allow /\ InState("proposed") # {}
  /\ allow' = TRUE
  /\ screen' = [screen EXCEPT !.build = ~Blocked(proposals, TRUE)]
  /\ UNCHANGED <<sourceVars, intent, analysis, proposals, approvals, fingerprint, job, rows, offered, tasks, asked, agreed>>

(* ---- building ---- *)

\* The edits are taken now; the links of an earlier build are closed (their URLs are revoked).
Build ==
  /\ screen.export /\ screen.build
  /\ coded /\ file # None /\ analysis # None
  /\ job' = "exporting"
  /\ screen' = [screen EXCEPT !.build = FALSE]
  /\ offered' = None
  /\ Ask(tasks, [kind |-> "apply", no |-> 0, text |-> text, edits |-> EditsOf(proposals)])
  /\ UNCHANGED <<sourceVars, intent, reviewVars, rows, agreed>>

\* The worker refuses the edits, or fails.
BuildFails(t) ==
  /\ t.kind = "apply"
  /\ tasks' = tasks \ {t}
  /\ job' = "failed"
  /\ screen' = [screen EXCEPT !.build = TRUE]
  /\ UNCHANGED <<sourceVars, intent, reviewVars, rows, offered, asked, agreed>>

\* The file of the answer, with ledger and manifest of the page as it is now.
Built(t) ==
  /\ t.kind = "apply" /\ Fits(t.edits, t.text)
  /\ file # None /\ analysis # None
  /\ tasks' = tasks \ {t}
  /\ offered' = [base |-> t.text, text |-> Spliced(t.edits, t.text), ledger |-> proposals,
                 source |-> file, version |-> analysis.version, fingerprint |-> fingerprint]
  /\ job' = "completed"
  /\ RenderAll(proposals, allow, screen.export)
  /\ UNCHANGED <<sourceVars, intent, reviewVars, asked, agreed>>

\* The file is gone when the answer comes: the handler ends with an exception.
BuildLost(t) ==
  /\ t.kind = "apply" /\ (file = None \/ analysis = None)
  /\ tasks' = tasks \ {t}
  /\ UNCHANGED <<sourceVars, intent, reviewVars, job, rows, screen, offered, asked, agreed>>

Resume(t) ==
  \/ Sha(t)
  \/ Inspected(t) \/ InspectFails(t) \/ Rendered(t)
  \/ Recorded(t)
  \/ Built(t) \/ BuildFails(t) \/ BuildLost(t)

Next ==
  \/ \E s \in Source : Choose(s) \/ ChooseLarge(s)
  \/ \E i \in Intent : Inspect(i)
  \/ \E act \in DOMAIN Verdict : \E ids \in SUBSET Id : Decide(ids, act)
  \/ Allow \/ Build
  \/ \E t \in tasks : Resume(t)

Spec == Init /\ [][Next]_vars

(* ---- properties ---- *)

\* Whatever answers come late and whatever file was chosen meanwhile: the corrected file
\* that is offered differs from the text it was made from only where a change the user
\* approved puts its new value in the place of exactly its old one (applyApproved, applyEdits).
SpliceIsApproved ==
  /\ TypeOK
  /\ offered # None =>
    \A o \in DOMAIN offered.base : offered.text[o] # offered.base[o] =>
      \E c \in agreed : o \in c.at /\ c.old = offered.base[o] /\ c.new = offered.text[o]

\* The page never waits for nobody: it shows that it inspects or exports, or keeps the
\* inspect button disabled after a file was chosen, only while the worker owes an answer.
NeverWaitsForNobody ==
  /\ job = "inspecting" => \E t \in tasks : t.kind = "inspect"
  /\ job = "exporting" => \E t \in tasks : t.kind = "apply"
  /\ text # None /\ ~screen.inspect => \E t \in tasks : t.kind = "inspect"

(* ---- why: an invariant that every step keeps ---- *)

PageTyped ==
  /\ TypeOK
  /\ analysis \in Analyses \cup {None}
  /\ \A p \in DOMAIN proposals :
       proposals[p] = [change |-> proposals[p].change, state |-> proposals[p].state]
  /\ \A a \in approvals : "state" \in DOMAIN a
  /\ \A t \in tasks :
       /\ t.kind \in {"sha", "inspect"} => t.of \in Source
       /\ t.kind = "inspect" => t.intent \in Intent /\ t.version \in Nat
       /\ t.kind = "fingerprint" => t.report \in BOOLEAN

\* The user approved what is approved, and every edit that is under way.
AgreedOnly ==
  /\ \A p \in DOMAIN proposals : proposals[p].state = "approved" => proposals[p].change \in agreed
  /\ \A t \in tasks : t.kind = "apply" =>
       \A e \in t.edits : \E c \in agreed : e.at \in c.at /\ c.old = e.old /\ c.new = e.new

\* A page that exports has the file and the analysis it exports.
ExportHasFile == job = "exporting" => file # None /\ analysis # None

PageInv == PageTyped /\ AgreedOnly /\ ExportHasFile /\ SpliceIsApproved /\ NeverWaitsForNobody

=============================================================================
