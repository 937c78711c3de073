---------------------------- MODULE PublicProofs -----------------------------
(***************************************************************************)
(* What is shown and asked outside. Whatever answers of the worker come    *)
(* late, and whatever the user chooses meanwhile: the page of small files  *)
(* offers only what was approved, and it never waits for an answer that    *)
(* nobody owes. Whatever becomes of the passes over large files, the job   *)
(* that is reviewed holds the records of its file, and what its export     *)
(* writes is that file with the corrections in their places. Whoever runs  *)
(* an enrichment request, what it says of itself is so.  A batch answers   *)
(* for each of its members once.                                           *)
(***************************************************************************)
EXTENDS FilesPage, LargeJob, References, Batch, SequenceTheorems, FiniteSetTheorems, WellFoundedInduction, TLAPS

(* ---- the page of small files ---- *)

\* The kinds of the tasks and what each brings along.
TaskOK(t) ==
  /\ t.kind \in {"sha", "inspect", "fingerprint", "apply"}
  /\ t.kind \in {"sha", "inspect"} => t.of \in Source
  /\ t.kind = "inspect" => t.intent \in Intent /\ t.version \in Nat
  /\ t.kind = "fingerprint" => t.report \in BOOLEAN

\* The types, apart: a step that leaves some of them alone keeps those.
SourcesOK   == source \in Source \cup {None} /\ file \in Source \cup {None} /\ coded \in BOOLEAN /\ large \in BOOLEAN
ProposalsOK ==
  /\ DOMAIN proposals \subseteq Id
  /\ \A p \in DOMAIN proposals :
       /\ proposals[p] = [change |-> proposals[p].change, state |-> proposals[p].state]
       /\ proposals[p].state \in States
ApprovalsOK == \A a \in approvals : "state" \in DOMAIN a /\ a.state \in {"approved", "stale"}
ScreenOK    == screen \in [inspect : BOOLEAN, build : BOOLEAN, export : BOOLEAN]
TasksOK     == (\A t \in tasks : TaskOK(t)) /\ asked \in 0..MaxAsks

\* The type invariant is these parts and the types of the simple variables.
LEMMA TypesApart ==
  PageTyped <=> /\ SourcesOK /\ ProposalsOK /\ ApprovalsOK /\ ScreenOK /\ TasksOK
                /\ analysis \in Analyses \cup {None}
                /\ intent \in Intent /\ allow \in BOOLEAN /\ job \in Jobs
BY DEF PageTyped, TypeOK, SourcesOK, ProposalsOK, ApprovalsOK, ScreenOK, TasksOK, TaskOK

\* A handler that begins to wait adds its task.
LEMMA AskAdds ==
  ASSUME TasksOK, NEW rest \in SUBSET tasks, NEW t, Ask(rest, t), TaskOK([t EXCEPT !.no = asked])
  PROVE  TasksOK' /\ tasks' = rest \cup {[t EXCEPT !.no = asked]}
BY FilesPageAssumption DEF Ask, TasksOK

\* Approvals that go stale are none any more.
LEMMA MarkedOK ==
  ASSUME ProposalsOK
  PROVE  /\ DOMAIN MarkStale(proposals) = DOMAIN proposals
         /\ \A p \in DOMAIN proposals :
              /\ MarkStale(proposals)[p] = [change |-> MarkStale(proposals)[p].change,
                                            state |-> MarkStale(proposals)[p].state]
              /\ MarkStale(proposals)[p].state \in States
              /\ MarkStale(proposals)[p].state # "approved"
BY DEF MarkStale, ProposalsOK, States

\* A fresh analysis has undecided proposals only.
LEMMA BuiltProposals ==
  ASSUME NEW t, TaskOK(t), t.kind = "inspect"
  PROVE  /\ DOMAIN ProposalsOf(t) \subseteq Id
         /\ \A p \in DOMAIN ProposalsOf(t) :
              /\ ProposalsOf(t)[p] = [change |-> ProposalsOf(t)[p].change, state |-> ProposalsOf(t)[p].state]
              /\ ProposalsOf(t)[p].state = "proposed"
<1>1. CASE HasReport(t)
  <2>1. DOMAIN Found[t.of][t.intent] \subseteq Id
    BY <1>1, FilesPageAssumption DEF HasReport, TaskOK
  <2> QED
    BY <1>1, <2>1 DEF ProposalsOf, BuildProposals
<1>2. CASE ~HasReport(t)
  BY <1>2 DEF ProposalsOf, NoProposals
<1> QED
  BY <1>1, <1>2

\* A decision keeps the shape of the proposals.
LEMMA DecidedOK ==
  ASSUME ProposalsOK, NEW ids, NEW act \in DOMAIN Verdict
  PROVE  /\ DOMAIN Decided(ids, act) = DOMAIN proposals
         /\ \A p \in DOMAIN proposals :
              /\ Decided(ids, act)[p] = [change |-> Decided(ids, act)[p].change, state |-> Decided(ids, act)[p].state]
              /\ Decided(ids, act)[p].state \in States
<1>1. Verdict[act] \in States
  BY DEF Verdict, States
<1> QED
  BY <1>1 DEF Decided, ProposalsOK

\* Whatever was blocked, the build button is on or off.
LEMMA BlockedIs == \A ps, a : (~Blocked(ps, a)) \in BOOLEAN
BY Zenon

\* Setting controls leaves the screen a screen.
LEMMA ScreenSets ==
  ASSUME ScreenOK, NEW b \in BOOLEAN, NEW c \in BOOLEAN
  PROVE  LET S == [inspect : BOOLEAN, build : BOOLEAN, export : BOOLEAN] IN
         /\ [screen EXCEPT !.inspect = b] \in S /\ [screen EXCEPT !.build = b] \in S
         /\ [screen EXCEPT !.inspect = b, !.export = c] \in S
         /\ [screen EXCEPT !.build = b, !.export = c] \in S
         /\ screen.export \in BOOLEAN
BY DEF ScreenOK

\* The steps of the page, one by one.
LEMMA Acts ==
  ASSUME Next
  PROVE  \/ \E s \in Source : Choose(s)
         \/ \E s \in Source : ChooseLarge(s)
         \/ \E i \in Intent : Inspect(i)
         \/ \E act \in DOMAIN Verdict : \E ids \in SUBSET Id : Decide(ids, act)
         \/ Allow
         \/ Build
         \/ \E t \in tasks : Sha(t)
         \/ \E t \in tasks : Inspected(t)
         \/ \E t \in tasks : InspectFails(t)
         \/ \E t \in tasks : Rendered(t)
         \/ \E t \in tasks : Recorded(t)
         \/ \E t \in tasks : Built(t)
         \/ \E t \in tasks : BuildFails(t)
         \/ \E t \in tasks : BuildLost(t)
BY DEF Next, Resume

-----------------------------------------------------------------------------
(* The types.                                                              *)

\* The file, and the encoding that was found with it.
LEMMA SourcesStep == ASSUME PageTyped, Next PROVE SourcesOK'
<1>0. SourcesOK /\ TasksOK
  BY TypesApart
<1>1. CASE \E s \in Source : Choose(s)
  BY <1>0, <1>1 DEF Choose, SourcesOK
<1>2. CASE \E s \in Source : ChooseLarge(s)
  BY <1>2 DEF ChooseLarge, SourcesOK
<1>3. CASE \E t \in tasks : Sha(t)
  BY <1>0, <1>3 DEF Sha, SourcesOK, TasksOK, TaskOK
<1>4. CASE UNCHANGED sourceVars
  BY <1>0, <1>4 DEF sourceVars, SourcesOK
<1> QED
  BY <1>1, <1>2, <1>3, <1>4, Acts, Zenon
     DEF Inspect, Decide, Allow, Build, Inspected, InspectFails, Rendered, Recorded, Built, BuildFails, BuildLost

\* What is known of an analysis, and the declared intent.
LEMMA AnalysisStep ==
  ASSUME PageTyped, Next
  PROVE  analysis' \in Analyses \cup {None} /\ intent' \in Intent
<1>0. analysis \in Analyses \cup {None} /\ intent \in Intent /\ TasksOK
  BY TypesApart
<1>1. CASE \E t \in tasks : Inspected(t)
  <2>1. PICK t \in tasks : Inspected(t)
    BY <1>1
  <2>2. HasReport(t) \in BOOLEAN
    BY Zenon DEF HasReport
  <2>3. t.version \in Nat /\ t.of \in Source /\ t.intent \in Intent
    BY <1>0, <2>1 DEF TasksOK, TaskOK, Inspected
  <2>4. analysis' = [version |-> t.version, of |-> t.of, intent |-> t.intent, report |-> HasReport(t)]
    BY <2>1 DEF Inspected
  <2>5. analysis' \in Analyses
    BY <2>2, <2>3, <2>4 DEF Analyses
  <2> QED
    BY <1>0, <2>1, <2>5 DEF Inspected
<1>2. CASE \E i \in Intent : Inspect(i)
  BY <1>0, <1>2 DEF Inspect
<1>3. CASE analysis' = None /\ UNCHANGED intent
  BY <1>0, <1>3
<1>4. CASE UNCHANGED <<analysis, intent>>
  BY <1>0, <1>4
<1>5. QED
  BY <1>1, <1>2, <1>3, <1>4, Acts, Zenon
     DEF Choose, ChooseLarge, Sha, Decide, Allow, Build, InspectFails, Rendered, Recorded, Built, BuildFails,
         BuildLost, reviewVars

\* Undecided items are let through or not; the state of the job is one of its states.
LEMMA JobStep == ASSUME PageTyped, Next PROVE allow' \in BOOLEAN /\ job' \in Jobs
<1>0. allow \in BOOLEAN /\ job \in Jobs
  BY TypesApart
<1>1. allow' = allow \/ allow' = FALSE \/ allow' = TRUE
  BY Acts, Zenon
     DEF Choose, ChooseLarge, Inspect, Sha, Decide, Allow, Build, Inspected, InspectFails, Rendered, Recorded, Built,
         BuildFails, BuildLost, reviewVars
<1>2. job' = job \/ job' \in Jobs
  BY Acts
     DEF Choose, ChooseLarge, Inspect, Sha, Decide, Allow, Build, Inspected, InspectFails, Rendered, Recorded, Withdraw,
         Built, BuildFails, BuildLost, Jobs
<1> QED
  BY <1>0, <1>1, <1>2

\* The proposals, whichever analysis they are of, carry names and one of the states.
LEMMA ProposalsStep == ASSUME PageTyped, Next PROVE ProposalsOK'
<1>0. ProposalsOK /\ TasksOK
  BY TypesApart
<1>1. CASE \E i \in Intent : Inspect(i)
  <2>1. proposals' = MarkStale(proposals) \/ proposals' = proposals
    BY <1>1 DEF Inspect
  <2>2. CASE proposals' = proposals
    BY <1>0, <2>2 DEF ProposalsOK
  <2>3. CASE proposals' = MarkStale(proposals)
    BY <1>0, <2>3, MarkedOK DEF ProposalsOK
  <2> QED
    BY <2>1, <2>2, <2>3
<1>2. CASE \E t \in tasks : Inspected(t)
  <2>1. PICK t \in tasks : Inspected(t)
    BY <1>2
  <2>2. proposals' = ProposalsOf(t) /\ TaskOK(t) /\ t.kind = "inspect"
    BY <1>0, <2>1 DEF Inspected, TasksOK
  <2> QED
    BY <2>2, BuiltProposals DEF ProposalsOK, States
<1>3. CASE \E act \in DOMAIN Verdict : \E ids \in SUBSET Id : Decide(ids, act)
  <2>1. PICK act \in DOMAIN Verdict : \E ids \in SUBSET Id : Decide(ids, act)
    BY <1>3
  <2>2. PICK ids \in SUBSET Id : Decide(ids, act)
    BY <2>1
  <2>3. proposals' = Decided(ids, act)
    BY <2>2 DEF Decide
  <2>4. /\ DOMAIN Decided(ids, act) = DOMAIN proposals
        /\ \A p \in DOMAIN proposals :
             /\ Decided(ids, act)[p] = [change |-> Decided(ids, act)[p].change, state |-> Decided(ids, act)[p].state]
             /\ Decided(ids, act)[p].state \in States
    BY <1>0, DecidedOK
  <2>5. DOMAIN proposals \subseteq Id
    BY <1>0 DEF ProposalsOK
  <2> QED
    BY <2>3, <2>4, <2>5 DEF ProposalsOK
<1>4. CASE proposals' = NoProposals
  <2>1. DOMAIN NoProposals = {}
    BY Zenon DEF NoProposals
  <2> QED
    BY <1>4, <2>1 DEF ProposalsOK
<1>5. CASE UNCHANGED proposals
  BY <1>0, <1>5 DEF ProposalsOK
<1> QED
  BY <1>1, <1>2, <1>3, <1>4, <1>5, Acts, Zenon
     DEF Choose, ChooseLarge, Sha, Allow, Build, InspectFails, Rendered, Recorded, Built, BuildFails, BuildLost,
         reviewVars

\* An approval stands or is stale.
LEMMA ApprovalsStep == ASSUME PageTyped, Next PROVE ApprovalsOK'
<1>0. ApprovalsOK
  BY TypesApart
<1>1. CASE \E i \in Intent : Inspect(i)
  <2>1. approvals' = {[a EXCEPT !.state = "stale"] : a \in approvals} \/ approvals' = approvals
    BY <1>1 DEF Inspect
  <2>2. \A a \in approvals : LET b == [a EXCEPT !.state = "stale"] IN "state" \in DOMAIN b /\ b.state = "stale"
    BY <1>0 DEF ApprovalsOK
  <2> QED
    BY <1>0, <2>1, <2>2 DEF ApprovalsOK
<1>2. CASE \E t \in tasks : Recorded(t)
  BY <1>0, <1>2 DEF Recorded, ApprovalsOK
<1>3. CASE approvals' = {}
  BY <1>3 DEF ApprovalsOK
<1>4. CASE UNCHANGED approvals
  BY <1>0, <1>4 DEF ApprovalsOK
<1> QED
  BY <1>1, <1>2, <1>3, <1>4, Acts, Zenon
     DEF Choose, ChooseLarge, Sha, Decide, Allow, Build, Inspected, InspectFails, Rendered, Built, BuildFails, BuildLost,
         reviewVars

\* The controls are on or off.
LEMMA ScreenStep == ASSUME PageTyped, Next PROVE ScreenOK'
<1>0. ScreenOK /\ TasksOK
  BY TypesApart
<1>f. TRUE \in BOOLEAN /\ FALSE \in BOOLEAN
  OBVIOUS
<1>1. CASE \E t \in tasks : Sha(t)
  BY <1>0, <1>1, <1>f, ScreenSets DEF Sha, ScreenOK
<1>2. CASE \E s \in Source : ChooseLarge(s)
  BY <1>0, <1>2, <1>f, ScreenSets DEF ChooseLarge, ScreenOK
<1>3. CASE \E i \in Intent : Inspect(i)
  BY <1>0, <1>3, <1>f, ScreenSets DEF Inspect, ScreenOK
<1>4. CASE \E t \in tasks : InspectFails(t)
  BY <1>0, <1>4, <1>f, ScreenSets DEF InspectFails, ScreenOK
<1>5. CASE \E t \in tasks : Inspected(t)
  <2>1. PICK t \in tasks : Inspected(t)
    BY <1>5
  <2>2. HasReport(t) \in BOOLEAN
    BY Zenon DEF HasReport
  <2>3. \/ screen' = [screen EXCEPT !.inspect = TRUE]
        \/ screen' = [inspect |-> TRUE, build |-> ~Blocked(ProposalsOf(t), allow), export |-> HasReport(t)]
    BY <2>1 DEF Inspected
  <2>4. (~Blocked(ProposalsOf(t), allow)) \in BOOLEAN
    BY BlockedIs
  <2>5. CASE screen' = [screen EXCEPT !.inspect = TRUE]
    BY <1>0, <1>f, <2>5, ScreenSets DEF ScreenOK
  <2>6. CASE screen' = [inspect |-> TRUE, build |-> ~Blocked(ProposalsOf(t), allow), export |-> HasReport(t)]
    <3> DEFINE b == ~Blocked(ProposalsOf(t), allow)  h == HasReport(t)
    <3>1. b \in BOOLEAN /\ h \in BOOLEAN /\ screen' = [inspect |-> TRUE, build |-> b, export |-> h]
      BY <2>2, <2>4, <2>6
    <3> HIDE DEF b, h
    <3> QED
      BY <3>1 DEF ScreenOK
  <2> QED
    BY <2>3, <2>5, <2>6
<1>6. CASE \E t \in tasks : Rendered(t) \/ Recorded(t) \/ Built(t)
  <2>1. \E e \in BOOLEAN : screen' = [screen EXCEPT !.build = ~Blocked(proposals, allow), !.export = e]
    <3>1. screen.export \in BOOLEAN
      BY <1>0 DEF ScreenOK
    <3>2. \A t \in tasks : t.kind = "fingerprint" => t.report \in BOOLEAN
      BY <1>0 DEF TasksOK, TaskOK
    <3> QED
      BY <1>6, <3>1, <3>2, Zenon DEF Rendered, Recorded, Built, RenderAll
  <2> DEFINE b == ~Blocked(proposals, allow)
  <2>2. b \in BOOLEAN
    BY BlockedIs
  <2>3. PICK e \in BOOLEAN : screen' = [screen EXCEPT !.build = b, !.export = e]
    BY <2>1
  <2> HIDE DEF b
  <2>4. [screen EXCEPT !.build = b, !.export = e] \in [inspect : BOOLEAN, build : BOOLEAN, export : BOOLEAN]
    BY <1>0, <2>2, ScreenSets
  <2> QED
    BY <2>3, <2>4 DEF ScreenOK
<1>7. CASE Allow
  <2>1. screen' = [screen EXCEPT !.build = ~Blocked(proposals, TRUE)]
    BY <1>7 DEF Allow
  <2> DEFINE b == ~Blocked(proposals, TRUE)
  <2>2. b \in BOOLEAN /\ screen' = [screen EXCEPT !.build = b]
    BY <2>1, BlockedIs
  <2> HIDE DEF b
  <2> QED
    BY <1>0, <2>2, ScreenSets DEF ScreenOK
<1>8. CASE Build
  BY <1>0, <1>8, <1>f, ScreenSets DEF Build, ScreenOK
<1>9. CASE \E t \in tasks : BuildFails(t)
  BY <1>0, <1>9, <1>f, ScreenSets DEF BuildFails, ScreenOK
<1>10. CASE UNCHANGED screen
  BY <1>0, <1>10 DEF ScreenOK
<1> QED
  BY <1>1, <1>2, <1>3, <1>4, <1>5, <1>6, <1>7, <1>8, <1>9, <1>10, Acts, Zenon
     DEF Choose, Decide, BuildLost

\* Every task is of its kind, and no more are started than are counted.
LEMMA TasksStep == ASSUME PageTyped, Next PROVE TasksOK'
<1>0. TasksOK /\ analysis \in Analyses \cup {None} /\ source \in Source \cup {None}
  BY TypesApart DEF SourcesOK
<1>1. CASE \E s \in Source : Choose(s)
  <2>1. PICK s \in Source : Choose(s)
    BY <1>1
  <2> DEFINE t == [kind |-> "sha", no |-> 0, of |-> s]
  <2>2. Ask(tasks, t) /\ TaskOK([t EXCEPT !.no = asked])
    BY <2>1 DEF Choose, TaskOK
  <2> QED
    BY <1>0, <2>2, AskAdds
<1>2. CASE \E i \in Intent : Inspect(i)
  <2>1. PICK i \in Intent : Inspect(i)
    BY <1>2
  <2> DEFINE v == IF analysis = None THEN 1 ELSE analysis.version + 1
             t == [kind |-> "inspect", no |-> 0, of |-> source, intent |-> i, version |-> v]
  <2>2. Ask(tasks, t) /\ source \in Source
    BY <1>0, <2>1 DEF Inspect
  <2>3. v \in Nat
    BY <1>0 DEF Analyses
  <2>4. TaskOK([t EXCEPT !.no = asked])
    <3> HIDE DEF v
    <3> QED
      BY <2>2, <2>3 DEF TaskOK
  <2> QED
    BY <1>0, <2>2, <2>4, AskAdds
<1>3. CASE \E t \in tasks : Inspected(t)
  <2>1. PICK t \in tasks : Inspected(t)
    BY <1>3
  <2> DEFINE result == [version |-> t.version, of |-> t.of, intent |-> t.intent, report |-> HasReport(t)]
             value  == Fingerprint(ProposalsOf(t), result)
             report == HasReport(t)
             u == [kind |-> "fingerprint", no |-> 0, value |-> value, after |-> "inspect", report |-> report, ids |-> {}]
  <2>2. Ask(tasks \ {t}, u) \/ (tasks' = tasks \ {t} /\ UNCHANGED asked)
    BY <2>1 DEF Inspected
  <2>3. CASE tasks' = tasks \ {t} /\ UNCHANGED asked
    BY <1>0, <2>3 DEF TasksOK, TaskOK
  <2>4. CASE Ask(tasks \ {t}, u)
    <3>1. report \in BOOLEAN
      BY Zenon DEF HasReport
    <3>2. TaskOK([u EXCEPT !.no = asked])
      <4> HIDE DEF report, value
      <4> QED
        BY <3>1 DEF TaskOK
    <3> HIDE DEF u
    <3> QED
      BY <1>0, <2>4, <3>2, AskAdds
  <2> QED
    BY <2>2, <2>3, <2>4
<1>4. CASE \E act \in DOMAIN Verdict : \E ids \in SUBSET Id : Decide(ids, act)
  <2>1. PICK act \in DOMAIN Verdict : \E ids \in SUBSET Id : Decide(ids, act)
    BY <1>4
  <2>2. PICK ids \in SUBSET Id : Decide(ids, act)
    BY <2>1
  <2> DEFINE value == Fingerprint(Decided(ids, act), analysis)
             hit   == Affected(ids, act)
             u == [kind |-> "fingerprint", no |-> 0, value |-> value, after |-> act, report |-> FALSE, ids |-> hit]
  <2>3. Ask(tasks, u)
    BY <2>2 DEF Decide
  <2>4. TaskOK([u EXCEPT !.no = asked])
    <3> HIDE DEF value, hit
    <3> QED
      BY DEF TaskOK
  <2> HIDE DEF u
  <2> QED
    BY <1>0, <2>3, <2>4, AskAdds
<1>5. CASE Build
  <2> DEFINE edits == EditsOf(proposals)
             u == [kind |-> "apply", no |-> 0, text |-> text, edits |-> edits]
  <2>1. Ask(tasks, u)
    BY <1>5 DEF Build
  <2>2. TaskOK([u EXCEPT !.no = asked])
    <3> HIDE DEF edits
    <3> QED
      BY DEF TaskOK
  <2> HIDE DEF u
  <2> QED
    BY <1>0, <2>1, <2>2, AskAdds
<1>6. CASE \E s \in Source : ChooseLarge(s)
  BY <1>0, <1>6, FilesPageAssumption DEF ChooseLarge, TasksOK, TaskOK
<1>7. CASE (\E t \in tasks : tasks' = tasks \ {t}) /\ UNCHANGED asked
  BY <1>0, <1>7 DEF TasksOK, TaskOK
<1>8. CASE UNCHANGED <<tasks, asked>>
  BY <1>0, <1>8 DEF TasksOK, TaskOK
<1> QED
  BY <1>1, <1>2, <1>3, <1>4, <1>5, <1>6, <1>7, <1>8, Acts, Zenon
     DEF Sha, Allow, InspectFails, Rendered, Recorded, Built, BuildFails, BuildLost

\* The types in the next state, apart.
LEMMA TypesStep == ASSUME PageTyped, Next PROVE PageTyped'
<1>1. /\ SourcesOK' /\ ProposalsOK' /\ ApprovalsOK' /\ ScreenOK' /\ TasksOK'
      /\ analysis' \in Analyses \cup {None}
      /\ intent' \in Intent /\ allow' \in BOOLEAN /\ job' \in Jobs
  BY SourcesStep, ProposalsStep, ApprovalsStep, ScreenStep, TasksStep, AnalysisStep, JobStep
<1> QED
  BY <1>1 DEF PageTyped, TypeOK, SourcesOK, ProposalsOK, ApprovalsOK, ScreenOK, TasksOK, TaskOK

-----------------------------------------------------------------------------
(* What is under way.                                                      *)

\* Only an export adds a task that applies edits, and only an inspection one that inspects.
LEMMA NewTasks ==
  ASSUME PageTyped, Next
  PROVE  /\ \A t \in tasks' \ tasks : t.kind = "apply" =>
              Build /\ t.edits = EditsOf(proposals)
         /\ \A t \in tasks \ tasks' : t.kind = "inspect" => Inspected(t) \/ InspectFails(t)
         /\ \A t \in tasks \ tasks' : t.kind = "apply" => Built(t) \/ BuildFails(t) \/ BuildLost(t)
<1>1. ASSUME NEW s \in Source, Choose(s) PROVE tasks \subseteq tasks' /\ \A t \in tasks' \ tasks : t.kind = "sha"
  BY <1>1 DEF Choose, Ask
<1>2. ASSUME NEW i \in Intent, Inspect(i) PROVE tasks \subseteq tasks' /\ \A t \in tasks' \ tasks : t.kind = "inspect"
  BY <1>2 DEF Inspect, Ask
<1>3. ASSUME NEW t \in tasks, Inspected(t)
      PROVE  tasks \ tasks' \subseteq {t} /\ \A u \in tasks' \ tasks : u.kind = "fingerprint"
  BY <1>3 DEF Inspected, Ask
<1>4. ASSUME NEW act \in DOMAIN Verdict, NEW ids \in SUBSET Id, Decide(ids, act)
      PROVE  tasks \subseteq tasks' /\ \A u \in tasks' \ tasks : u.kind = "fingerprint"
  BY <1>4 DEF Decide, Ask
<1>5. ASSUME Build PROVE tasks \subseteq tasks' /\ \A u \in tasks' \ tasks : u.edits = EditsOf(proposals)
  <2> DEFINE edits == EditsOf(proposals)
  <2>1. Ask(tasks, [kind |-> "apply", no |-> 0, text |-> text, edits |-> edits])
    BY <1>5 DEF Build
  <2> HIDE DEF edits
  <2>2. tasks \subseteq tasks' /\ \A u \in tasks' \ tasks : u.edits = edits
    BY <2>1 DEF Ask
  <2> QED
    BY <2>2 DEF edits
<1>6. ASSUME NEW t \in tasks, Sha(t) \/ Rendered(t) \/ Recorded(t)
      PROVE  tasks' = tasks \ {t} /\ t.kind \notin {"inspect", "apply"}
  BY <1>6 DEF Sha, Rendered, Recorded
<1>7. ASSUME NEW t \in tasks, InspectFails(t) \/ Built(t) \/ BuildFails(t) \/ BuildLost(t) PROVE tasks' = tasks \ {t}
  BY <1>7 DEF InspectFails, Built, BuildFails, BuildLost
<1>8. ASSUME Allow \/ \E s \in Source : ChooseLarge(s) PROVE tasks' = tasks
  BY <1>8 DEF Allow, ChooseLarge
<1>9. ASSUME NEW t \in tasks, Inspected(t) \/ InspectFails(t) PROVE t.kind # "apply"
  BY <1>9 DEF Inspected, InspectFails
<1>10. ASSUME NEW t \in tasks, Built(t) \/ BuildFails(t) \/ BuildLost(t) PROVE t.kind # "inspect"
  BY <1>10 DEF Built, BuildFails, BuildLost
<1>11. CASE (\E s \in Source : Choose(s) \/ ChooseLarge(s)) \/ Allow
  BY <1>1, <1>8, <1>11
<1>12. CASE \E i \in Intent : Inspect(i)
  BY <1>2, <1>12
<1>13. CASE \E t \in tasks : Inspected(t)
  BY <1>3, <1>9, <1>13
<1>14. CASE \E act \in DOMAIN Verdict : \E ids \in SUBSET Id : Decide(ids, act)
  BY <1>4, <1>14
<1>15. CASE Build
  BY <1>5, <1>15
<1>16. CASE \E t \in tasks : Sha(t) \/ Rendered(t) \/ Recorded(t)
  BY <1>6, <1>16
<1>17. CASE \E t \in tasks : InspectFails(t) \/ Built(t) \/ BuildFails(t) \/ BuildLost(t)
  BY <1>7, <1>9, <1>10, <1>17
<1> QED
  BY <1>11, <1>12, <1>13, <1>14, <1>15, <1>16, <1>17, Acts

\* The edits of an export are those of approved changes.
LEMMA EditsAgree ==
  ASSUME AgreedOnly, NEW e \in EditsOf(proposals)
  PROVE  \E c \in agreed : e.at \in c.at /\ c.old = e.old /\ c.new = e.new
<1>1. PICK p \in DOMAIN proposals :
        /\ proposals[p].state = "approved"
        /\ \E o \in proposals[p].change.at :
             e = [at |-> o, old |-> proposals[p].change.old, new |-> proposals[p].change.new]
  BY DEF EditsOf
<1>2. proposals[p].change \in agreed
  BY <1>1 DEF AgreedOnly
<1> QED
  BY <1>1, <1>2

\* A decision leaves the changes, and approves only what it affects.
LEMMA DecidedChanges ==
  ASSUME ProposalsOK, NEW ids, NEW act \in DOMAIN Verdict, NEW p \in DOMAIN proposals
  PROVE  /\ Decided(ids, act)[p].change = proposals[p].change
         /\ Decided(ids, act)[p].state = "approved" =>
              proposals[p].state = "approved" \/ (act = "approve" /\ p \in Affected(ids, act))
<1>1. Verdict[act] = "approved" => act = "approve"
  BY DEF Verdict
<1> QED
  BY <1>1 DEF Decided, ProposalsOK

\* What is approved stays approved by somebody.
LEMMA AgreedStep == ASSUME PageTyped, AgreedOnly, Next PROVE AgreedOnly'
<1>t. ProposalsOK /\ TasksOK
  BY TypesApart
<1>a. agreed \subseteq agreed'
  BY Acts DEF Choose, ChooseLarge, Inspect, Sha, Decide, Allow, Build, Inspected, InspectFails, Rendered, Recorded, Built,
              BuildFails, BuildLost
<1>1. \A t \in tasks' : t.kind = "apply" =>
        \A e \in t.edits : \E c \in agreed' : e.at \in c.at /\ c.old = e.old /\ c.new = e.new
  <2> SUFFICES ASSUME NEW t \in tasks', t.kind = "apply", NEW e \in t.edits
               PROVE  \E c \in agreed' : e.at \in c.at /\ c.old = e.old /\ c.new = e.new
    OBVIOUS
  <2>1. CASE t \in tasks
    BY <1>a, <2>1 DEF AgreedOnly
  <2>2. CASE t \notin tasks
    <3>1. t.edits = EditsOf(proposals)
      BY <2>2, NewTasks
    <3> QED
      BY <1>a, <3>1, EditsAgree
  <2> QED
    BY <2>1, <2>2
<1>2. \A p \in DOMAIN proposals' : proposals'[p].state = "approved" => proposals'[p].change \in agreed'
  <2>1. CASE \E i \in Intent : Inspect(i)
    <3>1. proposals' = MarkStale(proposals) \/ proposals' = proposals
      BY <2>1 DEF Inspect
    <3>2. CASE proposals' = proposals
      BY <1>a, <3>2 DEF AgreedOnly
    <3>3. CASE proposals' = MarkStale(proposals)
      BY <1>t, <3>3, MarkedOK
    <3> QED
      BY <3>1, <3>2, <3>3
  <2>2. CASE \E t \in tasks : Inspected(t)
    <3>1. PICK t \in tasks : Inspected(t)
      BY <2>2
    <3>2. proposals' = ProposalsOf(t) /\ TaskOK(t) /\ t.kind = "inspect"
      BY <1>t, <3>1 DEF Inspected, TasksOK
    <3> QED
      BY <3>2, BuiltProposals
  <2>3. CASE \E act \in DOMAIN Verdict : \E ids \in SUBSET Id : Decide(ids, act)
    <3>1. PICK act \in DOMAIN Verdict : \E ids \in SUBSET Id : Decide(ids, act)
      BY <2>3
    <3>2. PICK ids \in SUBSET Id : Decide(ids, act)
      BY <3>1
    <3>3. /\ proposals' = Decided(ids, act)
          /\ act = "approve" => agreed' = agreed \cup {proposals[p].change : p \in Affected(ids, act)}
      BY <3>2 DEF Decide
    <3> SUFFICES ASSUME NEW p \in DOMAIN proposals', proposals'[p].state = "approved"
                 PROVE  proposals'[p].change \in agreed'
      OBVIOUS
    <3>4. /\ p \in DOMAIN proposals /\ proposals'[p].change = proposals[p].change
          /\ proposals[p].state = "approved" \/ (act = "approve" /\ p \in Affected(ids, act))
      <4>1. p \in DOMAIN Decided(ids, act) /\ Decided(ids, act)[p].state = "approved"
        BY <3>3
      <4>2. act \in DOMAIN Verdict
        BY <3>1
      <4>3. DOMAIN Decided(ids, act) = DOMAIN proposals
        BY <1>t, <4>2, DecidedOK
      <4>4. Decided(ids, act)[p].change = proposals[p].change
        BY <1>t, <4>1, <4>2, <4>3, DecidedChanges
      <4>5. proposals[p].state = "approved" \/ (act = "approve" /\ p \in Affected(ids, act))
        BY <1>t, <4>1, <4>2, <4>3, DecidedChanges
      <4> QED
        BY <3>3, <4>1, <4>3, <4>4, <4>5
    <3>5. CASE proposals[p].state = "approved"
      BY <1>a, <3>4, <3>5 DEF AgreedOnly
    <3>6. CASE act = "approve" /\ p \in Affected(ids, act)
      BY <3>3, <3>4, <3>6
    <3> QED
      BY <3>4, <3>5, <3>6
  <2>4. CASE proposals' = NoProposals
    <3>1. DOMAIN NoProposals = {}
      BY Zenon DEF NoProposals
    <3> QED
      BY <2>4, <3>1
  <2>5. CASE UNCHANGED proposals
    BY <1>a, <2>5 DEF AgreedOnly
  <2> QED
    BY <2>1, <2>2, <2>3, <2>4, <2>5, Acts, Zenon
       DEF Choose, ChooseLarge, Sha, Allow, Build, InspectFails, Rendered, Recorded, Built, BuildFails, BuildLost,
           reviewVars
<1> QED
  BY <1>1, <1>2 DEF AgreedOnly

-----------------------------------------------------------------------------
(* What the page offers, and what it waits for.                            *)

\* An export begins with file and analysis, and either is dropped only with the export.
LEMMA ExportStep == ASSUME PageTyped, ExportHasFile, Next PROVE ExportHasFile'
<1>1. CASE \E t \in tasks : Inspected(t)
  BY <1>1 DEF Inspected, ExportHasFile
<1>2. CASE Build
  BY <1>2 DEF Build, ExportHasFile, sourceVars, reviewVars
<1>3. CASE job' # "exporting"
  BY <1>3 DEF ExportHasFile
<1>4. CASE job' = job /\ UNCHANGED <<file, analysis>>
  BY <1>4 DEF ExportHasFile
<1>5. \/ \E t \in tasks : Inspected(t)
      \/ Build
      \/ job' # "exporting"
      \/ job' = job /\ UNCHANGED <<file, analysis>>
  BY Acts DEF Choose, ChooseLarge, Inspect, Sha, Decide, Allow, InspectFails, Rendered, Recorded, Withdraw, Built,
              BuildFails, BuildLost, sourceVars, reviewVars
<1> QED
  BY <1>1, <1>2, <1>3, <1>4, <1>5

\* A file that is built differs from its text in the edits of its task alone.
LEMMA BuiltIsApproved == ASSUME AgreedOnly, NEW t \in tasks, Built(t) PROVE
  offered' # None =>
    \A o \in DOMAIN offered'.base : offered'.text[o] # offered'.base[o] =>
      \E c \in agreed' : o \in c.at /\ c.old = offered'.base[o] /\ c.new = offered'.text[o]
<1>1. /\ t.kind = "apply" /\ Fits(t.edits, t.text) /\ agreed' = agreed
      /\ offered'.base = t.text /\ offered'.text = Spliced(t.edits, t.text)
  BY DEF Built
<1> SUFFICES ASSUME NEW o \in DOMAIN t.text, Spliced(t.edits, t.text)[o] # t.text[o]
             PROVE  \E c \in agreed : o \in c.at /\ c.old = t.text[o] /\ c.new = Spliced(t.edits, t.text)[o]
  BY <1>1
<1>2. \E e \in t.edits : e.at = o
  BY DEF Spliced
<1> DEFINE e == CHOOSE d \in t.edits : d.at = o
<1>3. e \in t.edits /\ e.at = o
  BY <1>2
<1>4. Spliced(t.edits, t.text)[o] = e.new
  BY <1>2 DEF Spliced
<1>5. t.text[o] = e.old
  BY <1>1, <1>3 DEF Fits
<1>6. \E c \in agreed : e.at \in c.at /\ c.old = e.old /\ c.new = e.new
  BY <1>1, <1>3 DEF AgreedOnly
<1> QED
  BY <1>3, <1>4, <1>5, <1>6

\* An offer stands, is withdrawn, or is built anew.
LEMMA SpliceStep == ASSUME PageTyped, AgreedOnly, SpliceIsApproved, Next PROVE SpliceIsApproved'
<1>t. TypeOK'
  BY TypesStep DEF PageTyped
<1>a. agreed \subseteq agreed'
  BY Acts DEF Choose, ChooseLarge, Inspect, Sha, Decide, Allow, Build, Inspected, InspectFails, Rendered, Recorded, Built,
              BuildFails, BuildLost
<1>1. CASE \E t \in tasks : Built(t)
  BY <1>t, <1>1, BuiltIsApproved DEF SpliceIsApproved
<1>2. CASE offered' = None
  BY <1>t, <1>2 DEF SpliceIsApproved
<1>3. CASE UNCHANGED offered
  BY <1>t, <1>a, <1>3 DEF SpliceIsApproved
<1> QED
  BY <1>1, <1>2, <1>3, Acts, Zenon
     DEF Choose, ChooseLarge, Inspect, Sha, Decide, Allow, Build, Inspected, InspectFails, Rendered, Recorded, Withdraw,
         BuildFails, BuildLost

\* An answer that is taken ends the waiting, whichever question it answers.
LEMMA WaitStep == ASSUME PageTyped, ExportHasFile, NeverWaitsForNobody, Next PROVE NeverWaitsForNobody'
<1>t. ScreenOK
  BY TypesApart
<1>e. [screen EXCEPT !.inspect = TRUE].inspect /\ [screen EXCEPT !.inspect = TRUE, !.export = FALSE].inspect
  BY <1>t DEF ScreenOK
<1>1. CASE \E t \in tasks : Inspected(t) \/ InspectFails(t)
  <2>1. screen'.inspect /\ job' \notin {"inspecting", "exporting"}
    <3>1. PICK t \in tasks : Inspected(t) \/ InspectFails(t)
      BY <1>1
    <3>2. CASE InspectFails(t)
      BY <1>e, <3>2 DEF InspectFails
    <3>3. CASE Inspected(t)
      <4>1. job' \in {"awaiting_review", "failed"}
        BY <3>3 DEF Inspected
      <4>2. \/ screen' = [screen EXCEPT !.inspect = TRUE]
            \/ \E b, x : screen' = [inspect |-> TRUE, build |-> b, export |-> x]
        BY <3>3 DEF Inspected
      <4>3. \A b, x : [inspect |-> TRUE, build |-> b, export |-> x].inspect
        OBVIOUS
      <4>4. screen'.inspect
        BY <1>e, <4>2, <4>3, Zenon
      <4> QED
        BY <4>1, <4>4
    <3> QED
      BY <3>1, <3>2, <3>3
  <2> QED
    BY <2>1 DEF NeverWaitsForNobody
<1>2. CASE (\E t \in tasks : Sha(t)) \/ (\E s \in Source : ChooseLarge(s))
  <2>1. screen'.inspect /\ job' = "uploaded"
    BY <1>2, <1>e DEF Sha, ChooseLarge
  <2> QED
    BY <2>1 DEF NeverWaitsForNobody
<1>3. CASE \E i \in Intent : Inspect(i)
  <2>1. PICK i \in Intent : Inspect(i)
    BY <1>3
  <2>2. (\E t \in tasks' : t.kind = "inspect") /\ job' = "inspecting"
    <3> DEFINE v == IF analysis = None THEN 1 ELSE analysis.version + 1
    <3>1. Ask(tasks, [kind |-> "inspect", no |-> 0, of |-> source, intent |-> i, version |-> v]) /\ job' = "inspecting"
      BY <2>1 DEF Inspect
    <3> DEFINE u == [[kind |-> "inspect", no |-> 0, of |-> source, intent |-> i, version |-> v] EXCEPT !.no = asked]
    <3> HIDE DEF v
    <3>2. u \in tasks'
      BY <3>1 DEF Ask
    <3>3. u.kind = "inspect"
      OBVIOUS
    <3> QED
      BY <3>1, <3>2, <3>3
  <2> QED
    BY <2>2 DEF NeverWaitsForNobody
<1>4. CASE Build
  <2>1. (\E t \in tasks' : t.kind = "apply") /\ tasks \subseteq tasks'
    <3> DEFINE edits == EditsOf(proposals)
    <3>1. Ask(tasks, [kind |-> "apply", no |-> 0, text |-> text, edits |-> edits])
      BY <1>4 DEF Build
    <3> DEFINE u == [[kind |-> "apply", no |-> 0, text |-> text, edits |-> edits] EXCEPT !.no = asked]
    <3> HIDE DEF edits
    <3>2. u \in tasks' /\ tasks \subseteq tasks'
      BY <3>1 DEF Ask
    <3>3. u.kind = "apply"
      OBVIOUS
    <3> QED
      BY <3>2, <3>3
  <2>2. job' = "exporting" /\ text' = text /\ screen'.inspect = screen.inspect
    BY <1>t, <1>4 DEF Build, sourceVars, ScreenOK
  <2> QED
    BY <2>1, <2>2 DEF NeverWaitsForNobody
<1>5. CASE \E t \in tasks : Built(t) \/ BuildFails(t)
  <2>1. PICK t \in tasks : Built(t) \/ BuildFails(t)
    BY <1>5
  <2>2. /\ job' \notin {"inspecting", "exporting"} /\ text' = text /\ screen'.inspect = screen.inspect
        /\ tasks' = tasks \ {t} /\ t.kind # "inspect"
    BY <1>t, <2>1 DEF Built, BuildFails, RenderAll, sourceVars, ScreenOK
  <2> QED
    BY <2>2 DEF NeverWaitsForNobody
<1>6. CASE \E t \in tasks : BuildLost(t)
  <2>1. PICK t \in tasks : BuildLost(t)
    BY <1>6
  <2>2. job # "exporting" /\ UNCHANGED <<job, text, screen>> /\ tasks' = tasks \ {t} /\ t.kind # "inspect"
    BY <2>1 DEF BuildLost, ExportHasFile, sourceVars
  <2> QED
    BY <2>2 DEF NeverWaitsForNobody
<1>7. CASE \E t \in tasks : Rendered(t) \/ Recorded(t)
  <2>1. PICK t \in tasks : Rendered(t) \/ Recorded(t)
    BY <1>7
  <2>2. /\ job' = job \/ job' = "awaiting_review"
        /\ text' = text /\ screen'.inspect = screen.inspect
        /\ tasks' = tasks \ {t} /\ t.kind = "fingerprint"
    BY <1>t, <2>1 DEF Rendered, Recorded, RenderAll, Withdraw, sourceVars, ScreenOK
  <2> QED
    BY <2>2 DEF NeverWaitsForNobody
<1>8. CASE Allow \/ (\E s \in Source : Choose(s)) \/ (\E act \in DOMAIN Verdict : \E ids \in SUBSET Id : Decide(ids, act))
  <2>1. UNCHANGED <<job, text>> /\ screen'.inspect = screen.inspect
    BY <1>t, <1>8 DEF Allow, Choose, Decide, sourceVars, ScreenOK
  <2>2. tasks \subseteq tasks'
    BY <1>8 DEF Allow, Choose, Decide, Ask
  <2> QED
    BY <2>1, <2>2 DEF NeverWaitsForNobody
<1> QED
  BY <1>1, <1>2, <1>3, <1>4, <1>5, <1>6, <1>7, <1>8, Acts

-----------------------------------------------------------------------------
(* The theorems.                                                           *)

\* The first state.
LEMMA PageStarts == Init => PageInv
<1> SUFFICES ASSUME Init PROVE PageInv
  OBVIOUS
<1>1. DOMAIN proposals = {} /\ approvals = {} /\ tasks = {}
  BY Zenon DEF Init, NoProposals
<1>2. asked \in 0 .. MaxAsks
  BY FilesPageAssumption DEF Init
<1>3. /\ source \in Source \cup {None} /\ file \in Source \cup {None}
      /\ coded \in BOOLEAN /\ large \in BOOLEAN /\ allow \in BOOLEAN /\ intent \in Intent
      /\ analysis = None /\ offered = None /\ text = None
  BY DEF Init
<1>4. job = "uploaded" /\ job \in Jobs /\ screen \in [inspect : BOOLEAN, build : BOOLEAN, export : BOOLEAN]
  BY DEF Init, Jobs
<1>5. PageTyped
  BY <1>1, <1>2, <1>3, <1>4 DEF PageTyped, TypeOK
<1>6. AgreedOnly /\ ExportHasFile /\ NeverWaitsForNobody /\ SpliceIsApproved
  BY <1>1, <1>3, <1>4, <1>5 DEF AgreedOnly, ExportHasFile, NeverWaitsForNobody, SpliceIsApproved, PageTyped
<1> QED
  BY <1>5, <1>6 DEF PageInv

\* The page is sound in every state: what it keeps is typed, what is approved or on its way
\* into a file was approved by the user, and whatever it waits for is under way.
THEOREM PageIsSound == Spec => []PageInv
<1>1. PageInv /\ [Next]_vars => PageInv'
  <2> SUFFICES ASSUME PageInv, [Next]_vars PROVE PageInv'
    OBVIOUS
  <2> USE DEF PageInv
  <2>1. CASE Next
    BY <2>1, TypesStep, AgreedStep, ExportStep, SpliceStep, WaitStep
  <2>2. CASE UNCHANGED vars
    BY <2>2 DEF vars, sourceVars, reviewVars, PageTyped, TypeOK, AgreedOnly, ExportHasFile, SpliceIsApproved,
                NeverWaitsForNobody
  <2> QED
    BY <2>1, <2>2
<1> QED
  BY <1>1, PageStarts, PTL DEF Spec

\* However many answers of the worker come late and in whatever order: the corrected file on
\* offer differs from the text it was made from only where the user approved the change.
THEOREM OfferIsApproved == Spec => []SpliceIsApproved
<1>1. PageInv => SpliceIsApproved
  BY DEF PageInv
<1> QED
  BY <1>1, PageIsSound, PTL

\* The page shows that it inspects or exports only while the worker owes it an answer.
THEOREM NobodyIsWaitedFor == Spec => []NeverWaitsForNobody
<1>1. PageInv => NeverWaitsForNobody
  BY DEF PageInv
<1> QED
  BY <1>1, PageIsSound, PTL

(* ---- the job on a large file ---- *)

Phases == {"none", "splice", "exceptions", "ledger", "done", "failed", "cancelled", "answered"}

\* The types, apart: those of one job, of one export, of the page.
GoodRow == {r \in JobRow : (r.pass # "none" => r.file \in File) /\ Len(r.dec) <= Len(r.store)}
GoodExport(e) == "phase" \in DOMAIN e /\ e.phase \in Phases

JobsTyped    == scan \in [Job -> GoodRow]
ExportsTyped == DOMAIN export = Job /\ \A j \in Job : GoodExport(export[j])
CursTyped    == cur \in 0..MaxJobs /\ jobs \in 0..MaxJobs /\ page \in PageRow

\* The type invariant is these parts.
LEMMA LargeTypesApart == StoreTyped <=> JobsTyped /\ ExportsTyped /\ CursTyped
<1>1. ASSUME StoreTyped PROVE JobsTyped
  BY <1>1 DEF StoreTyped, LargeTypeOK, JobsTyped, GoodRow
<1>2. ASSUME StoreTyped PROVE ExportsTyped /\ CursTyped
  BY <1>2 DEF StoreTyped, LargeTypeOK, ExportsTyped, CursTyped, GoodExport, Phases
<1>3. ASSUME JobsTyped, ExportsTyped, CursTyped PROVE StoreTyped
  <2>1. scan \in [Job -> JobRow]
    BY <1>3 DEF JobsTyped, GoodRow
  <2>2. ASSUME NEW j \in Job
        PROVE  /\ scan[j].pass \in Passes
               /\ scan[j].codec \in {"utf-8", "latin-1"}
               /\ scan[j].result \in {"none", "done", "cancelled"}
               /\ scan[j].cancelled \in BOOLEAN
               /\ scan[j].pass # "none" => scan[j].file \in File
               /\ Len(scan[j].dec) <= Len(scan[j].store)
    BY <1>3 DEF JobsTyped, GoodRow, JobRow
  <2>3. ASSUME NEW j \in Job, NEW i \in DOMAIN scan[j].dec PROVE scan[j].dec[i] \in Decisions
    <3>1. scan[j].dec \in Seq(Decisions)
      BY <2>1 DEF JobRow
    <3> QED BY <3>1, <2>3, ElementOfSeq, LenProperties
  <2>4. page.state \in PageStates /\ page.file \in File \cup {Null} /\ page.shows \in 0..MaxJobs
    BY <1>3 DEF CursTyped, PageRow
  <2>5. LargeTypeOK
    BY <1>3, <2>2, <2>3, <2>4 DEF CursTyped, ExportsTyped, GoodExport, Phases, LargeTypeOK
  <2> QED BY <1>3, <2>1, <2>5 DEF StoreTyped, ExportsTyped, GoodExport, CursTyped
<1> QED BY <1>1, <1>2, <1>3

LEMMA FunctionIsSequence ==
  ASSUME NEW S, NEW n \in Nat, NEW d \in [1 .. n -> S]
  PROVE  d \in Seq(S) /\ Len(d) = n
<1>1. d \in Seq(S)
  BY SeqDef
<1> QED BY <1>1, LenProperties

LEMMA ConcatOne ==
  \A S : \A s, b \in Seq(S), e \in S : s \o Append(b, e) = (s \o b) \o <<e>>
<1> SUFFICES ASSUME NEW S, NEW s \in Seq(S), NEW b \in Seq(S), NEW e \in S
             PROVE  s \o Append(b, e) = (s \o b) \o <<e>>
  OBVIOUS
<1>1. <<e>> \in Seq(S) /\ Append(b, e) = b \o <<e>>
  BY AppendIsConcat
<1> QED BY <1>1, ConcatAssociative

\* A sequence read so far, and one element more.
LEMMA ReadOn ==
  ASSUME NEW S, NEW R \in Seq(S), NEW s \in Seq(S), NEW b \in Seq(S), NEW at \in Nat \ {0}, at <= Len(R),
         s \o b = SubSeq(R, 1, at - 1)
  PROVE  s \o Append(b, R[at]) = SubSeq(R, 1, at)
<1>1. R[at] \in S
  BY ElementOfSeq, LenProperties
<1>2. SubSeq(R, 1, at) = SubSeq(R, 1, at - 1) \o <<R[at]>>
  BY SubSeqRecursiveSecond, LenProperties
<1>3. \A e \in S : s \o Append(b, e) = (s \o b) \o <<e>>
  BY ConcatOne
<1> QED BY <1>1, <1>2, <1>3

\* Writing the buffer to the store keeps the types and what was read (grow).
LEMMA FlushedIsGood ==
  ASSUME NEW r \in GoodRow
  PROVE  /\ Flushed(r) \in GoodRow
         /\ Flushed(r).store = r.store \o r.buffer /\ Flushed(r).buffer = <<>>
         /\ Flushed(r).file = r.file /\ Flushed(r).at = r.at /\ Flushed(r).pass = r.pass
         /\ Flushed(r).result = r.result
<1> DEFINE all == r.store \o r.buffer
           dec == Grown(r.dec, Len(all))
<1>1. all \in Seq(Pieces) /\ Len(all) \in Nat
  BY ConcatProperties, LenProperties DEF GoodRow, JobRow
<1>2. \A i \in 1 .. Len(all) : (IF i <= Len(r.dec) THEN r.dec[i] ELSE "proposed") \in Decisions
  <2>1. r.dec \in Seq(Decisions)
    BY DEF GoodRow, JobRow
  <2> QED BY <2>1, <1>1, LenProperties, ElementOfSeq DEF Decisions
<1>3. dec \in Seq(Decisions) /\ Len(dec) = Len(all)
  <2>1. dec \in [1 .. Len(all) -> Decisions]
    BY <1>2 DEF Grown
  <2>2. \A d \in [1 .. Len(all) -> Decisions] : d \in Seq(Decisions) /\ Len(d) = Len(all)
    BY <1>1, FunctionIsSequence
  <2> QED BY <2>1, <2>2
<1>4. Flushed(r) = [r EXCEPT !.store = all, !.buffer = <<>>, !.dec = dec]
  BY DEF Flushed
<1>5. <<>> \in Seq(Pieces)
  OBVIOUS
<1> HIDE DEF all, dec
<1>6. Flushed(r) \in JobRow
  BY <1>1, <1>3, <1>4, <1>5 DEF GoodRow, JobRow
<1>7. r \in JobRow /\ (r.pass # "none" => r.file \in File)
  BY DEF GoodRow
<1>8. /\ Flushed(r).store = all /\ Flushed(r).buffer = <<>> /\ Flushed(r).dec = dec
      /\ Flushed(r).file = r.file /\ Flushed(r).at = r.at /\ Flushed(r).pass = r.pass
      /\ Flushed(r).result = r.result
  BY <1>7, <1>4 DEF JobRow
<1>9. Flushed(r) \in GoodRow
  BY <1>1, <1>3, <1>6, <1>7, <1>8 DEF GoodRow
<1> QED BY <1>8, <1>9 DEF all

(* ---- the rows ---- *)

\* What is kept, job by job.
RowsGood(all) == \A j \in Job : all[j] \in GoodRow /\ Unread(all[j])

LEMMA StoreApart ==
  StoreInv <=> /\ JobsTyped /\ ExportsTyped /\ CursTyped
               /\ RowsGood(scan)
               /\ cur # 0 => cur <= jobs /\ ReadSoFar(scan[cur])
BY LargeTypesApart DEF StoreInv, RowsGood, JobsTyped, NotYetRead, CurrentIsRead

\* A job of which only the file and its outcome are left.
LEMMA ClosedRowIsGood ==
  ASSUME NEW f \in File, NEW p \in Passes
  PROVE  /\ [NoJob EXCEPT !.file = f, !.pass = p] \in GoodRow
         /\ [NoJob EXCEPT !.file = f, !.pass = p].pass = p
         /\ \A x \in {"none", "done", "cancelled"} :
              /\ [NoJob EXCEPT !.file = f, !.pass = p, !.result = x] \in GoodRow
              /\ [NoJob EXCEPT !.file = f, !.pass = p, !.result = x].pass = p
<1>1. <<>> \in Seq(Pieces) /\ <<>> \in Seq(Decisions) /\ Len(<<>>) <= Len(<<>>)
  OBVIOUS
<1>2. PICK e : e = <<>>
  OBVIOUS
<1>3. NoJob = [file |-> Null, store |-> e, dec |-> e, codec |-> "utf-8", buffer |-> e, at |-> 1,
                 result |-> "none", cancelled |-> FALSE, pass |-> "none"]
  BY <1>2 DEF NoJob
<1>4. NoJob \in JobRow
  <2>1. e \in Seq(Pieces) /\ e \in Seq(Decisions)
    BY <1>1, <1>2
  <2> QED BY <2>1, <1>3 DEF JobRow, Passes
<1>5. NoJob.dec = e /\ NoJob.store = e /\ Len(e) <= Len(e)
  BY <1>1, <1>2, <1>3
<1>6. ASSUME NEW x \in {"none", "done", "cancelled"}
      PROVE  /\ [NoJob EXCEPT !.file = f, !.pass = p, !.result = x] \in GoodRow
             /\ [NoJob EXCEPT !.file = f, !.pass = p, !.result = x].pass = p
  BY <1>4, <1>5 DEF GoodRow, JobRow
<1>7. /\ [NoJob EXCEPT !.file = f, !.pass = p] \in GoodRow
      /\ [NoJob EXCEPT !.file = f, !.pass = p].pass = p
  BY <1>4, <1>5 DEF GoodRow, JobRow
<1> QED BY <1>6, <1>7

\* Closing the current job leaves the others alone, and of it what says how it ended (closeJob).
LEMMA ClosedIsGood ==
  ASSUME StoreInv, LargeFiles
  PROVE  /\ ClosedJobs \in [Job -> GoodRow] /\ RowsGood(ClosedJobs)
         /\ \A j \in Job : scan[j].pass \in {"none", "asked", "opening", "failed"} =>
                             ClosedJobs[j] = scan[j]
<1>1. CASE cur = 0
  BY <1>1, StoreApart DEF ClosedJobs, JobsTyped
<1>2. CASE cur # 0
  <2> DEFINE r == scan[cur]
  <2>1. cur \in Job /\ r \in GoodRow /\ r.pass \in {"reading", "ended", "answered"}
    BY <1>2, StoreApart DEF CursTyped, Job, RowsGood, ReadSoFar, LargeFiles
  <2>2. r.file \in File /\ r.result \in {"none", "done", "cancelled"}
    BY <2>1 DEF GoodRow, JobRow
  <2>3. PICK c : ClosedJobs = [scan EXCEPT ![cur] = c] /\ c \in GoodRow /\ c.pass \in {"failed", "ended", "answered"}
    <3>1. CASE r.pass = "reading"
      <4>1. ClosedJobs = [scan EXCEPT ![cur] = [NoJob EXCEPT !.file = r.file, !.pass = "failed"]]
        BY <1>2, <3>1 DEF ClosedJobs
      <4>2. "failed" \in Passes
        BY DEF Passes
      <4>3. [NoJob EXCEPT !.file = r.file, !.pass = "failed"] \in GoodRow /\ [NoJob EXCEPT !.file = r.file, !.pass = "failed"].pass = "failed"
        BY <2>2, <3>1, <4>2, ClosedRowIsGood
      <4> QED BY <4>1, <4>3, Zenon
    <3>2. CASE r.pass = "answered"
      <4>1. ClosedJobs = [scan EXCEPT ![cur] = [NoJob EXCEPT !.file = r.file, !.pass = "answered"]]
        BY <1>2, <3>2 DEF ClosedJobs
      <4>2. "answered" \in Passes
        BY DEF Passes
      <4>3. [NoJob EXCEPT !.file = r.file, !.pass = "answered"] \in GoodRow /\ [NoJob EXCEPT !.file = r.file, !.pass = "answered"].pass = "answered"
        BY <2>2, <3>2, <4>2, ClosedRowIsGood
      <4> QED BY <4>1, <4>3, Zenon
    <3>3. CASE r.pass = "ended"
      <4>1. ClosedJobs = [scan EXCEPT ![cur] = [NoJob EXCEPT !.file = r.file, !.pass = "ended", !.result = r.result]]
        BY <1>2, <3>3 DEF ClosedJobs
      <4>2. "ended" \in Passes
        BY DEF Passes
      <4>3. \A x \in {"none", "done", "cancelled"} :
              /\ [NoJob EXCEPT !.file = r.file, !.pass = "ended", !.result = x] \in GoodRow
              /\ [NoJob EXCEPT !.file = r.file, !.pass = "ended", !.result = x].pass = "ended"
        BY <2>2, <4>2, ClosedRowIsGood
      <4> QED BY <2>2, <4>1, <4>3, Zenon
    <3> QED BY <2>1, <3>1, <3>2, <3>3
  <2>4. scan \in [Job -> GoodRow] /\ RowsGood(scan)
    BY StoreApart DEF JobsTyped
  <2>5. Unread(c)
    BY <2>3 DEF Unread
  <2>6. \A j \in Job : j # cur => ClosedJobs[j] = scan[j]
    BY <2>3, <2>4
  <2>7. ClosedJobs[cur] = c
    BY <2>1, <2>3, <2>4
  <2>8. ClosedJobs \in [Job -> GoodRow]
    BY <2>3, <2>4
  <2>9. RowsGood(ClosedJobs)
    BY <2>3, <2>4, <2>5, <2>6, <2>7 DEF RowsGood
  <2> QED BY <2>1, <2>6, <2>8, <2>9
<1> QED BY <1>1, <1>2

LEMMA CloseExportTyped ==
  ASSUME StoreInv, CloseExport
  PROVE  ExportsTyped'
<1>1. ExportsTyped /\ (cur # 0 => cur \in Job)
  BY StoreApart DEF CursTyped, Job
<1>2. \A p \in Phases : GoodExport([NoExport EXCEPT !.phase = p])
  BY DEF GoodExport, NoExport
<1>3. CASE cur = 0
  BY <1>1, <1>3 DEF CloseExport, ExportsTyped
<1>4. CASE cur # 0
  <2>1. PICK p \in Phases : export' = [export EXCEPT ![cur] = [NoExport EXCEPT !.phase = p]]
    <3>1. export[cur].phase \in Phases
      BY <1>1, <1>4 DEF ExportsTyped, GoodExport
    <3>2. {"failed", "cancelled"} \subseteq Phases
      BY DEF Phases
    <3> QED BY <1>4, <3>1, <3>2 DEF CloseExport
  <2> QED BY <1>1, <1>2, <2>1 DEF ExportsTyped
<1> QED BY <1>3, <1>4

LEMMA StoreApartNext ==
  (StoreInv <=> /\ JobsTyped /\ ExportsTyped /\ CursTyped
                /\ RowsGood(scan)
                /\ cur # 0 => cur <= jobs /\ ReadSoFar(scan[cur]))'
BY StoreApart, PTL

\* A step that rewrites one row, and not what the current job has read.
LEMMA RowStep ==
  ASSUME StoreInv, ExportsTyped', CursTyped', cur' = cur, jobs' = jobs,
         NEW j \in Job, NEW r \in GoodRow, scan' = [scan EXCEPT ![j] = r],
         Unread(r), j = cur => ReadSoFar(r)
  PROVE  StoreInv'
<1>1. scan \in [Job -> GoodRow] /\ RowsGood(scan) /\ CursTyped
  BY StoreApart DEF JobsTyped
<1>2. JobsTyped' /\ RowsGood(scan')
  BY <1>1 DEF JobsTyped, RowsGood
<1>3. ASSUME cur # 0 PROVE cur <= jobs /\ ReadSoFar(scan'[cur])
  <2>1. cur <= jobs /\ ReadSoFar(scan[cur])
    BY <1>3, StoreApart
  <2>2. cur = j => scan'[cur] = r
    BY <1>1
  <2>3. cur # j => scan'[cur] = scan[cur]
    BY <1>1
  <2> QED BY <2>1, <2>2, <2>3
<1> QED BY <1>2, <1>3, StoreApartNext

\* A step that leaves the jobs alone.
LEMMA SameJobs ==
  ASSUME StoreInv, ExportsTyped', CursTyped', UNCHANGED <<scan, cur, jobs>>
  PROVE  StoreInv'
<1>1. JobsTyped' /\ RowsGood(scan') /\ (cur # 0 => cur <= jobs /\ ReadSoFar(scan'[cur]))
  BY StoreApart DEF JobsTyped
<1> QED BY <1>1, StoreApartNext

\* What a step may use of a row.
LEMMA RowFacts ==
  ASSUME StoreInv, NEW j \in Job
  PROVE  /\ scan[j] \in GoodRow /\ Unread(scan[j])
         /\ j = cur => ReadSoFar(scan[j])
         /\ ExportsTyped /\ CursTyped
         /\ UNCHANGED export => ExportsTyped'
         /\ UNCHANGED <<cur, page, jobs>> => CursTyped'
<1>1. j \in Int /\ (j = cur => cur # 0)
  BY StoreApart DEF Job, CursTyped
<1> QED BY <1>1, StoreApart DEF RowsGood, ExportsTyped, CursTyped

LEMMA StoreInspect ==
  ASSUME StoreInv, LargeFiles, InspectLarge
  PROVE  StoreInv'
<1> DEFINE n == jobs + 1
           r == [NoJob EXCEPT !.file = page.file, !.pass = "asked"]
<1>1. n \in Job /\ n # 0 /\ cur \in 0 .. MaxJobs /\ jobs \in 0 .. MaxJobs /\ page \in PageRow
  BY StoreApart DEF CursTyped, Job, InspectLarge, LargeFiles
<1>2. page.file \in File
  BY <1>1 DEF InspectLarge, PageRow
<1>3. r \in GoodRow /\ r.pass = "asked"
  <2>1. "asked" \in Passes
    BY DEF Passes
  <2> QED BY <1>2, <2>1, ClosedRowIsGood
<1>4. Unread(r)
  BY DEF Unread, NoJob
<1>5. scan' = [scan EXCEPT ![n] = r] /\ cur' = cur /\ jobs' = n
  BY DEF InspectLarge
<1>6. page' \in PageRow
  <2>1. page' = [page EXCEPT !.shows = 0, !.state = "inspecting", !.can = FALSE]
    BY DEF InspectLarge
  <2>2. 0 \in 0 .. MaxJobs /\ "inspecting" \in PageStates
    BY DEF PageStates, LargeFiles
  <2> QED BY <1>1, <2>1, <2>2 DEF PageRow
<1>7. ExportsTyped' /\ CursTyped'
  <2>1. ExportsTyped /\ UNCHANGED export
    BY StoreApart DEF InspectLarge
  <2> QED BY <1>1, <1>5, <1>6, <2>1 DEF ExportsTyped, CursTyped, Job, LargeFiles
<1>8. scan \in [Job -> GoodRow] /\ RowsGood(scan)
  BY StoreApart DEF JobsTyped
<1> HIDE DEF r, n
<1>9. JobsTyped' /\ RowsGood(scan')
  BY <1>3, <1>4, <1>5, <1>8 DEF JobsTyped, RowsGood
<1>10. ASSUME cur # 0 PROVE cur <= n /\ ReadSoFar(scan'[cur])
  <2>1. cur <= jobs /\ ReadSoFar(scan[cur])
    BY <1>10, StoreApart
  <2>2. scan'[cur] = scan[cur] /\ cur <= n
    BY <1>1, <1>5, <1>8, <1>10, <2>1 DEF n, Job
  <2> QED BY <2>1, <2>2
<1> QED BY <1>5, <1>7, <1>9, <1>10, StoreApartNext

\* The step of BeginInspect and of Discard: no job is the current one any more.
LEMMA StoreClosed ==
  ASSUME StoreInv, LargeFiles, ExportsTyped', cur' = 0, jobs' = jobs, page' \in PageRow,
         scan' \in [Job -> GoodRow], RowsGood(scan')
  PROVE  StoreInv'
<1>1. CursTyped' /\ JobsTyped'
  BY StoreApart DEF CursTyped, JobsTyped, LargeFiles
<1> QED BY <1>1, StoreApartNext

LEMMA StoreBeginInspect ==
  ASSUME StoreInv, LargeFiles, NEW j \in Job, BeginInspect(j)
  PROVE  StoreInv'
<1>1. /\ ClosedJobs \in [Job -> GoodRow] /\ RowsGood(ClosedJobs)
      /\ ClosedJobs[j] = scan[j] /\ scan[j].pass = "asked"
  BY ClosedIsGood DEF BeginInspect
<1> DEFINE c == ClosedJobs[j]
           r == [c EXCEPT !.pass = "opening"]
<1>2. c \in GoodRow /\ Unread(c) /\ c.pass = "asked"
  BY <1>1 DEF RowsGood
<1>3. r \in GoodRow /\ Unread(r)
  <2>1. "opening" \in Passes
    BY DEF Passes
  <2>2. r \in JobRow /\ r.file = c.file /\ r.dec = c.dec /\ r.store = c.store /\ r.buffer = c.buffer
        /\ r.at = c.at /\ r.result = c.result /\ r.pass = "opening"
    BY <1>2, <2>1 DEF GoodRow, JobRow
  <2> QED BY <1>2, <2>2 DEF GoodRow, Unread
<1>4. scan' = [ClosedJobs EXCEPT ![j] = r]
  BY DEF BeginInspect
<1> HIDE DEF r, c
<1>5. scan' \in [Job -> GoodRow] /\ RowsGood(scan')
  BY <1>1, <1>3, <1>4 DEF RowsGood
<1>6. ExportsTyped'
  BY CloseExportTyped DEF BeginInspect
<1>7. page' \in PageRow /\ jobs' = jobs /\ cur' = 0
  BY StoreApart DEF BeginInspect, CursTyped
<1> QED BY <1>5, <1>6, <1>7, StoreClosed

LEMMA StoreDiscard ==
  ASSUME StoreInv, LargeFiles, Discard
  PROVE  StoreInv'
<1>1. ClosedJobs \in [Job -> GoodRow] /\ RowsGood(ClosedJobs)
  BY ClosedIsGood
<1>2. ExportsTyped'
  BY CloseExportTyped DEF Discard
<1>3. page \in PageRow
  BY StoreApart DEF CursTyped
<1>4. page' \in PageRow
  <2>1. Cleared \in PageRow
    BY DEF Cleared, PageRow, PageStates, LargeFiles
  <2>2. page' = [Cleared EXCEPT !.can = page.can, !.chosen = page.chosen + 1]
    BY DEF Discard
  <2>3. page.can \in BOOLEAN /\ page.chosen + 1 \in Nat
    BY <1>3 DEF PageRow
  <2> QED BY <2>1, <2>2, <2>3 DEF PageRow
<1>5. scan' = ClosedJobs /\ cur' = 0 /\ jobs' = jobs
  BY DEF Discard
<1> QED BY <1>1, <1>2, <1>4, <1>5, StoreClosed

LEMMA StoreOpenStore ==
  ASSUME StoreInv, LargeFiles, NEW j \in Job, j <= jobs, OpenStore(j)
  PROVE  StoreInv'
<1> DEFINE o == scan[j]
           r == [o EXCEPT !.pass = "reading"]
<1>1. o \in GoodRow /\ Unread(o) /\ o.pass = "opening" /\ ExportsTyped /\ CursTyped
  BY RowFacts DEF OpenStore
<1>2. r \in GoodRow /\ r.pass = "reading" /\ r.store = <<>> /\ r.buffer = <<>> /\ r.at = 1
      /\ r.result = "none" /\ r.file \in File
  <2>1. "reading" \in Passes
    BY DEF Passes
  <2>2. r \in JobRow /\ r.file = o.file /\ r.dec = o.dec /\ r.store = o.store /\ r.buffer = o.buffer
        /\ r.at = o.at /\ r.result = o.result /\ r.pass = "reading"
    BY <1>1, <2>1 DEF GoodRow, JobRow
  <2> QED BY <1>1, <2>2 DEF GoodRow, Unread
<1>3. scan' = [scan EXCEPT ![j] = r] /\ cur' = j /\ jobs' = jobs /\ UNCHANGED <<export, page>>
  BY DEF OpenStore
<1> HIDE DEF r, o
<1>4. Unread(r)
  BY <1>2 DEF Unread
<1>5. ReadSoFar(r)
  <2>1. Items[r.file] \in Seq(Pieces)
    BY <1>2 DEF LargeFiles
  <2>2. SubSeq(Items[r.file], 1, 0) = <<>> /\ <<>> \o <<>> = <<>>
    BY <2>1, SubSeqEmpty
  <2>3. Len(Items[r.file]) \in Nat
    BY <2>1, LenProperties
  <2> QED BY <1>2, <2>2, <2>3 DEF ReadSoFar
<1>6. scan \in [Job -> GoodRow] /\ RowsGood(scan)
  BY StoreApart DEF JobsTyped
<1>7. JobsTyped' /\ RowsGood(scan') /\ scan'[j] = r
  BY <1>2, <1>3, <1>4, <1>6 DEF JobsTyped, RowsGood
<1>8. ExportsTyped' /\ CursTyped'
  BY <1>1, <1>3 DEF ExportsTyped, CursTyped, Job
<1> QED BY <1>3, <1>5, <1>7, <1>8, StoreApartNext

LEMMA StoreReadItem ==
  ASSUME StoreInv, LargeFiles, NEW j \in Job, ReadItem(j)
  PROVE  StoreInv'
<1> DEFINE o == scan[j]
           R == Items[o.file]
           read == [o EXCEPT !.buffer = Append(@, R[o.at]), !.at = @ + 1]
<1>1. o \in GoodRow /\ o.pass = "reading" /\ o.at <= Len(R) /\ (j = cur => ReadSoFar(o))
  BY RowFacts DEF ReadItem, RecordsOf
<1>2. R \in Seq(Pieces) /\ Len(R) \in Nat /\ o.at \in Nat \ {0} /\ o.store \in Seq(Pieces) /\ o.buffer \in Seq(Pieces)
  BY <1>1, LenProperties DEF GoodRow, JobRow, LargeFiles
<1>3. R[o.at] \in Pieces
  BY <1>1, <1>2, ElementOfSeq
<1>4. read \in GoodRow /\ read.pass = "reading" /\ read.at = o.at + 1 /\ read.store = o.store
      /\ read.buffer = Append(o.buffer, R[o.at]) /\ read.file = o.file /\ read.result = o.result
  <2>1. PICK b \in Seq(Pieces) : b = Append(o.buffer, R[o.at])
    BY <1>2, <1>3, AppendProperties
  <2>2. o \in JobRow /\ o.at + 1 \in Nat \ {0}
    BY <1>1, <1>2 DEF GoodRow
  <2> DEFINE q == [o EXCEPT !.buffer = b, !.at = o.at + 1]
  <2>3. q \in JobRow /\ q.pass = o.pass /\ q.at = o.at + 1 /\ q.store = o.store
        /\ q.buffer = b /\ q.file = o.file /\ q.dec = o.dec /\ q.result = o.result
    BY <2>2 DEF JobRow
  <2>4. read = q
    BY <2>1
  <2> QED BY <1>1, <2>1, <2>3, <2>4 DEF GoodRow
<1>5. ReadSoFar(o) => read.store \o read.buffer = SubSeq(R, 1, read.at - 1)
  <2>1. o.store \o o.buffer = SubSeq(R, 1, o.at - 1) => o.store \o Append(o.buffer, R[o.at]) = SubSeq(R, 1, o.at)
    <3>1. PICK at \in Nat \ {0} : at = o.at
      BY <1>2
    <3>2. PICK b \in Seq(Pieces) : b = o.buffer
      BY <1>2
    <3>3. PICK s \in Seq(Pieces) : s = o.store
      BY <1>2
    <3>4. at <= Len(R)
      BY <1>1, <3>1
    <3> HIDE DEF o, R
    <3>5. s \o b = SubSeq(R, 1, at - 1) => s \o Append(b, R[at]) = SubSeq(R, 1, at)
      BY <1>2, <3>4, ReadOn
    <3> QED BY <3>1, <3>2, <3>3, <3>5
  <2>2. read.at - 1 = o.at
    BY <1>2, <1>4
  <2> HIDE DEF read
  <2> QED BY <1>4, <2>1, <2>2 DEF ReadSoFar
<1>6. PICK r \in {read, Flushed(read)} : scan' = [scan EXCEPT ![j] = r]
  BY DEF ReadItem, RecordsOf
<1> HIDE DEF read
<1>7. r \in GoodRow /\ r.pass = "reading" /\ r.at = o.at + 1 /\ r.file = o.file /\ r.result = o.result
      /\ r.store \o r.buffer = read.store \o read.buffer
  <2>1. CASE r = read
    BY <1>4, <2>1
  <2>2. CASE r = Flushed(read)
    <3>1. read.store \o read.buffer \in Seq(Pieces)
      BY <1>4, ConcatProperties DEF GoodRow, JobRow
    <3>2. (read.store \o read.buffer) \o <<>> = read.store \o read.buffer
      BY <3>1, ConcatEmptySeq
    <3> QED BY <1>4, <2>2, <3>2, FlushedIsGood
  <2> QED BY <1>6, <2>1, <2>2
<1>8. Unread(r)
  BY <1>7 DEF Unread
<1>9. j = cur => ReadSoFar(r)
  <2> SUFFICES ASSUME ReadSoFar(o) PROVE ReadSoFar(r)
    BY <1>1
  <2>1. r.store \o r.buffer = SubSeq(Items[r.file], 1, r.at - 1)
    BY <1>2, <1>4, <1>5, <1>7
  <2>2. r.result = "none" /\ r.at - 1 <= Len(Items[r.file])
    BY <1>1, <1>2, <1>7 DEF ReadSoFar
  <2> QED BY <1>7, <2>1, <2>2 DEF ReadSoFar
<1> QED BY <1>6, <1>7, <1>8, <1>9, RowFacts, RowStep DEF ReadItem

LEMMA StoreRestart ==
  ASSUME StoreInv, LargeFiles, NEW j \in Job, Restart(j)
  PROVE  StoreInv'
<1> DEFINE o == scan[j]
           r == [Reset(o) EXCEPT !.codec = "latin-1", !.at = 1, !.buffer = <<>>]
<1>1. o \in GoodRow /\ o.pass = "reading" /\ (j = cur => ReadSoFar(o))
  BY RowFacts DEF Restart
<1>2. /\ r \in GoodRow /\ r.pass = "reading" /\ r.at = 1 /\ r.file = o.file /\ r.result = o.result
      /\ r.store = <<>> /\ r.buffer = <<>>
  <2>1. <<>> \in Seq(Pieces) /\ <<>> \in Seq(Decisions) /\ Len(<<>>) <= Len(<<>>)
    OBVIOUS
  <2>2. PICK e : e = <<>>
    OBVIOUS
  <2>3. e \in Seq(Pieces) /\ e \in Seq(Decisions) /\ Len(e) <= Len(e)
    BY <2>1, <2>2
  <2> DEFINE p == [o EXCEPT !.store = e, !.dec = e]
             q == [p EXCEPT !.codec = "latin-1", !.at = 1, !.buffer = e]
  <2>4. p \in JobRow /\ p.pass = o.pass /\ p.file = o.file /\ p.result = o.result /\ p.store = e /\ p.dec = e
    BY <1>1, <2>3 DEF GoodRow, JobRow
  <2>5. r = q
    BY <2>2 DEF Reset
  <2> HIDE DEF p
  <2>6. 1 \in Nat \ {0} /\ "latin-1" \in {"utf-8", "latin-1"}
    OBVIOUS
  <2>7. q \in JobRow
    BY <2>3, <2>4, <2>6 DEF JobRow
  <2>8. q \in JobRow /\ q.pass = o.pass /\ q.at = 1 /\ q.file = o.file /\ q.result = o.result
        /\ q.store = e /\ q.dec = e /\ q.buffer = e
    BY <2>4, <2>7 DEF JobRow
  <2> HIDE DEF q
  <2> QED BY <1>1, <2>2, <2>3, <2>5, <2>8 DEF GoodRow
<1>3. scan' = [scan EXCEPT ![j] = r]
  BY DEF Restart
<1> HIDE DEF r
<1>4. Unread(r)
  BY <1>1, <1>2 DEF Unread
<1>5. j = cur => ReadSoFar(r)
  <2>1. Items[o.file] \in Seq(Pieces)
    BY <1>1 DEF LargeFiles, GoodRow
  <2>2. SubSeq(Items[o.file], 1, 0) = <<>> /\ <<>> \o <<>> = <<>> /\ Len(Items[o.file]) \in Nat
    BY <2>1, SubSeqEmpty, LenProperties
  <2> QED BY <1>1, <1>2, <2>2 DEF ReadSoFar
<1> QED BY <1>2, <1>3, <1>4, <1>5, RowFacts, RowStep DEF Restart

LEMMA StoreFailPass ==
  ASSUME StoreInv, NEW j \in Job, FailPass(j)
  PROVE  StoreInv'
<1> DEFINE o == scan[j]
           r == [o EXCEPT !.pass = "failed"]
<1>1. o \in GoodRow /\ o.pass = "opening" /\ j # cur
  BY RowFacts DEF FailPass, ReadSoFar
<1>2. r \in GoodRow /\ r.pass = "failed"
  <2>1. r \in JobRow /\ r.pass = "failed" /\ r.file = o.file /\ r.dec = o.dec /\ r.store = o.store
    BY <1>1 DEF GoodRow, JobRow, Passes
  <2> QED BY <1>1, <2>1 DEF GoodRow
<1>3. Unread(r)
  BY <1>2 DEF Unread
<1>4. scan' = [scan EXCEPT ![j] = r]
  BY DEF FailPass
<1> QED BY <1>1, <1>2, <1>3, <1>4, RowFacts, RowStep DEF FailPass

LEMMA StoreEndPass ==
  ASSUME StoreInv, LargeFiles, NEW j \in Job, EndPass(j)
  PROVE  StoreInv'
<1> DEFINE o == scan[j]
           f == Flushed(o)
<1>1. o \in GoodRow /\ o.pass = "reading" /\ (j = cur => ReadSoFar(o))
  BY RowFacts DEF EndPass
<1>2. f \in GoodRow /\ f.store = o.store \o o.buffer /\ f.buffer = <<>> /\ f.file = o.file /\ f.at = o.at
  BY <1>1, FlushedIsGood
<1>3. PICK x \in {"done", "cancelled"} :
        /\ x = "done" => o.at > Len(Items[o.file])
        /\ scan' = [scan EXCEPT ![j] = IF cur = j THEN [f EXCEPT !.pass = "ended", !.result = x, !.cancelled = FALSE]
                                               ELSE [o EXCEPT !.pass = "failed"]]
  BY DEF EndPass, RecordsOf
<1>4. CASE cur = j
  <2> DEFINE r == [f EXCEPT !.pass = "ended", !.result = x, !.cancelled = FALSE]
  <2> HIDE DEF f
  <2>1. /\ r \in GoodRow /\ r.pass = "ended" /\ r.result = x /\ r.at = o.at /\ r.file = o.file
        /\ r.store = o.store \o o.buffer /\ r.buffer = <<>>
    <3>1. r \in JobRow /\ r.pass = "ended" /\ r.result = x /\ r.at = f.at /\ r.file = f.file
          /\ r.store = f.store /\ r.buffer = f.buffer /\ r.dec = f.dec
      BY <1>2 DEF GoodRow, JobRow, Passes
    <3>2. o.file \in File
      BY <1>1 DEF GoodRow
    <3> HIDE DEF r
    <3> QED BY <1>2, <3>1, <3>2 DEF GoodRow
  <2>2. scan' = [scan EXCEPT ![j] = r]
    BY <1>3, <1>4
  <2> HIDE DEF r
  <2>3. Unread(r)
    BY <2>1 DEF Unread
  <2>4. ReadSoFar(r)
    <3>1. (o.store \o o.buffer) \o <<>> = o.store \o o.buffer
      <4>1. o.store \o o.buffer \in Seq(Pieces)
        BY <1>1, ConcatProperties DEF GoodRow, JobRow
      <4> QED BY <4>1, ConcatEmptySeq
    <3>2. r.store \o r.buffer = SubSeq(Items[r.file], 1, r.at - 1) /\ r.at - 1 <= Len(Items[r.file])
      BY <1>1, <1>4, <2>1, <3>1 DEF ReadSoFar
    <3>3. r.result = "done" => r.at = Len(Items[r.file]) + 1
      <4>1. Len(Items[o.file]) \in Nat /\ o.at \in Nat
        BY <1>1, LenProperties DEF GoodRow, JobRow, LargeFiles
      <4> QED BY <1>3, <2>1, <3>2, <4>1
    <3> QED BY <2>1, <3>2, <3>3 DEF ReadSoFar
  <2> QED BY <2>1, <2>2, <2>3, <2>4, RowFacts, RowStep DEF EndPass
<1>5. CASE cur # j
  <2> DEFINE r == [o EXCEPT !.pass = "failed"]
  <2>1. r \in GoodRow /\ r.pass = "failed"
    <3>1. r \in JobRow /\ r.pass = "failed" /\ r.file = o.file /\ r.dec = o.dec /\ r.store = o.store
      BY <1>1 DEF GoodRow, JobRow, Passes
    <3> QED BY <1>1, <3>1 DEF GoodRow
  <2>2. Unread(r)
    BY <2>1 DEF Unread
  <2>3. scan' = [scan EXCEPT ![j] = r]
    BY <1>3, <1>5
  <2> QED BY <1>5, <2>1, <2>2, <2>3, RowFacts, RowStep DEF EndPass
<1> QED BY <1>4, <1>5

\* The page after an answer.
LEMMA AnsweredPage ==
  ASSUME StoreInv, LargeFiles, NEW j \in Job, AnswerInspect(j)
  PROVE  page' \in PageRow
<1>1. page \in PageRow /\ j \in 0 .. MaxJobs
  BY StoreApart DEF CursTyped, Job, LargeFiles
<1>2. {"failed", "cancelled", "awaiting_review"} \subseteq PageStates
  BY DEF PageStates
<1>3. CASE scan[j].pass = "failed"
  <2>1. page' = [page EXCEPT !.state = "failed", !.can = TRUE]
    BY <1>3 DEF AnswerInspect
  <2> QED BY <1>1, <1>2, <2>1 DEF PageRow
<1>4. CASE scan[j].pass # "failed"
  <2>1. PICK s \in {"cancelled", "awaiting_review"} : page' = [page EXCEPT !.shows = j, !.can = TRUE, !.state = s]
    BY <1>4 DEF AnswerInspect
  <2> QED BY <1>1, <1>2, <2>1 DEF PageRow
<1> QED BY <1>3, <1>4

LEMMA StoreAnswerInspect ==
  ASSUME StoreInv, LargeFiles, NEW j \in Job, AnswerInspect(j)
  PROVE  StoreInv'
<1> DEFINE o == scan[j]
<1>1. o \in GoodRow /\ o.pass \in {"ended", "failed"} /\ (j = cur => ReadSoFar(o))
  BY RowFacts DEF AnswerInspect
<1>2. "answered" \in Passes
  BY DEF Passes
<1>3. ExportsTyped' /\ CursTyped' /\ cur' = cur /\ jobs' = jobs
  BY RowFacts, AnsweredPage DEF AnswerInspect, CursTyped
<1>4. CASE o.pass = "failed"
  <2> DEFINE r == [NoJob EXCEPT !.file = o.file, !.pass = "answered"]
  <2>1. r \in GoodRow /\ r.pass = "answered"
    <3>1. o.file \in File
      BY <1>1 DEF GoodRow
    <3> QED BY <1>2, <3>1, ClosedRowIsGood
  <2>2. Unread(r) /\ j # cur
    BY <1>1, <1>4, <2>1 DEF Unread, ReadSoFar
  <2>3. scan' = [scan EXCEPT ![j] = r]
    BY <1>4 DEF AnswerInspect
  <2> QED BY <1>3, <2>1, <2>2, <2>3, RowStep
<1>5. CASE o.pass = "ended"
  <2> DEFINE r == [o EXCEPT !.pass = "answered"]
  <2>1. /\ r \in JobRow /\ r.pass = "answered" /\ r.file = o.file /\ r.dec = o.dec /\ r.store = o.store
        /\ r.buffer = o.buffer /\ r.at = o.at /\ r.result = o.result
    BY <1>1, <1>2 DEF GoodRow, JobRow
  <2>2. scan' = [scan EXCEPT ![j] = r]
    BY <1>5 DEF AnswerInspect
  <2> HIDE DEF r
  <2>3. r \in GoodRow
    BY <1>1, <1>5, <2>1 DEF GoodRow
  <2>4. Unread(r) /\ (j = cur => ReadSoFar(r))
    BY <1>1, <1>5, <2>1 DEF Unread, ReadSoFar
  <2> QED BY <1>3, <2>2, <2>3, <2>4, RowStep
<1> QED BY <1>1, <1>4, <1>5

(* ---- the other steps ---- *)

\* New decisions on the records of the current job.
LEMMA Redecided ==
  ASSUME StoreInv, ExportsTyped', UNCHANGED <<cur, page, jobs>>, Ready,
         NEW ids, NEW d \in Decisions, scan' = [scan EXCEPT ![cur].dec = SetDecisions(cur, ids, d)]
  PROVE  StoreInv'
<1> DEFINE o == scan[cur]
           dec == SetDecisions(cur, ids, d)
           r == [o EXCEPT !.dec = dec]
<1>1. cur \in Job
  BY StoreApart DEF CursTyped, Job, Ready
<1>2. o \in GoodRow /\ ReadSoFar(o) /\ Unread(o)
  BY <1>1, RowFacts
<1>3. dec \in Seq(Decisions) /\ Len(dec) = Len(o.dec)
  <2>1. o.dec \in Seq(Decisions)
    BY <1>2 DEF GoodRow, JobRow
  <2>2. Len(o.dec) \in Nat /\ DOMAIN o.dec = 1 .. Len(o.dec) /\ \A i \in 1 .. Len(o.dec) : o.dec[i] \in Decisions
    BY <2>1, LenProperties, ElementOfSeq
  <2>3. dec \in [1 .. Len(o.dec) -> Decisions]
    BY <2>2 DEF SetDecisions
  <2> QED BY <2>2, <2>3, FunctionIsSequence
<1>4. scan' = [scan EXCEPT ![cur] = r]
  OBVIOUS
<1> HIDE DEF dec
<1>5. /\ r \in JobRow /\ r.pass = o.pass /\ r.file = o.file /\ r.dec = dec /\ r.store = o.store
      /\ r.buffer = o.buffer /\ r.at = o.at /\ r.result = o.result
  BY <1>2, <1>3 DEF GoodRow, JobRow
<1> HIDE DEF r
<1>6. r \in GoodRow /\ Unread(r) /\ ReadSoFar(r)
  BY <1>2, <1>3, <1>5 DEF GoodRow, Unread, ReadSoFar
<1> QED BY <1>1, <1>4, <1>6, RowFacts, RowStep

LEMMA WitnessedTyped ==
  ASSUME StoreInv, NEW dec, export' = Witnessed(cur, dec), cur # 0
  PROVE  ExportsTyped'
<1>1. ExportsTyped /\ cur \in Job
  BY StoreApart DEF CursTyped, Job
<1> DEFINE now == Approved(dec, scan[cur].store)
           splicing == export[cur].phase = "splice"
           e == [export[cur] EXCEPT !.ever = IF splicing THEN @ \cup now ELSE @,
                                    !.always = IF splicing THEN @ \cap now ELSE @]
<1>2. DOMAIN e = DOMAIN export[cur] /\ ("phase" \in DOMAIN e => e.phase = export[cur].phase)
  OBVIOUS
<1>3. export' = [export EXCEPT ![cur] = e]
  BY <1>1 DEF Witnessed, ExportsTyped
<1> HIDE DEF e
<1> QED BY <1>1, <1>2, <1>3 DEF ExportsTyped, GoodExport

LEMMA StoreReview ==
  ASSUME StoreInv, LargeFiles, Review
  PROVE  StoreInv'
<1>1. ASSUME NEW filter, NEW n, NEW d \in Verdicts, DecideRows(filter, n, d) PROVE StoreInv'
  <2>1. Ready /\ cur # 0 /\ UNCHANGED <<cur, page, jobs>> /\ d \in Decisions
    BY <1>1 DEF DecideRows, Ready, LargeFiles
  <2>2. /\ scan' = [scan EXCEPT ![cur].dec = SetDecisions(cur, Decidable(cur, filter), d)]
        /\ export' = Witnessed(cur, SetDecisions(cur, Decidable(cur, filter), d))
    BY <1>1 DEF DecideRows
  <2> QED BY <2>1, <2>2, WitnessedTyped, Redecided
<1>2. ASSUME NEW filter, Undo(filter) PROVE StoreInv'
  <2>1. Ready /\ cur # 0 /\ UNCHANGED <<cur, page, jobs>> /\ "proposed" \in Decisions
    BY <1>2 DEF Undo, Ready, Decisions
  <2>2. PICK ids : /\ scan' = [scan EXCEPT ![cur].dec = SetDecisions(cur, ids, "proposed")]
                   /\ export' = Witnessed(cur, SetDecisions(cur, ids, "proposed"))
    BY <1>2 DEF Undo
  <2> QED BY <2>1, <2>2, WitnessedTyped, Redecided
<1> QED BY <1>1, <1>2 DEF Review

\* The signal of the current job is set or set back.
LEMMA Signalled ==
  ASSUME StoreInv, ExportsTyped', CursTyped', UNCHANGED <<cur, jobs>>, cur # 0,
         NEW b \in BOOLEAN, scan' = [scan EXCEPT ![cur].cancelled = b]
  PROVE  StoreInv'
<1> DEFINE o == scan[cur]
           r == [o EXCEPT !.cancelled = b]
<1>1. cur \in Job
  BY StoreApart DEF CursTyped, Job
<1>2. o \in GoodRow /\ ReadSoFar(o) /\ Unread(o)
  BY <1>1, RowFacts
<1>3. /\ r \in JobRow /\ r.pass = o.pass /\ r.file = o.file /\ r.dec = o.dec /\ r.store = o.store
      /\ r.buffer = o.buffer /\ r.at = o.at /\ r.result = o.result
  BY <1>2 DEF GoodRow, JobRow
<1>4. scan' = [scan EXCEPT ![cur] = r]
  OBVIOUS
<1> HIDE DEF r
<1>5. r \in GoodRow /\ Unread(r) /\ ReadSoFar(r)
  BY <1>2, <1>3 DEF GoodRow, Unread, ReadSoFar
<1> QED BY <1>1, <1>4, <1>5, RowStep

LEMMA StoreCancel ==
  ASSUME StoreInv, Cancel
  PROVE  StoreInv'
<1>1. ExportsTyped' /\ CursTyped' /\ cur # 0 /\ UNCHANGED <<cur, jobs>>
  BY StoreApart DEF Cancel, ExportsTyped, CursTyped
<1>2. scan' = [scan EXCEPT ![cur].cancelled = TRUE]
  BY DEF Cancel
<1> QED BY <1>1, <1>2, Signalled

LEMMA StoreBuild ==
  ASSUME StoreInv, BuildExport
  PROVE  StoreInv'
<1>1. ExportsTyped /\ CursTyped /\ page \in PageRow /\ UNCHANGED <<cur, jobs>>
  BY StoreApart DEF BuildExport, CursTyped
<1>2. {"exporting", "failed"} \subseteq PageStates
  BY DEF PageStates
<1>3. CASE Ready
  <2>1. /\ page' = [page EXCEPT !.state = "exporting", !.offered = FALSE]
        /\ scan' = [scan EXCEPT ![cur].cancelled = FALSE] /\ cur # 0
    BY <1>3 DEF BuildExport, Ready
  <2>2. CursTyped'
    BY <1>1, <1>2, <2>1 DEF CursTyped, PageRow
  <2>3. ExportsTyped'
    <3>1. PICK e : export' = [export EXCEPT ![cur] = e] /\ GoodExport(e)
      <4>1. \A x, y, z : GoodExport([NoExport EXCEPT !.phase = "splice", !.edit = x, !.ever = y, !.always = z])
        BY DEF NoExport, GoodExport, Phases
      <4>2. export' = [export EXCEPT ![cur] =
                         [NoExport EXCEPT !.phase = "splice", !.edit = NextEdit(cur, 0),
                                            !.ever = Approved(scan[cur].dec, scan[cur].store),
                                            !.always = Approved(scan[cur].dec, scan[cur].store)]]
        BY <1>3 DEF BuildExport
      <4> QED BY <4>1, <4>2, Zenon
    <3> QED BY <1>1, <3>1 DEF ExportsTyped
  <2> QED BY <1>1, <2>1, <2>2, <2>3, Signalled
<1>4. CASE ~Ready
  <2>1. page' = [page EXCEPT !.state = "failed"] /\ UNCHANGED <<scan, export>>
    BY <1>4 DEF BuildExport
  <2>2. CursTyped' /\ ExportsTyped'
    BY <1>1, <1>2, <2>1 DEF CursTyped, ExportsTyped, PageRow
  <2> QED BY <1>1, <2>1, <2>2, SameJobs
<1> QED BY <1>3, <1>4

LEMMA StoreChoose ==
  ASSUME StoreInv, LargeFiles, NEW f \in File, ChooseFile(f)
  PROVE  StoreInv'
<1>1. ExportsTyped' /\ UNCHANGED <<scan, cur, jobs>>
  BY StoreApart DEF ChooseFile, ExportsTyped
<1>2. page' \in PageRow
  <2>1. Cleared \in PageRow
    BY DEF Cleared, PageRow, PageStates, LargeFiles
  <2>2. page' = [Cleared EXCEPT !.file = f, !.chosen = page.chosen + 1]
    BY DEF ChooseFile
  <2>3. page.chosen + 1 \in Nat
    BY StoreApart DEF CursTyped, PageRow
  <2> QED BY <2>1, <2>2, <2>3 DEF PageRow
<1>3. CursTyped'
  BY <1>1, <1>2, StoreApart DEF CursTyped
<1> QED BY <1>1, <1>3, SameJobs

\* An export goes through its phases.
LEMMA ExportMoves ==
  ASSUME StoreInv, NEW j \in Job, Export(j)
  PROVE  ExportsTyped' /\ UNCHANGED <<scan, cur, jobs>>
<1> DEFINE e == export[j]
<1>1. ExportsTyped /\ "phase" \in DOMAIN e /\ e.phase \in Phases
  BY StoreApart DEF ExportsTyped, GoodExport
<1>2. /\ {"none", "splice", "exceptions", "ledger", "done", "failed", "cancelled", "answered"} \subseteq Phases
      /\ \A p \in Phases : GoodExport([NoExport EXCEPT !.phase = p])
      /\ \A p \in Phases : GoodExport([e EXCEPT !.phase = p])
  BY <1>1 DEF Phases, GoodExport, NoExport
<1>3. ASSUME NEW r, export' = [export EXCEPT ![j] = r], GoodExport(r) PROVE ExportsTyped'
  BY <1>1, <1>3 DEF ExportsTyped
<1>4. ASSUME NEW k, NextChunk(j, k) PROVE ExportsTyped'
  <2>1. CASE scan[j].cancelled
    <3>1. export' = [export EXCEPT ![j] = [e EXCEPT !.phase = "cancelled"]]
      BY <1>4, <2>1 DEF NextChunk
    <3> QED BY <1>2, <1>3, <3>1
  <2>2. CASE ~scan[j].cancelled
    <3>1. DOMAIN export' = DOMAIN export /\ \A i \in Job : DOMAIN export'[i] = DOMAIN export[i] /\ export'[i].phase = export[i].phase
      BY <1>1, <1>4, <2>2 DEF NextChunk, ExportsTyped, GoodExport
    <3> QED BY <1>1, <3>1 DEF ExportsTyped, GoodExport
  <2> QED BY <2>1, <2>2
<1>5. ASSUME Splice(j) PROVE ExportsTyped'
  <2>1. PICK r \in {[e EXCEPT !.phase = "failed"],
                    [e EXCEPT !.out = @ \o SubSeq(e.chunk, e.cursor + 1, Starts(j)) \o RecordsOf(j)[e.edit].cand,
                              !.cursor = Starts(j) + RecordsOf(j)[e.edit].len, !.applied = @ \cup {e.edit},
                              !.edit = NextEdit(j, e.edit)]} : export' = [export EXCEPT ![j] = r]
    BY <1>5 DEF Splice
  <2>2. GoodExport(r)
    BY <1>1, <1>2, <2>1 DEF GoodExport
  <2> QED BY <1>3, <2>1, <2>2
<1>6. ASSUME EndChunk(j) PROVE ExportsTyped'
  <2>1. PICK o, c : export' = [export EXCEPT ![j] = [e EXCEPT !.out = o, !.carry = c, !.chunk = Null]]
    BY <1>6 DEF EndChunk
  <2>2. GoodExport([e EXCEPT !.out = o, !.carry = c, !.chunk = Null])
    BY <1>1 DEF GoodExport
  <2> QED BY <1>3, <2>1, <2>2
<1>7. ASSUME EndText(j) PROVE ExportsTyped'
  <2>1. DOMAIN export' = DOMAIN export /\ \A i \in Job : /\ DOMAIN export'[i] = DOMAIN export[i]
                                                         /\ export'[i].phase \in {export[i].phase, "exceptions", "failed"}
    BY <1>1, <1>7 DEF EndText, ExportsTyped, GoodExport
  <2> QED BY <1>1, <1>2, <2>1 DEF ExportsTyped, GoodExport
<1>8. ASSUME WriteExceptions(j) \/ WriteLedger(j) \/ AnswerExport(j) PROVE ExportsTyped'
  <2>1. PICK p \in Phases : export' = [export EXCEPT ![j] = [NoExport EXCEPT !.phase = p]]
    BY <1>2, <1>8 DEF WriteExceptions, WriteLedger, AnswerExport
  <2> QED BY <1>2, <1>3, <2>1
<1>9. UNCHANGED <<scan, cur, jobs>>
  BY DEF Export, NextChunk, Splice, EndChunk, EndText, WriteExceptions, WriteLedger, AnswerExport
<1> QED BY <1>4, <1>5, <1>6, <1>7, <1>8, <1>9 DEF Export

LEMMA StoreExport ==
  ASSUME StoreInv, NEW j \in Job, Export(j)
  PROVE  StoreInv'
<1>1. page \in PageRow /\ CursTyped
  BY StoreApart DEF CursTyped
<1>2. page' \in PageRow
  <2>1. CASE AnswerExport(j)
    <3>1. {"failed", "awaiting_review", "completed"} \subseteq PageStates
      BY DEF PageStates
    <3>2. \/ page' = page
          \/ page' = [page EXCEPT !.state = "failed"]
          \/ page' = [page EXCEPT !.state = "awaiting_review"]
          \/ page' = [page EXCEPT !.state = "completed", !.offered = TRUE]
      BY <2>1 DEF AnswerExport
    <3> QED BY <1>1, <3>1, <3>2 DEF PageRow
  <2>2. CASE ~AnswerExport(j)
    <3>1. page' = page
      BY <2>2 DEF Export, NextChunk, Splice, EndChunk, EndText, WriteExceptions, WriteLedger
    <3> QED BY <1>1, <3>1
  <2> QED BY <2>1, <2>2
<1>3. CursTyped'
  BY <1>1, <1>2, ExportMoves DEF CursTyped
<1> QED BY <1>3, ExportMoves, SameJobs

LEMMA StoreStep ==
  ASSUME LargeFiles, StoreInv, [LargeNext]_largeVars
  PROVE  StoreInv'
<1>1. \A j \in 1 .. jobs : j \in Job /\ j <= jobs
  BY StoreApart DEF CursTyped, Job, LargeFiles
<1>2. CASE \E f \in File : ChooseFile(f)
  BY <1>2, StoreChoose
<1>3. CASE InspectLarge \/ Cancel \/ Discard \/ Review \/ BuildExport
  BY <1>3, StoreInspect, StoreCancel, StoreDiscard, StoreReview, StoreBuild
<1>4. ASSUME NEW j \in 1 .. jobs, Pass(j) PROVE StoreInv'
  BY <1>1, <1>4, StoreBeginInspect, StoreOpenStore, StoreReadItem, StoreRestart, StoreEndPass, StoreFailPass,
     StoreAnswerInspect DEF Pass
<1>5. ASSUME NEW j \in 1 .. jobs, Export(j) PROVE StoreInv'
  BY <1>1, <1>5, StoreExport
<1>6. CASE UNCHANGED largeVars
  <2>1. ExportsTyped' /\ CursTyped'
    BY <1>6, StoreApart DEF largeVars, ExportsTyped, CursTyped
  <2> QED BY <1>6, <2>1, SameJobs DEF largeVars
<1> QED BY <1>2, <1>3, <1>4, <1>5, <1>6 DEF LargeNext

LEMMA StoreStarts ==
  ASSUME LargeFiles, LargeInit
  PROVE  StoreInv
<1>1. PICK e : e = <<>>
  OBVIOUS
<1>2. e \in Seq(Pieces) /\ e \in Seq(Decisions) /\ Len(e) <= Len(e)
  BY <1>1
<1>3. NoJob = [file |-> Null, store |-> e, dec |-> e, codec |-> "utf-8", buffer |-> e, at |-> 1,
                 result |-> "none", cancelled |-> FALSE, pass |-> "none"]
  BY <1>1 DEF NoJob
<1>4. NoJob \in JobRow
  BY <1>2, <1>3 DEF JobRow, Passes
<1>5. NoJob \in GoodRow /\ Unread(NoJob)
  BY <1>1, <1>2, <1>3, <1>4 DEF GoodRow, Unread
<1>6. JobsTyped /\ RowsGood(scan)
  BY <1>5 DEF LargeInit, JobsTyped, RowsGood
<1>7. ExportsTyped
  BY DEF LargeInit, NoExport, ExportsTyped, GoodExport, Phases
<1>8. CursTyped /\ cur = 0
  <2>1. Cleared \in PageRow
    BY DEF Cleared, PageRow, PageStates, LargeFiles
  <2>2. page = [Cleared EXCEPT !.can = FALSE] /\ cur = 0 /\ jobs = 0
    BY DEF LargeInit
  <2>3. page \in PageRow
    BY <2>1, <2>2 DEF PageRow
  <2> QED BY <2>2, <2>3 DEF CursTyped, LargeFiles
<1> QED BY <1>6, <1>7, <1>8, StoreApart

\* What was read of the file is a beginning of it.
LEMMA InvIsWhole ==
  ASSUME LargeFiles, StoreInv
  PROVE  StoreIsWhole
<1>1. LargeTypeOK
  BY DEF StoreInv, StoreTyped
<1>2. ASSUME cur # 0, scan[cur].result # "none"
      PROVE  /\ IsPrefix(scan[cur].store, RecordsOf(cur))
             /\ scan[cur].result = "done" => scan[cur].store = RecordsOf(cur)
  <2> DEFINE o == scan[cur]
             R == Items[o.file]
  <2>1. cur \in Job
    BY <1>2, StoreApart DEF CursTyped, Job
  <2>2. o \in GoodRow /\ ReadSoFar(o)
    BY <2>1, RowFacts
  <2>3. R \in Seq(Pieces) /\ Len(R) \in Nat /\ o.store \in Seq(Pieces) /\ o.at \in Nat \ {0}
    BY <2>2, LenProperties DEF GoodRow, JobRow, LargeFiles, ReadSoFar
  <2>4. o.store = SubSeq(R, 1, o.at - 1) /\ o.at - 1 <= Len(R)
    <3>1. o.store \o <<>> = o.store
      BY <2>3, ConcatEmptySeq
    <3> QED BY <1>2, <2>2, <3>1 DEF ReadSoFar
  <2>5. Len(o.store) = o.at - 1
    <3>1. \A i \in 1 .. o.at - 1 : R[i] \in Pieces
      BY <2>3, <2>4, ElementOfSeq
    <3> QED BY <2>3, <2>4, <3>1, SubSeqProperties
  <2>6. IsPrefix(o.store, R)
    <3>1. SubSeq(o.store, 1, Len(o.store)) = o.store
      BY <2>3, SubSeqFull
    <3> QED BY <2>4, <2>5, <3>1 DEF IsPrefix
  <2>7. o.result = "done" => o.store = R
    <3>1. SubSeq(R, 1, Len(R)) = R
      BY <2>3, SubSeqFull
    <3>2. o.result = "done" => o.at - 1 = Len(R)
      <4>1. o.result = "done" => o.at = Len(R) + 1
        BY <2>2 DEF ReadSoFar
      <4> QED BY <2>3, <4>1
    <3> QED BY <2>4, <3>1, <3>2
  <2> QED BY <2>6, <2>7 DEF RecordsOf
<1> QED BY <1>1, <1>2 DEF StoreIsWhole

\* Whether the pass over a large file runs through, begins again in another encoding, is
\* cancelled, fails, or is overtaken by the next one: what the current job holds once it has
\* ended are the records of its file, each once and in order.
THEOREM WholeAndInOrder ==
  ASSUME LargeFiles
  PROVE  LargeSpec => []StoreIsWhole
<1>1. LargeInit => StoreInv
  BY StoreStarts
<1>2. StoreInv /\ [LargeNext]_largeVars => StoreInv'
  BY StoreStep
<1>3. StoreInv => StoreIsWhole
  BY InvIsWhole
<1> QED BY <1>1, <1>2, <1>3, PTL DEF LargeSpec

(* ---- enrichment requests ---- *)

RunRow == [step : Steps, used : Nat, made : Nat, seen : SUBSET Ident, unread : SUBSET Ident,
           left : SUBSET Ident, now : SUBSET Ident, errors : SUBSET Ident]

Question == [of : Ident, known : BOOLEAN]

RequestRow == [authorized : BOOLEAN, status : Status, made : Nat, seen : SUBSET Ident, errors : SUBSET Ident]

\* The types, apart.
RequestTypes == /\ row \in RequestRow /\ kept \subseteq Ident /\ run \in [Runner -> RunRow]
                /\ log \in Seq(Question) /\ alone \in BOOLEAN /\ runs \in Nat

LEMMA RequestTypesApart == RequestTypeOK <=> RequestTypes
BY DEF RequestTypeOK, RequestTypes, RequestRow, RunRow, Question

LEMMA AtRestIsRow == AtRest \in RunRow
BY DEF RunRow, AtRest, Steps

\* A step moves one run.
LEMMA OneRunMoves ==
  ASSUME RequestTypes, NEW c \in Runner, NEW r \in RunRow, Moves(c, r)
  PROVE  run' \in [Runner -> RunRow] /\ run'[c] = r /\ \A d \in Runner \ {c} : run'[d] = run[d]
BY DEF RequestTypes, Moves

\* What a run holds stays whole when results are added.
LEMMA RunsStayWhole ==
  ASSUME RequestTypes, \A d \in Runner : RunIsWhole(d), kept \subseteq kept', row.authorized => row'.authorized,
         NEW c \in Runner, NEW r \in RunRow, Moves(c, r),
         r.step # "idle" => row'.authorized,
         r.step # "keep" => r.now = {},
         r.step \in {"ask", "keep"} => r.seen \subseteq kept' \cup r.errors \cup r.unread \cup r.left \cup r.now
  PROVE  \A d \in Runner : RunIsWhole(d)'
<1>1. RunIsWhole(c)'
  BY OneRunMoves DEF RunIsWhole, Busy
<1>2. ASSUME NEW d \in Runner \ {c} PROVE RunIsWhole(d)'
  BY <1>2, OneRunMoves DEF RunIsWhole, Busy
<1> QED BY <1>1, <1>2

\* As long as runs are alone, only the one that moves counts.
LEMMA SoloStays ==
  ASSUME RequestTypes, NEW c \in Runner, NEW r \in RunRow, Moves(c, r),
         alone' => \A d \in Runner \ {c} : ~Busy(d),
         alone' /\ r.step # "idle" => Len(log') = r.used + r.made /\ r.left \cap (kept' \cup r.now) = {},
         alone' /\ r.step = "idle" => row'.status = "failed" \/ Len(log') = row'.made
  PROVE  Solo'
<1>1. \A d \in Runner \ {c} : Busy(d)' <=> Busy(d)
  BY OneRunMoves DEF Busy
<1>2. Busy(c)' <=> r.step # "idle"
  BY OneRunMoves DEF Busy
<1>3. run'[c] = r
  BY OneRunMoves
<1> QED BY <1>1, <1>2, <1>3 DEF Solo

\* A busy run that is alone is the only one.
LEMMA OnlyOne ==
  ASSUME Solo, alone, NEW c \in Runner, Busy(c)
  PROVE  \A d \in Runner \ {c} : ~Busy(d)
BY DEF Solo

\* One more question.
LEMMA LogGrows ==
  ASSUME RequestTypes, NEW i \in Ident, Asked(i)
  PROVE  /\ log' \in Seq(Question) /\ Len(log') = Len(log) + 1 /\ Len(log) \in Nat /\ log' # <<>>
         /\ i \notin kept => \A n \in DOMAIN log' : log'[n].known => n \in DOMAIN log /\ log[n].known
<1>1. log \in Seq(Question) /\ [of |-> i, known |-> i \in kept] \in Question
  BY DEF RequestTypes, Question
<1>2. /\ log' \in Seq(Question) /\ Len(log') = Len(log) + 1 /\ Len(log) \in Nat
      /\ \A n \in 1 .. Len(log) : log'[n] = log[n]
      /\ log'[Len(log) + 1] = [of |-> i, known |-> i \in kept]
  BY <1>1, AppendProperties, LenProperties DEF Asked
<1>3. log' # <<>>
  BY <1>2, EmptySeq
<1>4. ASSUME i \notin kept, NEW n \in DOMAIN log', log'[n].known PROVE n \in DOMAIN log /\ log[n].known
  <2>1. n \in 1 .. Len(log) + 1 /\ DOMAIN log = 1 .. Len(log)
    BY <1>1, <1>2, <1>4, LenProperties
  <2>2. CASE n = Len(log) + 1
    <3>1. log'[n].known = (i \in kept)
      BY <1>2, <2>2
    <3> QED BY <1>4, <3>1
  <2>3. CASE n # Len(log) + 1
    BY <1>2, <1>4, <2>1, <2>3
  <2> QED BY <2>2, <2>3
<1> QED BY <1>2, <1>3, <1>4


\* The property without the types.
Honest == BudgetIsKept /\ CompletedIsAnswered

LEMMA RequestStarts ==
  ASSUME RequestBounds, RequestInit
  PROVE  RequestInv
<1>1. RequestTypes
  <2>1. <<>> \in Seq(Question)
    BY EmptySeq
  <2> QED BY <2>1, AtRestIsRow DEF RequestInit, RequestTypes, RequestRow, Status
<1>2. Len(log) = 0 /\ DOMAIN log = {}
  BY EmptySeq DEF RequestInit
<1>3. RequestTypeOK /\ Honest
  BY <1>1, <1>2, RequestTypesApart DEF RequestInit, Honest, BudgetIsKept, CompletedIsAnswered, RequestBounds
<1>4. \A c \in Runner : RunIsWhole(c) /\ ~Busy(c)
  BY DEF RequestInit, RunIsWhole, Busy, AtRest
<1>5. Solo
  BY <1>2, <1>4 DEF RequestInit, Solo
<1> QED BY <1>3, <1>4, <1>5 DEF RequestInv, RequestIsHonest, Honest

LEMMA RequestKeeps ==
  ASSUME RequestBounds, RequestInv, RequestNext
  PROVE  RequestInv'
<1>0. RequestTypes /\ Solo /\ Honest /\ (\A d \in Runner : RunIsWhole(d))
  BY RequestTypesApart DEF RequestInv, RequestIsHonest, Honest
<1>q. ASSUME RequestTypes', Solo', Honest', \A d \in Runner : RunIsWhole(d)'
      PROVE  RequestInv'
  <2>1. RequestTypeOK'
    BY <1>q DEF RequestTypeOK, RequestTypes, RequestRow, RunRow, Question
  <2> QED BY <1>q, <2>1 DEF RequestInv, RequestIsHonest, Honest
<1>f. ASSUME NEW c \in Runner
      PROVE  /\ run[c] \in RunRow /\ run[c].used \in Nat /\ run[c].made \in Nat
             /\ run[c].seen \subseteq Ident /\ run[c].errors \subseteq Ident /\ run[c].unread \subseteq Ident
             /\ run[c].left \subseteq Ident /\ run[c].now \subseteq Ident
  <2>1. run[c] \in RunRow
    BY <1>0 DEF RequestTypes
  <2> QED BY <2>1 DEF RunRow
<1>1. CASE AuthorizeRequest
  <2>1. RequestTypes'
    BY <1>0, <1>1 DEF AuthorizeRequest, RequestTypes, RequestRow
  <2>2. row'.authorized /\ row'.status = row.status /\ row'.made = row.made /\ row'.seen = row.seen /\ row'.errors = row.errors
    BY <1>0, <1>1 DEF AuthorizeRequest, RequestTypes, RequestRow
  <2>3. \A d \in Runner : RunIsWhole(d)' /\ (Busy(d)' <=> Busy(d))
    BY <1>0, <1>1, <2>2 DEF AuthorizeRequest, RunIsWhole, Busy
  <2>4. Solo'
    BY <1>0, <1>1, <2>2, <2>3 DEF AuthorizeRequest, Solo
  <2>5. Honest'
    BY <1>0, <1>1, <2>2 DEF AuthorizeRequest, Honest, BudgetIsKept, CompletedIsAnswered
  <2> QED BY <1>q, <2>1, <2>3, <2>4, <2>5
<1>2. ASSUME NEW c \in Runner, BeginRun(c) PROVE RequestInv'
  <2> DEFINE r == [AtRest EXCEPT !.step = "begun", !.used = row.made]
  <2>1. r \in RunRow /\ r.step = "begun" /\ r.used = row.made /\ r.made = 0 /\ r.left = {} /\ r.now = {}
    BY <1>0, AtRestIsRow DEF RunRow, Steps, AtRest, RequestTypes, RequestRow
  <2>2. Moves(c, r)
    BY <1>2 DEF BeginRun
  <2> HIDE DEF r
  <2>3. RequestTypes'
    BY <1>0, <1>2, <2>1, <2>2, OneRunMoves DEF BeginRun, RequestTypes
  <2>4. \A d \in Runner : RunIsWhole(d)'
    BY <1>0, <1>2, <2>1, <2>2, RunsStayWhole DEF BeginRun
  <2>5. Solo'
    <3>1. alone' => alone /\ \A d \in Runner : ~Busy(d)
      BY <1>2 DEF BeginRun
    <3>2. row.made \in Nat
      BY <1>0 DEF RequestTypes, RequestRow
    <3>3. alone' => Len(log) = row.made
      BY <1>0, <1>2, <3>1 DEF Solo, BeginRun, Ended
    <3> QED BY <1>0, <1>2, <2>1, <2>2, <3>1, <3>2, <3>3, SoloStays DEF BeginRun
  <2>6. Honest'
    BY <1>0, <1>2 DEF BeginRun, Honest, BudgetIsKept, CompletedIsAnswered
  <2> QED BY <1>q, <2>3, <2>4, <2>5, <2>6
<1>3. ASSUME NEW c \in Runner, NotConfigured(c) PROVE RequestInv'
  <2>1. AtRest \in RunRow /\ AtRest.step = "idle" /\ AtRest.now = {}
    BY AtRestIsRow DEF AtRest
  <2>2. Moves(c, AtRest) /\ Busy(c)
    BY <1>3 DEF NotConfigured, Busy
  <2>3. row' \in RequestRow /\ row'.status = "failed" /\ row'.authorized = row.authorized
    BY <1>0, <1>3 DEF NotConfigured, RequestTypes, RequestRow, Status
  <2>4. RequestTypes'
    BY <1>0, <1>3, <2>1, <2>2, <2>3, OneRunMoves DEF NotConfigured, RequestTypes
  <2>5. \A d \in Runner : RunIsWhole(d)'
    BY <1>0, <1>3, <2>1, <2>2, <2>3, RunsStayWhole DEF NotConfigured
  <2>6. Solo'
    BY <1>0, <1>3, <2>1, <2>2, <2>3, OnlyOne, SoloStays DEF NotConfigured
  <2>7. Honest'
    BY <1>0, <1>3, <2>3 DEF NotConfigured, Honest, BudgetIsKept, CompletedIsAnswered
  <2> QED BY <1>q, <2>4, <2>5, <2>6, <2>7
<1>4. ASSUME NEW c \in Runner, NEW ids \in SUBSET Ident, StartRun(c, ids) PROVE RequestInv'
  <2> DEFINE r == [run[c] EXCEPT !.step = "ask", !.seen = ids, !.unread = ids]
  <2>1. /\ r \in RunRow /\ r.step = "ask" /\ r.used = run[c].used /\ r.made = run[c].made /\ r.left = run[c].left
        /\ r.now = run[c].now /\ r.seen = ids /\ r.unread = ids
    BY <1>f DEF RunRow, Steps
  <2>2. Moves(c, r) /\ Busy(c) /\ run[c].now = {}
    BY <1>0, <1>4 DEF StartRun, Busy, RunIsWhole
  <2> HIDE DEF r
  <2>3. row' \in RequestRow /\ row'.status = "running" /\ row'.authorized = row.authorized
    BY <1>0, <1>4 DEF StartRun, RequestTypes, RequestRow, Status
  <2>4. RequestTypes'
    BY <1>0, <1>4, <2>1, <2>2, <2>3, OneRunMoves DEF StartRun, RequestTypes
  <2>5. \A d \in Runner : RunIsWhole(d)'
    <3>1. row.authorized
      BY <1>0, <2>2 DEF RunIsWhole
    <3> QED BY <1>0, <1>4, <2>1, <2>2, <2>3, <3>1, RunsStayWhole DEF StartRun
  <2>6. Solo'
    <3>1. alone => Len(log) = run[c].used + run[c].made /\ run[c].left \cap (kept \cup run[c].now) = {}
      BY <1>0, <2>2 DEF Solo
    <3> QED BY <1>0, <1>4, <2>1, <2>2, <3>1, OnlyOne, SoloStays DEF StartRun
  <2>7. Honest'
    BY <1>0, <1>4, <2>3 DEF StartRun, Honest, BudgetIsKept, CompletedIsAnswered
  <2> QED BY <1>q, <2>4, <2>5, <2>6, <2>7
<1>5. ASSUME NEW c \in Runner, ReadPending(c) PROVE RequestInv'
  <2>1. PICK i \in run[c].unread :
          Moves(c, [run[c] EXCEPT !.unread = @ \ {i}, !.left = IF i \in kept THEN @ ELSE @ \cup {i}])
    BY <1>5 DEF ReadPending
  <2> DEFINE r == [run[c] EXCEPT !.unread = @ \ {i}, !.left = IF i \in kept THEN @ ELSE @ \cup {i}]
  <2>2. /\ r \in RunRow /\ r.step = run[c].step /\ r.used = run[c].used /\ r.made = run[c].made
        /\ r.left = (IF i \in kept THEN run[c].left ELSE run[c].left \cup {i}) /\ r.unread = run[c].unread \ {i}
        /\ r.now = run[c].now /\ r.seen = run[c].seen /\ r.errors = run[c].errors
    BY <1>f DEF RunRow
  <2>3. Moves(c, r) /\ run[c].step = "ask" /\ Busy(c) /\ run[c].now = {}
    BY <1>0, <1>5, <2>1 DEF ReadPending, Busy, RunIsWhole
  <2> HIDE DEF r
  <2>4. RequestTypes'
    BY <1>0, <1>5, <2>2, <2>3, OneRunMoves DEF ReadPending, RequestTypes
  <2>5. \A d \in Runner : RunIsWhole(d)'
    <3>1. row.authorized /\ run[c].seen \subseteq kept \cup run[c].errors \cup run[c].unread \cup run[c].left \cup run[c].now
      BY <1>0, <2>3 DEF RunIsWhole
    <3>2. r.seen \subseteq kept \cup r.errors \cup r.unread \cup r.left \cup r.now
      BY <2>2, <3>1
    <3> QED BY <1>0, <1>5, <2>2, <2>3, <3>1, <3>2, RunsStayWhole DEF ReadPending
  <2>6. Solo'
    <3>1. alone => Len(log) = run[c].used + run[c].made /\ run[c].left \cap (kept \cup run[c].now) = {}
      BY <1>0, <2>3 DEF Solo
    <3>2. alone => r.left \cap (kept \cup r.now) = {}
      BY <2>2, <2>3, <3>1
    <3> QED BY <1>0, <1>5, <2>2, <2>3, <3>1, <3>2, OnlyOne, SoloStays DEF ReadPending
  <2>7. Honest'
    BY <1>0, <1>5 DEF ReadPending, Honest, BudgetIsKept, CompletedIsAnswered
  <2> QED BY <1>q, <2>4, <2>5, <2>6, <2>7
<1>6. ASSUME NEW c \in Runner, Asking(c), ~Spent(c), NEW i \in run[c].left, Asked(i), NEW r \in RunRow, Moves(c, r),
             r.used = run[c].used, r.made = run[c].made + 1, r.left = run[c].left \ {i}, r.unread = {}, r.seen = run[c].seen,
             r.step \in {"ask", "keep", "failed"},
             r.step = "keep" => r.now = {i}, r.step # "keep" => r.now = {},
             r.errors = (IF r.step = "keep" THEN run[c].errors ELSE run[c].errors \cup {i}),
             UNCHANGED <<row, kept, alone, runs>>
      PROVE  RequestInv'
  <2>1. run[c].step = "ask" /\ Busy(c) /\ run[c].now = {} /\ run[c].unread = {} /\ i \in Ident
    BY <1>0, <1>6, <1>f DEF Asking, Busy, RunIsWhole
  <2>2. /\ log' \in Seq(Question) /\ Len(log') = Len(log) + 1 /\ Len(log) \in Nat
        /\ i \notin kept => \A n \in DOMAIN log' : log'[n].known => n \in DOMAIN log /\ log[n].known
    BY <1>0, <1>6, <2>1, LogGrows
  <2>3. /\ row.authorized
        /\ run[c].seen \subseteq kept \cup run[c].errors \cup run[c].unread \cup run[c].left \cup run[c].now
    BY <1>0, <2>1 DEF RunIsWhole
  <2>4. alone => Len(log) = run[c].used + run[c].made /\ run[c].left \cap (kept \cup run[c].now) = {}
    BY <1>0, <2>1 DEF Solo
  <2>5. RequestTypes'
    BY <1>0, <1>6, <2>2, OneRunMoves DEF RequestTypes
  <2>6. \A d \in Runner : RunIsWhole(d)'
    <3>1. r.step \in {"ask", "keep"} => r.seen \subseteq kept \cup r.errors \cup r.unread \cup r.left \cup r.now
      BY <1>6, <2>1, <2>3
    <3> QED BY <1>0, <1>6, <2>3, <3>1, RunsStayWhole
  <2>7. Solo'
    <3>1. alone => Len(log') = r.used + r.made /\ r.left \cap (kept \cup r.now) = {}
      BY <1>6, <1>f, <2>1, <2>2, <2>4
    <3> QED BY <1>0, <1>6, <2>1, <3>1, OnlyOne, SoloStays
  <2>8. Honest'
    <3>1. alone => Len(log') <= Budget
      BY <1>6, <1>f, <2>2, <2>4 DEF Spent, RequestBounds
    <3>2. alone => \A n \in DOMAIN log' : ~log'[n].known
      <4>1. ASSUME alone, NEW n \in DOMAIN log', log'[n].known PROVE FALSE
        <5>1. i \notin kept
          BY <1>6, <2>4, <4>1
        <5>2. n \in DOMAIN log /\ log[n].known
          BY <2>2, <4>1, <5>1
        <5> QED BY <1>0, <4>1, <5>2 DEF Honest, BudgetIsKept
      <4> QED BY <4>1
    <3> QED BY <1>0, <1>6, <2>3, <3>1, <3>2 DEF Honest, BudgetIsKept, CompletedIsAnswered
  <2> QED BY <1>q, <2>5, <2>6, <2>7, <2>8
<1>7. ASSUME NEW c \in Runner, Answered(c) PROVE RequestInv'
  <2>1. PICK i \in run[c].left :
          /\ Asked(i)
          /\ Moves(c, [run[c] EXCEPT !.step = "keep", !.made = @ + 1, !.left = @ \ {i}, !.now = {i}])
    BY <1>7 DEF Answered
  <2> DEFINE r == [run[c] EXCEPT !.step = "keep", !.made = @ + 1, !.left = @ \ {i}, !.now = {i}]
  <2>2. Asking(c) /\ ~Spent(c) /\ run[c].unread = {} /\ UNCHANGED <<row, kept, alone, runs>>
    BY <1>7 DEF Answered, Asking
  <2>3. /\ r \in RunRow /\ r.step = "keep" /\ r.used = run[c].used /\ r.made = run[c].made + 1 /\ r.left = run[c].left \ {i}
        /\ r.unread = {} /\ r.seen = run[c].seen /\ r.now = {i} /\ r.errors = run[c].errors
    <3>1. i \in Ident
      BY <1>f, <2>1
    <3>2. run[c].left \ {i} \in SUBSET Ident /\ {i} \in SUBSET Ident /\ run[c].made + 1 \in Nat
      BY <1>f, <3>1
    <3>3. run[c] \in RunRow
      BY <1>f
    <3>4. r \in RunRow
      BY <3>2, <3>3 DEF RunRow, Steps
    <3>5. /\ r.step = "keep" /\ r.used = run[c].used /\ r.made = run[c].made + 1 /\ r.left = run[c].left \ {i}
          /\ r.unread = run[c].unread /\ r.seen = run[c].seen /\ r.now = {i} /\ r.errors = run[c].errors
      BY <3>3 DEF RunRow
    <3> QED BY <2>2, <3>4, <3>5
  <2>4. Moves(c, r)
    BY <2>1
  <2> HIDE DEF r
  <2> QED BY <1>6, <2>1, <2>2, <2>3, <2>4
<1>8. ASSUME NEW c \in Runner, Refused(c) PROVE RequestInv'
  <2>1. PICK i \in run[c].left :
          /\ Asked(i)
          /\ Moves(c, [run[c] EXCEPT !.made = @ + 1, !.left = @ \ {i}, !.errors = @ \cup {i},
                                       !.step = IF TooMany(run[c].errors \cup {i}) THEN "failed" ELSE @])
    BY <1>8 DEF Refused
  <2> DEFINE r == [run[c] EXCEPT !.made = @ + 1, !.left = @ \ {i}, !.errors = @ \cup {i},
                                 !.step = IF TooMany(run[c].errors \cup {i}) THEN "failed" ELSE @]
  <2>2. Moves(c, r) /\ i \in Ident
    BY <1>f, <2>1
  <2>3. Asking(c) /\ ~Spent(c) /\ run[c].unread = {} /\ run[c].step = "ask" /\ run[c].now = {}
        /\ UNCHANGED <<row, kept, alone, runs>>
    BY <1>0, <1>8 DEF Refused, Asking, RunIsWhole
  <2>4. /\ r \in RunRow /\ r.step \in {"ask", "failed"} /\ r.used = run[c].used /\ r.made = run[c].made + 1
        /\ r.left = run[c].left \ {i} /\ r.unread = {} /\ r.seen = run[c].seen /\ r.now = {}
        /\ r.errors = run[c].errors \cup {i}
    <3>2. run[c].left \ {i} \in SUBSET Ident /\ run[c].errors \cup {i} \in SUBSET Ident /\ run[c].made + 1 \in Nat
      BY <1>f, <2>2
    <3>3. run[c] \in RunRow
      BY <1>f
    <3>4. r \in RunRow
      BY <3>2, <3>3 DEF RunRow, Steps
    <3>5. /\ r.step = (IF TooMany(run[c].errors \cup {i}) THEN "failed" ELSE run[c].step)
          /\ r.used = run[c].used /\ r.made = run[c].made + 1 /\ r.left = run[c].left \ {i}
          /\ r.unread = run[c].unread /\ r.seen = run[c].seen /\ r.now = run[c].now /\ r.errors = run[c].errors \cup {i}
      BY <3>3 DEF RunRow
    <3> QED BY <2>3, <3>4, <3>5
  <2> HIDE DEF r
  <2> QED BY <1>6, <2>1, <2>2, <2>3, <2>4
<1>9. ASSUME NEW c \in Runner, KeepResult(c) PROVE RequestInv'
  <2> DEFINE r == [run[c] EXCEPT !.step = "ask", !.now = {}]
  <2>1. /\ r \in RunRow /\ r.step = "ask" /\ r.used = run[c].used /\ r.made = run[c].made /\ r.left = run[c].left
        /\ r.now = {} /\ r.seen = run[c].seen /\ r.unread = run[c].unread /\ r.errors = run[c].errors
    BY <1>f DEF RunRow, Steps
  <2>2. Moves(c, r) /\ run[c].step = "keep" /\ Busy(c) /\ kept' = kept \cup run[c].now
    BY <1>9 DEF KeepResult, Busy
  <2> HIDE DEF r
  <2>3. RequestTypes'
    BY <1>0, <1>9, <1>f, <2>1, <2>2, OneRunMoves DEF KeepResult, RequestTypes
  <2>4. \A d \in Runner : RunIsWhole(d)'
    <3>1. row.authorized /\ run[c].seen \subseteq kept \cup run[c].errors \cup run[c].unread \cup run[c].left \cup run[c].now
      BY <1>0, <2>2 DEF RunIsWhole
    <3> QED BY <1>0, <1>9, <2>1, <2>2, <3>1, RunsStayWhole DEF KeepResult
  <2>5. Solo'
    <3>1. alone => Len(log) = run[c].used + run[c].made /\ run[c].left \cap (kept \cup run[c].now) = {}
      BY <1>0, <2>2 DEF Solo
    <3>2. alone => r.left \cap (kept' \cup r.now) = {}
      BY <2>1, <2>2, <3>1
    <3> QED BY <1>0, <1>9, <2>1, <2>2, <3>1, <3>2, OnlyOne, SoloStays DEF KeepResult
  <2>6. Honest'
    BY <1>0, <1>9 DEF KeepResult, Honest, BudgetIsKept, CompletedIsAnswered
  <2> QED BY <1>q, <2>3, <2>4, <2>5, <2>6
<1>10. ASSUME NEW c \in Runner, NEW status \in Status, FinishRun(c, status) PROVE RequestInv'
  <2>1. AtRest \in RunRow /\ AtRest.step = "idle" /\ AtRest.now = {}
    BY AtRestIsRow DEF AtRest
  <2>2. Moves(c, AtRest) /\ Busy(c)
    BY <1>10 DEF FinishRun, Ends, Asking, Busy
  <2>3. /\ row' \in RequestRow /\ row'.authorized = row.authorized /\ row'.status = status
        /\ row'.made = run[c].used + run[c].made /\ row'.seen = run[c].seen /\ row'.errors = run[c].errors
    <3>1. row \in RequestRow /\ run[c].used + run[c].made \in Nat
      BY <1>0, <1>f DEF RequestTypes
    <3> QED BY <1>10, <1>f, <3>1 DEF FinishRun, RequestRow
  <2>4. RequestTypes'
    BY <1>0, <1>10, <2>1, <2>2, <2>3, OneRunMoves DEF FinishRun, RequestTypes
  <2>5. \A d \in Runner : RunIsWhole(d)'
    BY <1>0, <1>10, <2>1, <2>2, <2>3, RunsStayWhole DEF FinishRun
  <2>6. Solo'
    <3>1. alone => Len(log) = run[c].used + run[c].made
      BY <1>0, <2>2 DEF Solo
    <3> QED BY <1>0, <1>10, <2>1, <2>2, <2>3, <3>1, OnlyOne, SoloStays DEF FinishRun
  <2>7. status = "completed" => run[c].seen \subseteq kept \cup run[c].errors
    <3>1. ASSUME status = "completed"
          PROVE  run[c].step = "ask" /\ run[c].unread = {} /\ run[c].left = {}
      BY <1>10, <3>1 DEF FinishRun, Ends, Asking
    <3> QED BY <1>0, <3>1 DEF RunIsWhole
  <2>8. Honest'
    BY <1>0, <1>10, <2>3, <2>7 DEF FinishRun, Honest, BudgetIsKept, CompletedIsAnswered
  <2> QED BY <1>q, <2>4, <2>5, <2>6, <2>8
<1>11. ASSUME NEW c \in Runner, RunDies(c) PROVE RequestInv'
  <2>1. AtRest \in RunRow /\ AtRest.step = "idle" /\ AtRest.now = {}
    BY AtRestIsRow DEF AtRest
  <2>2. Moves(c, AtRest) /\ alone' = FALSE
    BY <1>11 DEF RunDies
  <2>3. RequestTypes'
    BY <1>0, <1>11, <2>1, <2>2, OneRunMoves DEF RunDies, RequestTypes
  <2>4. \A d \in Runner : RunIsWhole(d)'
    BY <1>0, <1>11, <2>1, <2>2, RunsStayWhole DEF RunDies
  <2>5. Solo'
    BY <2>2 DEF Solo
  <2>6. Honest'
    BY <1>0, <1>11 DEF RunDies, Honest, BudgetIsKept, CompletedIsAnswered
  <2> QED BY <1>q, <2>3, <2>4, <2>5, <2>6
<1> QED BY <1>1, <1>2, <1>3, <1>4, <1>5, <1>7, <1>8, <1>9, <1>10, <1>11 DEF RequestNext

\* Under whatever runs of it at once and however they end: a request that says it is completed
\* has an answer or an error for all it names, and the provider is asked only with authorization;
\* and while runs neither overlap nor die, within the budget and nothing twice.
THEOREM RequestsAreHonest ==
  ASSUME RequestBounds
  PROVE  RequestSpec => []RequestIsHonest
<1>1. RequestInit => RequestInv
  BY RequestStarts
<1>2. RequestInv /\ [RequestNext]_refVars => RequestInv'
  <2>1. ASSUME RequestInv, UNCHANGED refVars PROVE RequestInv'
    BY <2>1 DEF RequestInv, refVars, RequestTypeOK, RequestIsHonest, BudgetIsKept, CompletedIsAnswered,
                RunIsWhole, Solo, Busy
  <2> QED BY <2>1, RequestKeeps
<1>3. RequestInv => RequestIsHonest
  BY DEF RequestInv
<1> QED BY <1>1, <1>2, <1>3, PTL DEF RequestSpec

-----------------------------------------------------------------------------
(* Batches.                                                                *)

Els(q)       == {q[i] : i \in DOMAIN q}
Injective(q) == \A i, j \in DOMAIN q : q[i] = q[j] => i = j
Ids          == 1 .. Len(input)
Done         == {results[i].of : i \in DOMAIN results}
Names        == {results[i].name : i \in DOMAIN results}
With(s)      == {i \in DOMAIN results : results[i].status = s}

Kinds == Outcomes \cup {"files"}

\* What is kept: the members are waiting, skipped or answered, each in one place.
QueuesOK == /\ input \in Inputs
            /\ skipped \in Seq(Ids) /\ files \in Seq(Ids)
            /\ looked \in 0 .. Len(input) /\ expanded \in 0 .. MaxExpanded /\ late \in BOOLEAN
            /\ phase \in {"expand", "skip", "process", "written", "failed"}

ReportOK == /\ Named(results)
            /\ \A i \in DOMAIN results : results[i].status \in Outcomes
            /\ totals \in [Kinds -> Nat]

Disjoint == /\ Injective(skipped) /\ Injective(files)
            /\ Els(skipped) \cap Els(files) = {}
            /\ Els(skipped) \cap Done = {} /\ Els(files) \cap Done = {}

Complete == Els(skipped) \cup Els(files) \cup Done = IF phase \in {"expand", "failed"} THEN 1 .. looked ELSE Ids

InPhase  == /\ phase = "expand" => results = <<>>
            /\ phase \in {"process", "written"} => skipped = <<>>
            /\ phase = "written" => files = <<>>

AnsweredOnce == \A i, j \in DOMAIN results : i # j => results[i].of # results[j].of /\ results[i].name # results[j].name

Counted == /\ totals["files"] = Len(results)
           /\ \A s \in Outcomes : totals[s] = Cardinality(With(s))
           /\ IsFiniteSet(corrected) /\ Cardinality(corrected) = totals["processed"]

Bounded == Archive => \A i \in DOMAIN files : input[files[i]].size <= MaxSize /\ files[i] <= MaxMembers

BatchInv == QueuesOK /\ ReportOK /\ Disjoint /\ Complete /\ InPhase /\ AnsweredOnce /\ Counted /\ Bounded

\* A request is a sequence of members.
LEMMA MemberFacts ==
  ASSUME BatchBounds, QueuesOK, NEW i \in Ids
  PROVE  /\ Len(input) \in Nat /\ DOMAIN input = Ids
         /\ input[i].size \in Nat /\ input[i].declared \in Nat
         /\ Named(input[i].base) /\ Named(input[i].out)
<1>1. input \in Seq(Members)
  BY DEF BatchBounds, QueuesOK
<1>2. Len(input) \in Nat /\ DOMAIN input = Ids /\ input[i] \in Members
  BY <1>1, LenProperties, ElementOfSeq DEF Ids
<1> QED BY <1>2 DEF BatchBounds

LEMMA InputLength ==
  ASSUME BatchBounds, QueuesOK
  PROVE  Len(input) \in Nat /\ DOMAIN input = Ids
<1>1. input \in Seq(Members)
  BY DEF BatchBounds, QueuesOK
<1> QED BY <1>1, LenProperties DEF Ids

\* Induction on an interval, for a set instead of a predicate: the prefixes of what is missing
\* from it would have a smallest one.
LEMMA IntervalInduction ==
  ASSUME NEW N \in Nat, NEW S, 0 \in S, \A n \in 0 .. N - 1 : n \in S => n + 1 \in S
  PROVE  0 .. N \subseteq S
<1> SUFFICES ASSUME NEW b \in 0 .. N, b \notin S PROVE FALSE
  OBVIOUS
<1> DEFINE T == {0 .. n : n \in (0 .. N) \ S}
           W == FiniteSubsetsOf(0 .. N)
<1>1. IsWellFoundedOn(StrictSubsetOrdering(0 .. N), W)
  BY FS_StrictSubsetOrderingWellFounded
<1>2. T \subseteq W /\ T # {}
  <2>1. ASSUME NEW n \in (0 .. N) \ S PROVE 0 .. n \in W
    <3>1. IsFiniteSet(0 .. n) BY FS_Interval
    <3>2. 0 .. n \subseteq 0 .. N OBVIOUS
    <3> QED BY <3>1, <3>2 DEF FiniteSubsetsOf
  <2>2. 0 .. b \in T OBVIOUS
  <2> QED BY <2>1, <2>2
<1>3. \E x \in T : \A y \in T : ~ (<<y, x>> \in StrictSubsetOrdering(0 .. N))
  <2> HIDE DEF T, W
  <2> QED BY <1>1, <1>2, WFMin
<1>4. PICK m \in (0 .. N) \ S : \A y \in T : ~ (<<y, 0 .. m>> \in StrictSubsetOrdering(0 .. N))
  BY <1>3
<1>5. m # 0 /\ m - 1 \in 0 .. N - 1 /\ m - 1 + 1 = m
  BY <1>4
<1>6. m - 1 \in (0 .. N) \ S
  BY <1>4, <1>5
<1>7. 0 .. (m - 1) \in T
  BY <1>6
<1>8. <<0 .. (m - 1), 0 .. m>> \in StrictSubsetOrdering(0 .. N)
  BY <1>4, <1>5 DEF StrictSubsetOrdering
<1> QED BY <1>4, <1>7, <1>8

\* Two numbers behind one name make two names.
LEMMA NumbersTell ==
  ASSUME NEW name, Named(name), NEW k \in Nat, NEW l \in Nat, Append(name, k) = Append(name, l)
  PROVE  k = l
<1> DEFINE S == {name[i] : i \in 1 .. Len(name)} \cup Nat
<1>1. name \in [1 .. Len(name) -> S] /\ Len(name) \in Nat
  BY DEF Named
<1>2. name \in Seq(S)
  BY <1>1, SeqDef
<1>3. k \in S /\ l \in S
  OBVIOUS
<1> HIDE DEF S
<1>4. Append(name, k)[Len(name) + 1] = k /\ Append(name, l)[Len(name) + 1] = l
  BY <1>2, <1>3, AppendProperties
<1> QED BY <1>4

\* The name that is chosen is a new one (_dedupe_name): among one number more than there are
\* names in use, one gives a new name, and the smallest is taken.
LEMMA DedupedIsNew ==
  ASSUME NEW name, Named(name), NEW used, IsFiniteSet(used)
  PROVE  Deduped(name, used) \notin used
<1> DEFINE c    == Cardinality(used)
           K    == 2 .. (c + 2)
           free == {k \in K : Append(name, k) \notin used}
<1>0. c \in Nat
  BY FS_CardinalityType
<1>1. free # {}
  <2> SUFFICES ASSUME \A k \in K : Append(name, k) \in used PROVE FALSE
    OBVIOUS
  <2> DEFINE f == [k \in K |-> Append(name, k)]
  <2>1. IsFiniteSet(K) /\ Cardinality(K) = c + 1
    BY <1>0, FS_Interval
  <2>2. f \in [K -> used]
    OBVIOUS
  <2>3. Cardinality(K) > Cardinality(used)
    BY <2>1, <1>0
  <2> HIDE DEF f, K
  <2>4. \E x, y \in K : x # y /\ f[x] = f[y]
    BY <2>1, <2>2, <2>3, FS_PigeonHole
  <2>5. PICK x \in K, y \in K : x # y /\ f[x] = f[y]
    BY <2>4
  <2>6. x \in Nat /\ y \in Nat
    BY <1>0 DEF K
  <2>7. Append(name, x) = Append(name, y)
    BY <2>5 DEF f
  <2> QED BY <2>5, <2>6, <2>7, NumbersTell
<1>2. \E k \in free : \A l \in free : k <= l
  <2> DEFINE W == {n \in 0 .. (c + 2) : (\E k \in free : k <= n) => \E k \in free : \A l \in free : k <= l}
  <2>1. 0 \in W
    BY <1>0
  <2>2. ASSUME NEW n \in 0 .. c + 2 - 1, n \in W PROVE n + 1 \in W
    BY <1>0, <2>2
  <2>3. 0 .. (c + 2) \subseteq W
    <3> HIDE DEF W
    <3> QED BY <1>0, <2>1, <2>2, IntervalInduction
  <2>4. c + 2 \in W
    BY <1>0, <2>3
  <2> QED BY <1>0, <1>1, <2>4
<1>3. Min(free) \in free
  BY <1>2 DEF Min
<1> QED BY <1>3 DEF Deduped

(* ---- queues and lists ---- *)

LEMMA TailFacts ==
  ASSUME NEW S, NEW q \in Seq(S), q # <<>>, Injective(q)
  PROVE  /\ Tail(q) \in Seq(S) /\ Head(q) \in S /\ Head(q) \in Els(q)
         /\ Injective(Tail(q)) /\ Els(Tail(q)) = Els(q) \ {Head(q)}
         /\ DOMAIN Tail(q) = 1 .. Len(q) - 1
         /\ \A i \in DOMAIN Tail(q) : Tail(q)[i] = q[i + 1] /\ i + 1 \in DOMAIN q
<1>1. Tail(q) \in Seq(S) /\ Len(Tail(q)) = Len(q) - 1 /\ Head(q) \in S /\ Len(q) \in Nat /\ Len(q) # 0
  BY HeadTailProperties, LenProperties, EmptySeq
<1>2. DOMAIN Tail(q) = 1 .. Len(q) - 1 /\ DOMAIN q = 1 .. Len(q)
  BY <1>1, LenProperties
<1>3. \A i \in DOMAIN Tail(q) : Tail(q)[i] = q[i + 1] /\ i + 1 \in DOMAIN q
  BY <1>1, <1>2, HeadTailProperties
<1>4. Head(q) = q[1] /\ 1 \in DOMAIN q
  BY <1>1, <1>2
<1>5. Injective(Tail(q))
  BY <1>1, <1>2, <1>3 DEF Injective
<1>6. Els(Tail(q)) \subseteq Els(q) \ {Head(q)}
  BY <1>1, <1>2, <1>3, <1>4 DEF Injective, Els
<1>7. Els(q) \ {Head(q)} \subseteq Els(Tail(q))
  <2> SUFFICES ASSUME NEW i \in DOMAIN q, q[i] # q[1] PROVE q[i] \in Els(Tail(q))
    BY <1>4 DEF Els
  <2>1. i - 1 \in DOMAIN Tail(q) /\ i - 1 + 1 = i
    BY <1>1, <1>2
  <2> QED BY <2>1, <1>3 DEF Els
<1> QED BY <1>1, <1>2, <1>3, <1>4, <1>5, <1>6, <1>7 DEF Els

LEMMA AppendFacts ==
  ASSUME NEW S, NEW q \in Seq(S), NEW x \in S, x \notin Els(q), Injective(q)
  PROVE  /\ Append(q, x) \in Seq(S) /\ Injective(Append(q, x)) /\ Els(Append(q, x)) = Els(q) \cup {x}
         /\ DOMAIN Append(q, x) = 1 .. Len(q) + 1 /\ DOMAIN q = 1 .. Len(q) /\ Len(q) \in Nat
         /\ \A i \in DOMAIN q : Append(q, x)[i] = q[i]
         /\ Append(q, x)[Len(q) + 1] = x
<1>1. /\ Append(q, x) \in Seq(S) /\ Len(q) \in Nat /\ DOMAIN q = 1 .. Len(q)
      /\ Len(Append(q, x)) = Len(q) + 1
      /\ \A i \in 1 .. Len(q) : Append(q, x)[i] = q[i]
      /\ Append(q, x)[Len(q) + 1] = x
  BY AppendProperties, LenProperties
<1>2. DOMAIN Append(q, x) = 1 .. Len(q) + 1
  BY <1>1, LenProperties
<1>3. Injective(Append(q, x))
  BY <1>1, <1>2 DEF Injective, Els
<1>4. Els(Append(q, x)) = Els(q) \cup {x}
  BY <1>1, <1>2 DEF Els
<1> QED BY <1>1, <1>2, <1>3, <1>4

\* What is appended to any list.
LEMMA AppendTo ==
  ASSUME NEW q, Named(q), NEW x
  PROVE  /\ Named(Append(q, x)) /\ Len(q) \in Nat /\ DOMAIN q = 1 .. Len(q)
         /\ Len(Append(q, x)) = Len(q) + 1 /\ DOMAIN Append(q, x) = 1 .. Len(q) + 1
         /\ \A i \in 1 .. Len(q) : Append(q, x)[i] = q[i]
         /\ Append(q, x)[Len(q) + 1] = x
<1> DEFINE S == {q[i] : i \in 1 .. Len(q)} \cup {x}
<1>1. q \in [1 .. Len(q) -> S] /\ Len(q) \in Nat
  BY DEF Named
<1>2. q \in Seq(S) /\ x \in S
  BY <1>1, SeqDef
<1> HIDE DEF S
<1>3. /\ Append(q, x) \in Seq(S) /\ Len(q) \in Nat /\ DOMAIN q = 1 .. Len(q)
      /\ Len(Append(q, x)) = Len(q) + 1
      /\ \A i \in 1 .. Len(q) : Append(q, x)[i] = q[i]
      /\ Append(q, x)[Len(q) + 1] = x
  BY <1>2, AppendProperties, LenProperties
<1>4. Append(q, x) \in [1 .. Len(q) + 1 -> S] /\ DOMAIN Append(q, x) = 1 .. Len(q) + 1
  BY <1>3, LenProperties
<1>5. Append(q, x) = [i \in 1 .. Len(q) + 1 |-> Append(q, x)[i]]
  BY <1>4
<1>6. Named(Append(q, x))
  BY <1>3, <1>5 DEF Named
<1> QED BY <1>3, <1>4, <1>6

\* A list whose elements differ has as many as its length.
LEMMA ImageCard ==
  ASSUME NEW n \in Nat, NEW f, DOMAIN f = 1 .. n, Injective(f)
  PROVE  IsFiniteSet(Els(f)) /\ Cardinality(Els(f)) = n
<1> DEFINE g == [i \in 1 .. n |-> f[i]]
<1>1. g \in Bijection(1 .. n, Els(f))
  BY DEF Bijection, Injection, Surjection, IsInjective, Injective, Els
<1>2. IsFiniteSet(1 .. n) /\ Cardinality(1 .. n) = n
  BY FS_Interval
<1>3. ExistsBijection(1 .. n, Els(f))
  BY <1>1 DEF ExistsBijection
<1> QED BY <1>2, <1>3, FS_Bijection

\* The names in the report are finitely many.
LEMMA NamesFinite ==
  ASSUME Named(results)
  PROVE  IsFiniteSet(Names) /\ NamesIn("name") = Names
<1>0. Len(results) \in Nat /\ DOMAIN results = 1 .. Len(results)
  BY DEF Named
<1>1. IsFiniteSet(DOMAIN results)
  BY <1>0, FS_Interval
<1>2. IsFiniteSet(Names)
  <2> DEFINE h == [i \in DOMAIN results |-> results[i].name]
  <2>1. h \in Surjection(DOMAIN results, Names)
    BY DEF Surjection, Names
  <2> QED BY <1>1, <2>1, FS_Surjection
<1> QED BY <1>2 DEF Names, NamesIn

\* One member more in the report (record).
LEMMA ListedKeeps ==
  ASSUME BatchBounds, BatchInv, NEW i \in Ids, i \notin Done, NEW status \in Outcomes, NEW output,
         Listed(i, status, output)
  PROVE  /\ ReportOK' /\ Done' = Done \cup {i} /\ AnsweredOnce'
         /\ totals'["files"] = Len(results')
         /\ \A s \in Outcomes : totals'[s] = Cardinality(With(s)')
         /\ \A s \in Outcomes : totals'[s] = IF s = status THEN totals[s] + 1 ELSE totals[s]
<1> DEFINE entry == [of |-> i, name |-> Deduped(input[i].base, NamesIn("name")), status |-> status, output |-> output]
           n   == Len(results)
<1>0. QueuesOK /\ ReportOK /\ AnsweredOnce /\ Counted
  BY DEF BatchInv
<1>1. /\ results' = Append(results, entry)
      /\ totals' = [totals EXCEPT !["files"] = @ + 1, ![status] = @ + 1]
  BY DEF Listed
<1>2. entry.name \notin Names
  <2>1. Named(input[i].base)
    BY <1>0, MemberFacts
  <2>2. IsFiniteSet(Names) /\ NamesIn("name") = Names
    BY <1>0, NamesFinite DEF ReportOK
  <2>3. Deduped(input[i].base, Names) \notin Names
    BY <2>1, <2>2, DedupedIsNew
  <2> QED BY <2>2, <2>3
<1>3. entry.of = i /\ entry.status = status
  OBVIOUS
<1> HIDE DEF entry
<1>4. /\ Named(results') /\ n \in Nat /\ DOMAIN results = 1 .. n
      /\ Len(results') = n + 1 /\ DOMAIN results' = 1 .. n + 1
      /\ \A k \in 1 .. n : results'[k] = results[k]
      /\ results'[n + 1] = entry
  BY <1>0, <1>1, AppendTo DEF ReportOK
<1> HIDE DEF n
<1>5. Done' = Done \cup {i}
  BY <1>3, <1>4 DEF Done
<1>6. \A k \in DOMAIN results' : results'[k].status \in Outcomes
  BY <1>0, <1>3, <1>4 DEF ReportOK
<1>7. totals' \in [Kinds -> Nat]
  BY <1>0, <1>1 DEF ReportOK, Kinds, Outcomes
<1>8. /\ totals'["files"] = totals["files"] + 1
      /\ \A s \in Outcomes : totals'[s] = IF s = status THEN totals[s] + 1 ELSE totals[s]
  BY <1>0, <1>1 DEF ReportOK, Kinds, Outcomes
<1>9. AnsweredOnce'
  <2> SUFFICES ASSUME NEW k \in 1 .. n + 1, NEW l \in 1 .. n + 1, k # l
               PROVE  results'[k].of # results'[l].of /\ results'[k].name # results'[l].name
    BY <1>4 DEF AnsweredOnce
  <2>1. CASE k \in 1 .. n /\ l \in 1 .. n
    BY <1>0, <1>4, <2>1 DEF AnsweredOnce
  <2>2. CASE k = n + 1
    <3>1. l \in 1 .. n BY <1>4, <2>2
    <3>2. results[l].of # i /\ results[l].name # entry.name
      BY <1>2, <1>4, <3>1 DEF Done, Names
    <3> QED BY <1>3, <1>4, <2>2, <3>1, <3>2
  <2>3. CASE l = n + 1
    <3>1. k \in 1 .. n BY <1>4, <2>3
    <3>2. results[k].of # i /\ results[k].name # entry.name
      BY <1>2, <1>4, <3>1 DEF Done, Names
    <3> QED BY <1>3, <1>4, <2>3, <3>1, <3>2
  <2> QED BY <1>4, <2>1, <2>2, <2>3
<1>10. ASSUME NEW s \in Outcomes PROVE totals'[s] = Cardinality(With(s)')
  <2>1. IsFiniteSet(With(s)) /\ n + 1 \notin With(s) /\ Cardinality(With(s)) = totals[s]
    <3>1. IsFiniteSet(1 .. n) /\ With(s) \subseteq 1 .. n
      BY <1>4, FS_Interval DEF With
    <3> QED BY <1>0, <1>4, <3>1, FS_Subset DEF Counted
  <2>2. With(s)' = IF s = status THEN With(s) \cup {n + 1} ELSE With(s)
    BY <1>3, <1>4 DEF With
  <2>3. CASE s = status
    BY <1>8, <2>1, <2>2, <2>3, FS_AddElement
  <2>4. CASE s # status
    BY <1>8, <2>1, <2>2, <2>4
  <2> QED BY <2>3, <2>4
<1> QED BY <1>0, <1>4, <1>5, <1>6, <1>7, <1>8, <1>9, <1>10 DEF ReportOK, Counted, n

-----------------------------------------------------------------------------
(* The steps of a batch.                                                   *)

LEMMA BatchStarts == ASSUME BatchBounds, BatchInit PROVE BatchInv
<1>1. input \in Seq(Members)
  BY DEF BatchBounds, BatchInit
<1>2. Len(input) \in Nat /\ DOMAIN input = Ids
  BY <1>1, LenProperties DEF Ids
<1>3. results = <<>> /\ DOMAIN results = {} /\ Len(results) = 0 /\ Done = {} /\ skipped = <<>> /\ Els(skipped) = {}
  BY DEF BatchInit, Done, Els
<1>4. Archive \/ files = [i \in Ids |-> i]
  BY <1>2 DEF BatchInit
<1>5. files \in Seq(Ids) /\ Injective(files) /\ Els(files) = IF phase = "expand" THEN {} ELSE Ids
  <2>1. CASE Archive
    BY <2>1 DEF BatchInit, Injective, Els
  <2>2. CASE ~Archive
    <3>1. files = [i \in Ids |-> i] /\ phase = "process"
      BY <1>2, <2>2 DEF BatchInit
    <3>2. files \in Seq(Ids)
      BY <1>2, <3>1, SeqDef DEF Ids
    <3> QED BY <3>1, <3>2 DEF Injective, Els
  <2> QED BY <2>1, <2>2
<1>6. QueuesOK
  <2>1. looked \in 0 .. Len(input) /\ expanded \in 0 .. MaxExpanded /\ late \in BOOLEAN
    <3>1. looked = 0 /\ expanded = 0 /\ late = FALSE
      BY DEF BatchInit
    <3>2. MaxExpanded \in Nat /\ Len(input) \in Nat
      BY <1>2 DEF BatchBounds
    <3>3. 0 \in 0 .. Len(input) /\ 0 \in 0 .. MaxExpanded
      BY <3>2
    <3> QED BY <3>1, <3>3, Zenon
  <2>2. input \in Inputs /\ phase \in {"expand", "skip", "process", "written", "failed"}
    BY DEF BatchInit
  <2> QED BY <1>3, <1>5, <2>1, <2>2 DEF QueuesOK
<1>7. ReportOK
  BY <1>3 DEF BatchInit, ReportOK, Named, Kinds
<1>8. Disjoint /\ Complete /\ AnsweredOnce
  BY <1>2, <1>3, <1>5 DEF BatchInit, Disjoint, Complete, AnsweredOnce, Injective
<1>9. InPhase /\ Bounded
  <2>1. Bounded
    BY DEF BatchInit, Bounded
  <2> QED BY <2>1, <1>3 DEF BatchInit, InPhase
<1>10. Counted
  <2>1. \A s : With(s) = {}
    BY <1>3 DEF With
  <2> QED BY <1>3, <2>1, FS_EmptySet DEF BatchInit, Counted, Kinds, Outcomes
<1> QED BY <1>6, <1>7, <1>8, <1>9, <1>10 DEF BatchInv

\* What a step that leaves the report alone keeps of it.
LEMMA SameReport ==
  ASSUME ReportOK, AnsweredOnce, Counted, UNCHANGED <<results, totals, corrected>>
  PROVE  ReportOK' /\ AnsweredOnce' /\ Counted' /\ Done' = Done
BY DEF ReportOK, AnsweredOnce, Counted, Done, With

LEMMA SameQueues ==
  ASSUME QueuesOK, Disjoint, Bounded, UNCHANGED <<input, files, skipped, results, looked, expanded>>, late' \in BOOLEAN,
         phase' \in {"expand", "skip", "process", "written", "failed"}
  PROVE  QueuesOK' /\ Disjoint' /\ Bounded'
<1>1. QueuesOK'
  BY DEF QueuesOK, Ids
<1>2. Disjoint'
  BY DEF Disjoint, Els, Injective, Done
<1> QED BY <1>1, <1>2 DEF Bounded, Archive

LEMMA LaterIs == ASSUME QueuesOK, Later PROVE late' \in BOOLEAN
BY DEF QueuesOK, Later

\* A member is looked at: it joins one of the queues, unless the time is used up.
LEMMA ExpandKeeps == ASSUME BatchBounds, BatchInv, Expand PROVE BatchInv'
<1>0. QueuesOK /\ ReportOK /\ Disjoint /\ Complete /\ InPhase /\ AnsweredOnce /\ Counted /\ Bounded
  BY DEF BatchInv
<1>1. UNCHANGED <<results, totals, corrected, input>> /\ phase = "expand" /\ late' \in BOOLEAN
  BY <1>0, LaterIs DEF Expand
<1>2. ReportOK' /\ AnsweredOnce' /\ Counted' /\ Done' = Done
  BY <1>0, <1>1, SameReport
<1>3. results = <<>> /\ Done = {}
  BY <1>0, <1>1 DEF InPhase, Done
<1>4. CASE late
  <2>1. phase' = "failed" /\ UNCHANGED <<looked, files, skipped, expanded>>
    BY <1>4 DEF Expand
  <2>2. QueuesOK' /\ Disjoint' /\ Bounded'
    BY <1>0, <1>1, <2>1, SameQueues
  <2>3. Complete' /\ InPhase'
    BY <1>0, <1>1, <1>2, <2>1 DEF Complete, InPhase, Els, Ids
  <2> QED BY <1>2, <2>2, <2>3 DEF BatchInv
<1>5. CASE ~late
  <2> DEFINE x == looked + 1
  <2>1. /\ looked' = looked + 1 /\ phase' = phase /\ looked < Len(input)
        /\ \/ skipped' = Append(skipped, x) /\ UNCHANGED <<files, expanded>>
           \/ /\ files' = Append(files, x) /\ expanded' = expanded + input[x].size /\ skipped' = skipped
              /\ ~Beyond(input[x], x) /\ Readable(input[x])
    BY <1>5 DEF Expand
  <2>2. Len(input) \in Nat /\ x \in Ids /\ looked \in Nat
    BY <1>0, <2>1, InputLength DEF QueuesOK, Ids
  <2>3. x \notin Els(skipped) /\ x \notin Els(files) /\ Els(skipped) \cup Els(files) = 1 .. looked
    BY <1>0, <1>1, <1>3, <2>2 DEF Complete
  <2>4. Ids' = Ids
    BY <1>1 DEF Ids
  <2> HIDE DEF x
  <2>5. InPhase'
    BY <1>1, <1>3, <2>1 DEF InPhase
  <2>6. CASE skipped' = Append(skipped, x) /\ UNCHANGED <<files, expanded>>
    <3>1. skipped \in Seq(Ids) /\ Injective(skipped)
      BY <1>0 DEF QueuesOK, Disjoint
    <3>2. /\ skipped' \in Seq(Ids) /\ Injective(skipped') /\ Els(skipped') = Els(skipped) \cup {x}
      BY <2>2, <2>3, <2>6, <3>1, AppendFacts
    <3>3. QueuesOK'
      BY <1>0, <1>1, <2>1, <2>2, <2>4, <2>6, <3>2 DEF QueuesOK
    <3>4. Disjoint'
      BY <1>0, <1>2, <1>3, <2>3, <2>6, <3>2 DEF Disjoint
    <3>5. Complete'
      BY <1>1, <1>2, <1>3, <2>1, <2>2, <2>3, <2>6, <3>2 DEF Complete, x
    <3>6. Bounded'
      BY <1>0, <1>1, <2>6 DEF Bounded, Archive
    <3> QED BY <1>2, <2>5, <3>3, <3>4, <3>5, <3>6 DEF BatchInv
  <2>7. CASE /\ files' = Append(files, x) /\ expanded' = expanded + input[x].size /\ skipped' = skipped
             /\ ~Beyond(input[x], x) /\ Readable(input[x])
    <3>1. files \in Seq(Ids) /\ Injective(files)
      BY <1>0 DEF QueuesOK, Disjoint
    <3>2. /\ files' \in Seq(Ids) /\ Injective(files') /\ Els(files') = Els(files) \cup {x}
          /\ DOMAIN files' = 1 .. Len(files) + 1 /\ DOMAIN files = 1 .. Len(files) /\ Len(files) \in Nat
          /\ \A i \in DOMAIN files : files'[i] = files[i]
          /\ files'[Len(files) + 1] = x
      BY <2>2, <2>3, <2>7, <3>1, AppendFacts
    <3>3. input[x].size \in Nat /\ input[x].declared \in Nat
      BY <1>0, <2>2, MemberFacts
    <3>9. MaxMembers \in Nat /\ MaxSize \in Nat /\ MaxExpanded \in Nat
      BY DEF BatchBounds
    <3>10. /\ input[x].size <= input[x].declared /\ input[x].size <= MaxSize
           /\ ~(x > MaxMembers) /\ ~(expanded + input[x].declared > MaxExpanded)
      BY <2>7, Zenon DEF Beyond, Readable
    <3>4. expanded' \in 0 .. MaxExpanded
      <4>1. expanded \in 0 .. MaxExpanded
        BY <1>0 DEF QueuesOK
      <4> QED BY <2>7, <3>3, <3>9, <3>10, <4>1
    <3>5. QueuesOK'
      <4>1. looked' \in 0 .. Len(input')
        BY <1>1, <2>1, <2>2
      <4>2. input' \in Inputs /\ skipped' \in Seq(Ids') /\ phase' \in {"expand", "skip", "process", "written", "failed"}
        BY <1>0, <1>1, <2>1, <2>4, <2>7 DEF QueuesOK
      <4>3. expanded' \in 0 .. MaxExpanded'
        BY <3>4
      <4> QED BY <1>1, <2>4, <3>2, <4>1, <4>2, <4>3 DEF QueuesOK
    <3>6. Disjoint'
      BY <1>0, <1>2, <1>3, <2>3, <2>7, <3>2 DEF Disjoint
    <3>7. Complete'
      <4>1. Els(skipped)' = Els(skipped) /\ Els(files)' = Els(files) \cup {x} /\ Done' = {} /\ phase' = "expand"
        BY <1>1, <1>2, <1>3, <2>1, <2>7, <3>2 DEF Els
      <4>2. (Els(skipped) \cup Els(files)) \cup {x} = 1 .. looked'
        BY <2>1, <2>2, <2>3 DEF x
      <4> QED BY <4>1, <4>2 DEF Complete
    <3>8. Bounded'
      <4>1. input[x].size <= MaxSize /\ x <= MaxMembers
        BY <2>2, <3>9, <3>10 DEF Ids
      <4>2. Archive' <=> Archive
        BY <1>1 DEF Archive
      <4>3. SUFFICES ASSUME Archive, NEW i \in DOMAIN files'
                     PROVE  input'[files'[i]].size <= MaxSize /\ files'[i] <= MaxMembers
        BY <4>2 DEF Bounded
      <4>4. CASE i \in DOMAIN files
        BY <1>0, <1>1, <3>2, <4>3, <4>4 DEF Bounded
      <4>5. CASE i = Len(files) + 1
        BY <1>1, <3>2, <4>1, <4>5
      <4> QED BY <3>2, <4>4, <4>5
    <3> QED BY <1>2, <2>5, <3>5, <3>6, <3>7, <3>8 DEF BatchInv
  <2> QED BY <2>1, <2>6, <2>7
<1> QED BY <1>4, <1>5

\* The expansion, the list of skipped members and the batch come to their end.
LEMMA PhaseKeeps == ASSUME BatchBounds, BatchInv, Expanded \/ Skipped \/ Write PROVE BatchInv'
<1>0. QueuesOK /\ ReportOK /\ Disjoint /\ Complete /\ InPhase /\ AnsweredOnce /\ Counted /\ Bounded
  BY DEF BatchInv
<1>1. UNCHANGED <<results, totals, corrected, input, files, skipped, looked, expanded>> /\ late' \in BOOLEAN
  BY <1>0, LaterIs DEF Expanded, Skipped, Write
<1>2. /\ phase' \in {"expand", "skip", "process", "written", "failed"}
      /\ phase \in {"expand", "failed"} => looked = Len(input)
      /\ phase' \notin {"expand", "failed"}
      /\ phase' \in {"process", "written"} => skipped = <<>>
      /\ phase' = "written" => files = <<>>
  BY <1>0 DEF Expanded, Skipped, Write, InPhase
<1>3. ReportOK' /\ AnsweredOnce' /\ Counted' /\ Done' = Done
  BY <1>0, <1>1, SameReport
<1>4. QueuesOK' /\ Disjoint' /\ Bounded'
  BY <1>0, <1>1, <1>2, SameQueues
<1>5. Complete'
  BY <1>0, <1>1, <1>2, <1>3 DEF Complete, Els, Ids
<1>6. InPhase'
  BY <1>1, <1>2 DEF InPhase
<1> QED BY <1>3, <1>4, <1>5, <1>6 DEF BatchInv

\* A skipped member is listed as rejected.
LEMMA SkipKeeps == ASSUME BatchBounds, BatchInv, Skip PROVE BatchInv'
<1>0. QueuesOK /\ ReportOK /\ Disjoint /\ Complete /\ InPhase /\ AnsweredOnce /\ Counted /\ Bounded
  BY DEF BatchInv
<1> DEFINE x == Head(skipped)
<1>1. /\ phase = "skip" /\ skipped # <<>> /\ Listed(x, "rejected", <<>>) /\ skipped' = Tail(skipped)
      /\ UNCHANGED <<input, looked, files, expanded, phase, corrected>> /\ late' \in BOOLEAN
  BY <1>0, LaterIs DEF Skip
<1>2. /\ skipped' \in Seq(Ids) /\ x \in Ids /\ x \in Els(skipped) /\ Injective(skipped')
      /\ Els(skipped') = Els(skipped) \ {x}
  BY <1>0, <1>1, TailFacts DEF QueuesOK, Disjoint
<1> HIDE DEF x
<1>3. x \notin Done /\ "rejected" \in Outcomes
  BY <1>0, <1>2 DEF Disjoint, Outcomes
<1>4. /\ ReportOK' /\ Done' = Done \cup {x} /\ AnsweredOnce'
      /\ totals'["files"] = Len(results')
      /\ \A s \in Outcomes : totals'[s] = Cardinality(With(s)')
      /\ \A s \in Outcomes : totals'[s] = IF s = "rejected" THEN totals[s] + 1 ELSE totals[s]
  BY <1>1, <1>2, <1>3, ListedKeeps
<1>5. Counted'
  BY <1>0, <1>1, <1>4 DEF Counted, Outcomes
<1>6. QueuesOK'
  BY <1>0, <1>1, <1>2 DEF QueuesOK, Ids
<1>7. Disjoint'
  BY <1>0, <1>1, <1>2, <1>4 DEF Disjoint
<1>8. Complete'
  <2>1. Els(skipped)' = Els(skipped) \ {x} /\ Els(files)' = Els(files)
    BY <1>1, <1>2 DEF Els
  <2> QED BY <1>0, <1>1, <1>2, <1>4, <2>1 DEF Complete, Ids
<1>9. InPhase' /\ Bounded'
  BY <1>0, <1>1 DEF InPhase, Bounded, Archive
<1> QED BY <1>4, <1>5, <1>6, <1>7, <1>8, <1>9 DEF BatchInv

\* A member is processed; what was corrected is kept under a new name.
LEMMA ProcessKeeps == ASSUME BatchBounds, BatchInv, Process PROVE BatchInv'
<1>0. QueuesOK /\ ReportOK /\ Disjoint /\ Complete /\ InPhase /\ AnsweredOnce /\ Counted /\ Bounded
  BY DEF BatchInv
<1> DEFINE x == Head(files)
           output(s) == IF s = "processed" THEN Deduped(input[x].out, corrected) ELSE <<>>
<1>1. PICK status \in Outcomes :
        /\ Listed(x, status, output(status))
        /\ corrected' = IF status = "processed" THEN corrected \cup {output(status)} ELSE corrected
  BY DEF Process
<1>2. /\ phase = "process" /\ files # <<>> /\ files' = Tail(files)
      /\ UNCHANGED <<input, looked, skipped, expanded, phase>> /\ late' \in BOOLEAN
  BY <1>0, LaterIs DEF Process
<1>3. /\ files' \in Seq(Ids) /\ x \in Ids /\ x \in Els(files) /\ Injective(files')
      /\ Els(files') = Els(files) \ {x}
      /\ \A i \in DOMAIN files' : files'[i] = files[i + 1] /\ i + 1 \in DOMAIN files
  BY <1>0, <1>2, TailFacts DEF QueuesOK, Disjoint
<1> HIDE DEF x
<1>4. x \notin Done
  BY <1>0, <1>3 DEF Disjoint
<1>5. /\ ReportOK' /\ Done' = Done \cup {x} /\ AnsweredOnce'
      /\ totals'["files"] = Len(results')
      /\ \A s \in Outcomes : totals'[s] = Cardinality(With(s)')
      /\ \A s \in Outcomes : totals'[s] = IF s = status THEN totals[s] + 1 ELSE totals[s]
  BY <1>1, <1>3, <1>4, ListedKeeps
<1>6. IsFiniteSet(corrected') /\ Cardinality(corrected') = totals'["processed"]
  <2>1. IsFiniteSet(corrected) /\ Cardinality(corrected) = totals["processed"]
    BY <1>0 DEF Counted
  <2>2. totals'["processed"] = IF status = "processed" THEN totals["processed"] + 1 ELSE totals["processed"]
    BY <1>5 DEF Outcomes
  <2>3. CASE status = "processed"
    <3>1. Named(input[x].out)
      BY <1>0, <1>3, MemberFacts
    <3>2. Deduped(input[x].out, corrected) \notin corrected
      BY <2>1, <3>1, DedupedIsNew
    <3>3. corrected' = corrected \cup {Deduped(input[x].out, corrected)}
      BY <1>1, <2>3
    <3> QED BY <2>1, <2>2, <2>3, <3>2, <3>3, FS_AddElement
  <2>4. CASE status # "processed"
    BY <1>1, <2>1, <2>2, <2>4
  <2> QED BY <2>3, <2>4
<1>7. Counted'
  BY <1>5, <1>6 DEF Counted
<1>8. QueuesOK'
  BY <1>0, <1>2, <1>3 DEF QueuesOK, Ids
<1>9. Disjoint'
  BY <1>0, <1>2, <1>3, <1>5 DEF Disjoint
<1>10. Complete'
  <2>1. Els(files)' = Els(files) \ {x} /\ Els(skipped)' = Els(skipped)
    BY <1>2, <1>3 DEF Els
  <2> QED BY <1>0, <1>2, <1>3, <1>5, <2>1 DEF Complete, Ids
<1>11. InPhase'
  BY <1>0, <1>2 DEF InPhase
<1>12. Bounded'
  BY <1>0, <1>2, <1>3 DEF Bounded, Archive
<1> QED BY <1>5, <1>7, <1>8, <1>9, <1>10, <1>11, <1>12 DEF BatchInv

LEMMA BatchKeeps == ASSUME BatchBounds, BatchInv, [BatchNext]_batchVars PROVE BatchInv'
<1>1. CASE UNCHANGED batchVars
  <2>0. QueuesOK /\ ReportOK /\ Disjoint /\ Complete /\ InPhase /\ AnsweredOnce /\ Counted /\ Bounded
    BY DEF BatchInv
  <2>1. ReportOK' /\ AnsweredOnce' /\ Counted' /\ Done' = Done
    BY <1>1, <2>0, SameReport DEF batchVars
  <2>2. QueuesOK' /\ Disjoint' /\ Bounded'
    BY <1>1, <2>0, SameQueues DEF batchVars, QueuesOK
  <2>3. Complete' /\ InPhase'
    BY <1>1, <2>0, <2>1 DEF batchVars, Complete, InPhase, Els, Ids
  <2> QED BY <2>1, <2>2, <2>3 DEF BatchInv
<1> QED BY <1>1, ExpandKeeps, PhaseKeeps, SkipKeeps, ProcessKeeps DEF BatchNext

\* When all is written, the report answers for each member once.
LEMMA InvAnswers == ASSUME BatchBounds, BatchInv PROVE EveryMemberAnswered
<1>0. QueuesOK /\ ReportOK /\ Disjoint /\ Complete /\ InPhase /\ AnsweredOnce /\ Counted /\ Bounded
  BY DEF BatchInv
<1>1. Len(input) \in Nat /\ DOMAIN input = Ids
  BY <1>0, InputLength
<1>2. BatchTypeOK
  BY <1>0 DEF QueuesOK, ReportOK, BatchTypeOK, Kinds
<1>3. ASSUME phase = "written"
      PROVE  /\ Len(results) = Len(input) /\ Done = DOMAIN input
             /\ Cardinality(NamesIn("name")) = Len(results)
  <2> DEFINE n    == Len(results)
             ofs  == [i \in 1 .. n |-> results[i].of]
             name == [i \in 1 .. n |-> results[i].name]
  <2>1. n \in Nat /\ DOMAIN results = 1 .. n /\ Named(results)
    BY <1>0 DEF ReportOK, Named
  <2>2. Done = Ids
    <3>1. skipped = <<>> /\ files = <<>>
      BY <1>0, <1>3 DEF InPhase
    <3>2. Els(skipped) = {} /\ Els(files) = {}
      BY <3>1 DEF Els
    <3> QED BY <1>0, <1>3, <3>2 DEF Complete
  <2>3. Injective(ofs) /\ Els(ofs) = Done
    BY <1>0, <2>1 DEF AnsweredOnce, Injective, Els, Done
  <2>4. Injective(name) /\ Els(name) = Names
    BY <1>0, <2>1 DEF AnsweredOnce, Injective, Els, Names
  <2>5. DOMAIN ofs = 1 .. n /\ DOMAIN name = 1 .. n
    OBVIOUS
  <2> HIDE DEF n, ofs, name
  <2>6. Cardinality(Done) = n /\ Cardinality(Names) = n
    BY <2>1, <2>3, <2>4, <2>5, ImageCard
  <2>7. Cardinality(Ids) = Len(input)
    <3> DEFINE m == Len(input)
    <3>1. m \in Nat
      BY <1>1
    <3> HIDE DEF m
    <3>2. Cardinality(1 .. m) = m
      BY <3>1, FS_Interval
    <3> QED BY <3>2 DEF m, Ids
  <2>8. NamesIn("name") = Names
    BY <2>1, NamesFinite
  <2> QED BY <1>1, <2>2, <2>6, <2>7, <2>8 DEF n
<1>4. AllAnswered
  BY <1>0, <1>3 DEF AllAnswered, Counted, With, Done
<1>5. expanded <= MaxExpanded
  BY <1>0 DEF QueuesOK, BatchBounds
<1> QED BY <1>0, <1>2, <1>4, <1>5 DEF EveryMemberAnswered, Bounded

\* Whatever the members are and whatever becomes of them: the report answers for each of them
\* once, under a name of its own, and its totals and the corrected files agree with it
\* (process_batch, record, _dedupe_name, _iter_zip).
THEOREM EachMemberOnce ==
  ASSUME BatchBounds
  PROVE  BatchSpec => []EveryMemberAnswered
<1>1. BatchInit => BatchInv
  BY BatchStarts
<1>2. BatchInv /\ [BatchNext]_batchVars => BatchInv'
  BY BatchKeeps
<1>3. BatchInv => EveryMemberAnswered
  BY InvAnswers
<1> QED BY <1>1, <1>2, <1>3, PTL DEF BatchSpec

(* ---- the export of a large file ---- *)

\* The recursive function by its equation.
Rewriting(g, f, ids, n) ==
  g = [p \in 0 .. n |-> IF p = 0 THEN <<>> ELSE g[p - 1] \o Becomes(f, ids, p)]

LEMMA RewritingExists ==
  ASSUME NEW f, NEW ids, NEW N \in Nat
  PROVE  \E g : Rewriting(g, f, ids, N)
<1> DEFINE S == {n \in 0 .. N : \E g : Rewriting(g, f, ids, n)}
<1>1. 0 \in S
  <2> DEFINE g == [p \in 0 .. 0 |-> <<>>]
  <2>1. Rewriting(g, f, ids, 0)
    BY DEF Rewriting
  <2> QED BY <2>1
<1>2. ASSUME NEW n \in 0 .. N - 1, n \in S PROVE n + 1 \in S
  <2>1. PICK h : Rewriting(h, f, ids, n)
    BY <1>2
  <2> DEFINE g == [p \in 0 .. n + 1 |-> IF p <= n THEN h[p] ELSE h[n] \o Becomes(f, ids, n + 1)]
  <2>2. \A p \in 0 .. n : h[p] = IF p = 0 THEN <<>> ELSE h[p - 1] \o Becomes(f, ids, p)
    BY <2>1 DEF Rewriting
  <2>3. ASSUME NEW p \in 0 .. n + 1
        PROVE  g[p] = IF p = 0 THEN <<>> ELSE g[p - 1] \o Becomes(f, ids, p)
    <3>1. CASE p = 0
      <4>1. g[p] = h[p] /\ p \in 0 .. n BY <3>1
      <4> QED BY <2>2, <3>1, <4>1
    <3>2. CASE p \in 1 .. n
      <4>1. g[p] = h[p] /\ g[p - 1] = h[p - 1] BY <3>2
      <4> QED BY <2>2, <3>2, <4>1
    <3>3. CASE p = n + 1
      <4>1. p - 1 = n /\ p # 0 /\ ~(p <= n) BY <3>3
      <4>2. g[n] = h[n] /\ g[p] = h[n] \o Becomes(f, ids, n + 1) BY <4>1
      <4> HIDE DEF g
      <4> QED BY <3>3, <4>1, <4>2
    <3> QED BY <3>1, <3>2, <3>3
  <2>4. Rewriting(g, f, ids, n + 1)
    <3>1. g = [p \in 0 .. n + 1 |-> g[p]] OBVIOUS
    <3> HIDE DEF g
    <3>2. [p \in 0 .. n + 1 |-> g[p]]
          = [p \in 0 .. n + 1 |-> IF p = 0 THEN <<>> ELSE g[p - 1] \o Becomes(f, ids, p)]
      BY <2>3
    <3> QED BY <3>1, <3>2 DEF Rewriting
  <2> QED BY <2>4
<1>3. 0 .. N \subseteq S
  <2> HIDE DEF S
  <2> QED BY <1>1, <1>2, IntervalInduction
<1> QED BY <1>3

\* A text is a sequence of characters.
LEMMA TextIs ==
  ASSUME LargeFiles, NEW f \in File
  PROVE  /\ Chars[f] \in Seq(Letters) /\ Len(Chars[f]) \in Nat
         /\ \A p \in 1 .. Len(Chars[f]) : Chars[f][p] \in Letters
         /\ Items[f] \in Seq(Pieces) /\ \A i \in DOMAIN Items[f] : Items[f][i] \in Pieces
<1>1. Chars[f] \in Seq(Letters) /\ Items[f] \in Seq(Pieces)
  BY DEF LargeFiles
<1> QED BY <1>1, LenProperties, ElementOfSeq

LEMMA CorrectionIs ==
  ASSUME LargeFiles, NEW f \in File, NEW i \in Corrections(f)
  PROVE  /\ i \in Nat /\ i # 0
         /\ Items[f][i].at \in Nat \ {0} /\ Items[f][i].len \in Nat \ {0} /\ Items[f][i].cand \in Seq(Letters)
<1>1. Items[f] \in Seq(Pieces) /\ i \in DOMAIN Items[f] /\ Items[f][i] \in Pieces /\ Items[f][i].kind = "corrected"
  BY TextIs DEF Corrections
<1>2. i \in Nat /\ i # 0
  BY <1>1, LenProperties
<1> QED BY <1>1, <1>2 DEF LargeFiles

LEMMA RewrittenIs ==
  ASSUME LargeFiles, NEW f \in File, NEW ids
  PROVE  /\ Rewritten(f, ids)[0] = <<>>
         /\ \A p \in 1 .. Len(Chars[f]) :
              Rewritten(f, ids)[p] = Rewritten(f, ids)[p - 1] \o Becomes(f, ids, p)
<1> DEFINE N == Len(Chars[f])
           h == CHOOSE h : h = [p \in 0 .. N |-> IF p = 0 THEN <<>> ELSE h[p - 1] \o Becomes(f, ids, p)]
<1>1. N \in Nat
  BY TextIs
<1>2. \E g : g = [p \in 0 .. N |-> IF p = 0 THEN <<>> ELSE g[p - 1] \o Becomes(f, ids, p)]
  <2> HIDE DEF N
  <2> QED BY <1>1, RewritingExists DEF Rewriting
<1>3. Rewriting(h, f, ids, N)
  BY <1>2 DEF Rewriting
<1>4. Rewritten(f, ids) = h
  BY DEF Rewritten
<1> HIDE DEF h, N
<1>5. \A p \in 0 .. N : h[p] = IF p = 0 THEN <<>> ELSE h[p - 1] \o Becomes(f, ids, p)
  BY <1>3 DEF Rewriting
<1>6. h[0] = <<>> /\ \A p \in 1 .. N : h[p] = h[p - 1] \o Becomes(f, ids, p)
  <2>1. 0 \in 0 .. N
    BY <1>1
  <2>2. h[0] = <<>>
    BY <1>5, <2>1, Zenon
  <2>3. ASSUME NEW p \in 1 .. N PROVE h[p] = h[p - 1] \o Becomes(f, ids, p)
    <3>1. p \in 0 .. N /\ p # 0
      BY <1>1
    <3> QED BY <1>5, <3>1, Zenon
  <2> QED BY <2>2, <2>3
<1> QED BY <1>4, <1>6 DEF N

\* What becomes of a character are characters.
LEMMA BecomesText ==
  ASSUME LargeFiles, NEW f \in File, NEW ids \in SUBSET Corrections(f), NEW p \in 1 .. Len(Chars[f])
  PROVE  Becomes(f, ids, p) \in Seq(Letters)
<1>1. CASE Covering(f, ids, p) = {}
  <2>1. Chars[f][p] \in Letters
    BY TextIs
  <2> QED BY <1>1, <2>1 DEF Becomes
<1>2. CASE Covering(f, ids, p) # {}
  <2>1. PICK i \in Covering(f, ids, p) : i = CHOOSE k \in Covering(f, ids, p) : TRUE
    BY <1>2
  <2>2. i \in Corrections(f)
    BY DEF Covering
  <2>3. Items[f][i].cand \in Seq(Letters) /\ <<>> \in Seq(Letters)
    BY <2>2, CorrectionIs
  <2> QED BY <1>2, <2>1, <2>3 DEF Becomes
<1> QED BY <1>1, <1>2

LEMMA RewrittenText ==
  ASSUME LargeFiles, NEW f \in File, NEW ids \in SUBSET Corrections(f)
  PROVE  \A p \in 0 .. Len(Chars[f]) : Rewritten(f, ids)[p] \in Seq(Letters)
<1> DEFINE N == Len(Chars[f])
           S == {p \in 0 .. N : Rewritten(f, ids)[p] \in Seq(Letters)}
<1>0. N \in Nat
  BY TextIs
<1>1. 0 \in S
  <2>1. <<>> \in Seq(Letters)
    OBVIOUS
  <2>2. Rewritten(f, ids)[0] \in Seq(Letters)
    BY <2>1, RewrittenIs, Zenon
  <2> QED BY <1>0, <2>2
<1>2. ASSUME NEW p \in 0 .. N - 1, p \in S PROVE p + 1 \in S
  <2>1. PICK q \in 1 .. N : q = p + 1 /\ q - 1 = p
    BY <1>0
  <2>2. Becomes(f, ids, q) \in Seq(Letters)
    BY BecomesText
  <2>3. Rewritten(f, ids)[q] = Rewritten(f, ids)[q - 1] \o Becomes(f, ids, q)
    BY RewrittenIs
  <2>4. Rewritten(f, ids)[p] \in Seq(Letters)
    BY <1>2
  <2>5. Rewritten(f, ids)[q] \in Seq(Letters)
    BY <2>1, <2>2, <2>3, <2>4, ConcatProperties
  <2> QED BY <1>0, <2>1, <2>5
<1>3. 0 .. N \subseteq S
  <2> HIDE DEF S, N
  <2> QED BY <1>0, <1>1, <1>2, IntervalInduction
<1> QED BY <1>3

LEMMA Concats == \A x, y, z \in Seq(Letters) : (x \o y) \o z = x \o (y \o z)
BY ConcatAssociative

\* Where nothing is corrected the text goes on as it is.
LEMMA PlainStretch ==
  ASSUME LargeFiles, NEW f \in File, NEW ids \in SUBSET Corrections(f), NEW a \in 0 .. Len(Chars[f]),
         NEW b \in a .. Len(Chars[f]), \A p \in a + 1 .. b : Covering(f, ids, p) = {}
  PROVE  Rewritten(f, ids)[b] = Rewritten(f, ids)[a] \o SubSeq(Chars[f], a + 1, b)
<1> DEFINE T == Chars[f]
           R == Rewritten(f, ids)
           S == {n \in 0 .. b - a : R[a + n] = R[a] \o SubSeq(T, a + 1, a + n)}
<1>0. T \in Seq(Letters) /\ Len(T) \in Nat /\ a \in Nat /\ b \in Nat /\ b - a \in Nat /\ R[a] \in Seq(Letters)
  BY TextIs, RewrittenText
<1>r. \A p \in 1 .. Len(T) : R[p] = R[p - 1] \o Becomes(f, ids, p)
  BY RewrittenIs
<1> HIDE DEF R
<1>1. 0 \in S
  <2>1. SubSeq(T, a + 1, a) = <<>>
    BY <1>0, SubSeqEmpty
  <2>2. R[a] \o <<>> = R[a]
    BY <1>0, ConcatEmptySeq
  <2>3. a + 0 = a /\ 0 \in 0 .. b - a
    BY <1>0
  <2>4. R[a] = R[a] \o SubSeq(T, a + 1, a)
    BY <2>1, <2>2, Zenon
  <2> QED BY <2>3, <2>4
<1>2. ASSUME NEW n \in 0 .. b - a - 1, n \in S PROVE n + 1 \in S
  <2> DEFINE q == a + n + 1
  <2>1. q \in 1 .. Len(T) /\ q \in a + 1 .. b /\ q - 1 = a + n /\ a + (n + 1) = q /\ a + 1 <= q
    BY <1>0
  <2>2. Becomes(f, ids, q) = <<T[q]>>
    BY <2>1 DEF Becomes
  <2>3. SubSeq(T, a + 1, q) = SubSeq(T, a + 1, q - 1) \o <<T[q]>>
    BY <1>0, <2>1, SubSeqRecursiveSecond
  <2> HIDE DEF q
  <2>4. R[q] = (R[a] \o SubSeq(T, a + 1, q - 1)) \o <<T[q]>>
    BY <1>2, <1>r, <2>1, <2>2
  <2>5. SubSeq(T, a + 1, q - 1) \in Seq(Letters) /\ <<T[q]>> \in Seq(Letters)
    <3>1. \A i \in a + 1 .. q - 1 : T[i] \in Letters
      BY <1>0, <2>1, TextIs
    <3>2. T[q] \in Letters
      BY <2>1, TextIs
    <3>3. <<T[q]>> \in Seq(Letters)
      BY <3>2
    <3>4. a + 1 \in Int /\ q - 1 \in Int
      BY <1>0, <2>1
    <3> HIDE DEF T
    <3>5. SubSeq(T, a + 1, q - 1) \in Seq(Letters)
      BY <3>1, <3>4, SubSeqProperties
    <3> QED BY <3>3, <3>5
  <2>6. (R[a] \o SubSeq(T, a + 1, q - 1)) \o <<T[q]>> = R[a] \o (SubSeq(T, a + 1, q - 1) \o <<T[q]>>)
    <3> DEFINE x == SubSeq(T, a + 1, q - 1)
               y == <<T[q]>>
    <3>1. x \in Seq(Letters) /\ y \in Seq(Letters)
      BY <2>5
    <3> HIDE DEF x, y
    <3>2. (R[a] \o x) \o y = R[a] \o (x \o y)
      BY <1>0, <3>1, Concats
    <3> QED BY <3>2 DEF x, y
  <2>7. n + 1 \in 0 .. b - a
    BY <1>0
  <2> QED BY <2>1, <2>3, <2>4, <2>6, <2>7
<1>3. b - a \in S
  <2>1. 0 .. (b - a) \subseteq S
    <3> DEFINE M == b - a
    <3>1. M \in Nat /\ 0 \in S /\ \A n \in 0 .. M - 1 : n \in S => n + 1 \in S
      BY <1>0, <1>1, <1>2
    <3> HIDE DEF S, M
    <3>2. 0 .. M \subseteq S
      BY <3>1, IntervalInduction
    <3> QED BY <3>2 DEF M
  <2>2. b - a \in 0 .. (b - a)
    BY <1>0
  <2> HIDE DEF S
  <2> QED BY <2>1, <2>2
<1>4. a + (b - a) = b
  BY <1>0
<1> QED BY <1>3, <1>4 DEF R

\* A correction behind a place changes nothing before it.
LEMMA LaterCorrection ==
  ASSUME LargeFiles, NEW f \in File, NEW ids \in SUBSET Corrections(f), NEW i \in Corrections(f),
         NEW w \in 0 .. Len(Chars[f]), w < Items[f][i].at
  PROVE  Rewritten(f, ids \cup {i})[w] = Rewritten(f, ids)[w]
<1> DEFINE N == Len(Chars[f])
           A == Rewritten(f, ids)
           B == Rewritten(f, ids \cup {i})
           S == {p \in 0 .. w : B[p] = A[p]}
<1>0. N \in Nat /\ w \in Nat /\ w <= N /\ Items[f][i].at \in Nat
  BY TextIs, CorrectionIs
<1>a. A[0] = <<>> /\ \A p \in 1 .. N : A[p] = A[p - 1] \o Becomes(f, ids, p)
  BY RewrittenIs
<1>b. B[0] = <<>> /\ \A p \in 1 .. N : B[p] = B[p - 1] \o Becomes(f, ids \cup {i}, p)
  BY RewrittenIs
<1>c. \A p \in 1 .. w : Becomes(f, ids \cup {i}, p) = Becomes(f, ids, p)
  <2> SUFFICES ASSUME NEW p \in 1 .. w PROVE Becomes(f, ids \cup {i}, p) = Becomes(f, ids, p)
    OBVIOUS
  <2> DEFINE over(k) == Items[f][k].at <= p /\ p < Items[f][k].at + Items[f][k].len
  <2>1. ~over(i)
    BY <1>0
  <2>2. Covering(f, ids \cup {i}, p) = Covering(f, ids, p)
    <3>1. Covering(f, ids \cup {i}, p) = {k \in ids \cup {i} : over(k)} /\ Covering(f, ids, p) = {k \in ids : over(k)}
      BY DEF Covering
    <3> HIDE DEF over
    <3>2. {k \in ids \cup {i} : over(k)} = {k \in ids : over(k)}
      <4>1. \A k : k = i => ~over(k)
        BY <2>1
      <4> QED BY <4>1
    <3> QED BY <3>1, <3>2
  <2> DEFINE of(X) == IF X = {} THEN <<Chars[f][p]>>
                      ELSE LET r == Items[f][CHOOSE k \in X : TRUE] IN IF r.at = p THEN r.cand ELSE <<>>
  <2>3. Becomes(f, ids \cup {i}, p) = of(Covering(f, ids \cup {i}, p)) /\ Becomes(f, ids, p) = of(Covering(f, ids, p))
    BY Zenon DEF Becomes
  <2> HIDE DEF of
  <2> QED BY <2>2, <2>3
<1> HIDE DEF A, B, N
<1>1. 0 \in S
  BY <1>0, <1>a, <1>b
<1>2. ASSUME NEW n \in 0 .. w - 1, n \in S PROVE n + 1 \in S
  <2>1. PICK q \in 1 .. w : q = n + 1 /\ q - 1 = n /\ q \in 1 .. N /\ q \in 0 .. w
    BY <1>0
  <2>2. B[q] = A[q]
    BY <1>2, <1>a, <1>b, <1>c, <2>1
  <2> QED BY <2>1, <2>2
<1>3. 0 .. w \subseteq S
  <2> HIDE DEF S
  <2> QED BY <1>0, <1>1, <1>2, IntervalInduction
<1>4. w \in 0 .. w
  BY <1>0
<1> QED BY <1>3, <1>4 DEF A, B

\* A correction that begins where the others have ended comes into its place.
LEMMA InPlace ==
  ASSUME LargeFiles, NEW f \in File, NEW ids \in SUBSET Corrections(f), NEW i \in ids,
         \A k \in ids \ {i} : Items[f][k].at + Items[f][k].len - 1 < Items[f][i].at,
         Items[f][i].at + Items[f][i].len - 1 <= Len(Chars[f])
  PROVE  Rewritten(f, ids)[Items[f][i].at + Items[f][i].len - 1]
         = Rewritten(f, ids)[Items[f][i].at - 1] \o Items[f][i].cand
<1> DEFINE N == Len(Chars[f])
           r == Items[f][i]
           A == Rewritten(f, ids)
           S == {n \in 0 .. r.len - 1 : A[r.at + n] = A[r.at - 1] \o r.cand}
<1>0. N \in Nat /\ r.at \in Nat \ {0} /\ r.len \in Nat \ {0} /\ r.cand \in Seq(Letters)
  BY TextIs, CorrectionIs
<1>n. r.at + r.len - 1 <= N
  OBVIOUS
<1>1. \A p \in 1 .. N : A[p] = A[p - 1] \o Becomes(f, ids, p)
  BY RewrittenIs
<1>2. \A p \in r.at .. r.at + r.len - 1 : Becomes(f, ids, p) = IF r.at = p THEN r.cand ELSE <<>>
  <2> SUFFICES ASSUME NEW p \in r.at .. r.at + r.len - 1
               PROVE  Becomes(f, ids, p) = IF r.at = p THEN r.cand ELSE <<>>
    OBVIOUS
  <2>1. \A k \in ids \ {i} : ~(p < Items[f][k].at + Items[f][k].len)
    <3>1. \A k \in ids : Items[f][k].at \in Nat /\ Items[f][k].len \in Nat
      BY CorrectionIs
    <3> SUFFICES ASSUME NEW k \in ids \ {i} PROVE ~(p < Items[f][k].at + Items[f][k].len)
      OBVIOUS
    <3> DEFINE a == Items[f][k].at
               l == Items[f][k].len
               c == r.at
    <3>2. a + l - 1 < c /\ a \in Nat /\ l \in Nat /\ c \in Nat /\ p \in Int /\ c <= p
      BY <1>0, <3>1
    <3> HIDE DEF a, l, c
    <3>3. ~(p < a + l)
      BY <3>2
    <3> QED BY <3>3 DEF a, l
  <2>2. r.at <= p /\ p < r.at + r.len
    BY <1>0
  <2>3. Covering(f, ids, p) = {i}
    BY <2>1, <2>2 DEF Covering
  <2>4. (CHOOSE k \in {i} : TRUE) = i
    OBVIOUS
  <2> QED BY <2>3, <2>4 DEF Becomes
<1>3. A[r.at - 1] \in Seq(Letters)
  <2>1. r.at - 1 \in 0 .. N
    <3> DEFINE a == r.at
               l == r.len
    <3>1. a \in Nat \ {0} /\ l \in Nat \ {0} /\ N \in Nat /\ a + l - 1 <= N
      BY <1>0, <1>n
    <3> HIDE DEF a, l, N
    <3>2. a - 1 \in 0 .. N
      BY <3>1
    <3> QED BY <3>2 DEF a
  <2> QED BY <2>1, RewrittenText
<1> HIDE DEF A, N, r
<1>4. 0 \in S
  <2>1. PICK p \in 1 .. N : p = r.at /\ p \in r.at .. r.at + r.len - 1 /\ r.at + 0 = p
    BY <1>0, <1>n
  <2>2. A[p] = A[p - 1] \o r.cand
    BY <1>1, <1>2, <2>1
  <2>3. 0 \in 0 .. r.len - 1
    BY <1>0
  <2> QED BY <2>1, <2>2, <2>3
<1>5. ASSUME NEW n \in 0 .. r.len - 1 - 1, n \in S PROVE n + 1 \in S
  <2>1. PICK p \in 1 .. N : p = r.at + n + 1 /\ p \in r.at .. r.at + r.len - 1 /\ r.at # p
                            /\ r.at + (n + 1) = p /\ p - 1 = r.at + n
    <3> DEFINE a == r.at
               l == r.len
               p == a + n + 1
    <3>1. a \in Nat \ {0} /\ l \in Nat \ {0} /\ N \in Nat /\ a + l - 1 <= N /\ n \in 0 .. l - 1 - 1 /\ p = a + n + 1
      BY <1>0, <1>n
    <3> HIDE DEF a, l, p
    <3>2. /\ p \in 1 .. N /\ p = a + n + 1 /\ p \in a .. a + l - 1 /\ a # p /\ a + (n + 1) = p /\ p - 1 = a + n
      BY ONLY <3>1
    <3> QED BY <3>2 DEF a, l
  <2>2. A[p] = A[p - 1] \o <<>>
    BY <1>1, <1>2, <2>1
  <2>3. A[p - 1] = A[r.at - 1] \o r.cand
    BY <1>5, <2>1
  <2>4. A[p - 1] \in Seq(Letters)
    BY <1>0, <1>3, <2>3, ConcatProperties
  <2>5. A[p] = A[p - 1]
    BY <2>2, <2>4, ConcatEmptySeq
  <2>6. n + 1 \in 0 .. r.len - 1
    BY <1>0
  <2> QED BY <2>1, <2>3, <2>5, <2>6
<1>6. r.len - 1 \in S
  <2> DEFINE M == r.len - 1
  <2>1. M \in Nat /\ M \in 0 .. M
    BY <1>0
  <2> HIDE DEF S
  <2>4. 0 \in S /\ \A n \in 0 .. M - 1 : n \in S => n + 1 \in S
    BY <1>4, <1>5
  <2> HIDE DEF M
  <2>2. 0 .. M \subseteq S
    BY <2>1, <2>4, IntervalInduction
  <2>3. M \in S
    BY <2>1, <2>2
  <2> QED BY <2>3 DEF M
<1>7. r.at + (r.len - 1) = r.at + r.len - 1
  BY <1>0
<1>8. A[r.at + r.len - 1] = A[r.at - 1] \o r.cand
  BY <1>6, <1>7
<1> QED BY <1>8 DEF A, r

\* What is written when one more correction is spliced in.
LEMMA SplicedText ==
  ASSUME LargeFiles, NEW f \in File, NEW ids \in SUBSET Corrections(f), NEW i \in Corrections(f),
         NEW w \in 0 .. Len(Chars[f]), w < Items[f][i].at, Items[f][i].at + Items[f][i].len - 1 <= Len(Chars[f]),
         \A k \in ids : Items[f][k].at + Items[f][k].len - 1 <= w
  PROVE  Rewritten(f, ids \cup {i})[Items[f][i].at + Items[f][i].len - 1]
         = (Rewritten(f, ids)[w] \o SubSeq(Chars[f], w + 1, Items[f][i].at - 1)) \o Items[f][i].cand
<1> DEFINE r == Items[f][i]
           B == Rewritten(f, ids \cup {i})
<1>0. /\ r.at \in Nat \ {0} /\ r.len \in Nat \ {0} /\ Len(Chars[f]) \in Nat /\ w \in Nat
      /\ \A k \in ids : Items[f][k].at \in Nat /\ Items[f][k].len \in Nat
  BY TextIs, CorrectionIs
<1>1. B[w] = Rewritten(f, ids)[w]
  BY LaterCorrection
<1>2. r.at - 1 \in w .. Len(Chars[f])
  <2> DEFINE a == r.at
             l == r.len
             N == Len(Chars[f])
  <2>1. a \in Nat /\ l \in Nat \ {0} /\ N \in Nat /\ w \in Nat /\ w < a /\ a + l - 1 <= N
    BY <1>0
  <2> HIDE DEF a, l, N
  <2>2. a - 1 \in w .. N
    BY ONLY <2>1
  <2> QED BY <2>2 DEF a, N
<1>3. ASSUME NEW p \in w + 1 .. r.at - 1 PROVE Covering(f, ids \cup {i}, p) = {}
  <2>1. ~(r.at <= p)
    BY <1>0
  <2>2. \A k \in ids : ~(p < Items[f][k].at + Items[f][k].len)
    <3> SUFFICES ASSUME NEW k \in ids PROVE ~(p < Items[f][k].at + Items[f][k].len)
      OBVIOUS
    <3> DEFINE a == Items[f][k].at
               l == Items[f][k].len
    <3>1. a + l - 1 <= w /\ a \in Nat /\ l \in Nat /\ w \in Nat /\ p \in Int /\ w + 1 <= p
      BY <1>0
    <3> HIDE DEF a, l
    <3>2. ~(p < a + l)
      BY <3>1
    <3> QED BY <3>2 DEF a, l
  <2> QED BY <2>1, <2>2 DEF Covering
<1>4. ids \cup {i} \in SUBSET Corrections(f)
  OBVIOUS
<1>5. B[r.at - 1] = B[w] \o SubSeq(Chars[f], w + 1, r.at - 1)
  <2> DEFINE J == ids \cup {i}
             b == r.at - 1
  <2>1. J \in SUBSET Corrections(f) /\ b \in w .. Len(Chars[f]) /\ \A p \in w + 1 .. b : Covering(f, J, p) = {}
    BY <1>2, <1>3, <1>4
  <2> HIDE DEF J, b
  <2>2. Rewritten(f, J)[b] = Rewritten(f, J)[w] \o SubSeq(Chars[f], w + 1, b)
    BY <2>1, PlainStretch
  <2> QED BY <2>2 DEF J, b
<1>6. B[r.at + r.len - 1] = B[r.at - 1] \o r.cand
  <2> DEFINE J == ids \cup {i}
  <2>1. J \in SUBSET Corrections(f) /\ i \in J
    OBVIOUS
  <2>2. ASSUME NEW k \in J \ {i} PROVE Items[f][k].at + Items[f][k].len - 1 < Items[f][i].at
    <3> DEFINE a == Items[f][k].at
               l == Items[f][k].len
               c == Items[f][i].at
    <3>1. a \in Nat /\ l \in Nat /\ c \in Nat /\ w \in Nat /\ a + l - 1 <= w /\ w < c
      BY <1>0
    <3> HIDE DEF a, l, c
    <3>2. a + l - 1 < c
      BY ONLY <3>1
    <3> QED BY <3>2 DEF a, l, c
  <2> HIDE DEF J
  <2>3. Rewritten(f, J)[Items[f][i].at + Items[f][i].len - 1] = Rewritten(f, J)[Items[f][i].at - 1] \o Items[f][i].cand
    BY <2>1, <2>2, InPlace
  <2> QED BY <2>3 DEF J
<1> QED BY <1>1, <1>5, <1>6

\* A part of a part of a text.
LEMMA PartOfPart ==
  ASSUME LargeFiles, NEW f \in File, NEW a \in 0 .. Len(Chars[f]), NEW b \in a .. Len(Chars[f])
  PROVE  /\ SubSeq(Chars[f], a + 1, b) \in Seq(Letters) /\ Len(SubSeq(Chars[f], a + 1, b)) = b - a
         /\ \A c \in 0 .. b - a : \A d \in c .. b - a :
              /\ SubSeq(SubSeq(Chars[f], a + 1, b), c + 1, d) = SubSeq(Chars[f], a + c + 1, a + d)
              /\ SubSeq(SubSeq(Chars[f], a + 1, b), c + 1, d) \in Seq(Letters)
<1> DEFINE T == Chars[f]
           s == SubSeq(T, a + 1, b)
<1>0. T \in Seq(Letters) /\ Len(T) \in Nat /\ a \in Nat /\ b \in Nat /\ a <= b /\ b <= Len(T)
  BY TextIs
<1>1. ASSUME NEW m \in Nat, NEW n \in Nat, m <= n, n <= Len(T)
      PROVE  /\ SubSeq(T, m + 1, n) \in Seq(Letters) /\ Len(SubSeq(T, m + 1, n)) = n - m
             /\ \A i \in 1 .. n - m : SubSeq(T, m + 1, n)[i] = T[m + i]
  <2>1. \A i \in m + 1 .. n : T[i] \in Letters
    BY <1>0, <1>1, TextIs
  <2>2. m + 1 \in Int /\ n \in Int
    OBVIOUS
  <2>3. /\ SubSeq(T, m + 1, n) \in Seq(Letters)
        /\ Len(SubSeq(T, m + 1, n)) = IF m + 1 <= n THEN n - (m + 1) + 1 ELSE 0
        /\ \A i \in 1 .. n - (m + 1) + 1 : SubSeq(T, m + 1, n)[i] = T[m + 1 + i - 1]
    <3> HIDE DEF T
    <3> QED BY <2>1, <2>2, SubSeqProperties
  <2>4. Len(SubSeq(T, m + 1, n)) = n - m
    BY <1>1, <2>3
  <2>5. \A i \in 1 .. n - m : m + 1 + i - 1 = m + i
    OBVIOUS
  <2>6. n - (m + 1) + 1 = n - m
    OBVIOUS
  <2> QED BY <2>3, <2>4, <2>5, <2>6
<1>2. s \in Seq(Letters) /\ Len(s) = b - a /\ \A i \in 1 .. b - a : s[i] = T[a + i]
  BY <1>0, <1>1
<1>3. ASSUME NEW c \in 0 .. b - a, NEW d \in c .. b - a
      PROVE  SubSeq(s, c + 1, d) = SubSeq(T, a + c + 1, a + d) /\ SubSeq(s, c + 1, d) \in Seq(Letters)
  <2> DEFINE x == SubSeq(s, c + 1, d)
             y == SubSeq(T, a + c + 1, a + d)
  <2>1. c \in Nat /\ d \in Nat /\ c <= d /\ d <= b - a /\ a + c \in Nat /\ a + d \in Nat /\ a + c <= a + d /\ a + d <= Len(T)
    BY <1>0
  <2>2. y \in Seq(Letters) /\ Len(y) = d - c /\ \A i \in 1 .. d - c : y[i] = T[a + c + i]
    <3>1. (a + d) - (a + c) = d - c
      BY <1>0, <2>1
    <3>2. /\ y \in Seq(Letters) /\ Len(y) = (a + d) - (a + c)
          /\ \A i \in 1 .. (a + d) - (a + c) : y[i] = T[(a + c) + i]
      BY <1>1, <2>1
    <3> QED BY <3>1, <3>2
  <2>3. x \in Seq(Letters) /\ Len(x) = d - c /\ \A i \in 1 .. d - c : x[i] = s[c + i]
    <3>1. \A i \in c + 1 .. d : s[i] \in Letters
      BY <1>0, <1>2, <2>1, ElementOfSeq
    <3>2. /\ x \in Seq(Letters) /\ Len(x) = IF c + 1 <= d THEN d - (c + 1) + 1 ELSE 0
          /\ \A i \in 1 .. d - (c + 1) + 1 : x[i] = s[c + 1 + i - 1]
      <4> HIDE DEF s
      <4> QED BY <2>1, <3>1, SubSeqProperties
    <3>3. Len(x) = d - c
      BY <2>1, <3>2
    <3>4. d - (c + 1) + 1 = d - c /\ \A i \in 1 .. d - c : c + 1 + i - 1 = c + i
      BY <2>1
    <3> QED BY <3>2, <3>3, <3>4
  <2>4. \A i \in 1 .. d - c : x[i] = y[i]
    <3> SUFFICES ASSUME NEW i \in 1 .. d - c PROVE x[i] = y[i]
      OBVIOUS
    <3>1. c + i \in 1 .. b - a /\ a + (c + i) = a + c + i
      BY <1>0, <2>1
    <3> HIDE DEF x, y, s, T
    <3> QED BY <1>2, <2>2, <2>3, <3>1
  <2> HIDE DEF x, y
  <2>5. x = y
    BY <2>2, <2>3, <2>4, SeqEqual
  <2> QED BY <2>3, <2>5 DEF x, y
<1> QED BY <1>2, <1>3

\* What was written ends before the place where the file is read.
LEMMA WrittenIs ==
  ASSUME LargeFiles, NEW f \in File, NEW e \in ExportRow, InHand(f, e)
  PROVE  /\ e.pos \in Nat /\ e.pos <= Len(Chars[f]) /\ Len(Chars[f]) \in Nat
         /\ Written(e) \in Nat /\ Written(e) <= e.pos /\ Written(e) \in 0 .. Len(Chars[f])
         /\ e.chunk = Null => /\ e.carry = SubSeq(Chars[f], Written(e) + 1, e.pos)
                              /\ Len(e.carry) \in Nat /\ Written(e) = e.pos - Len(e.carry)
         /\ e.chunk # Null => /\ e.chunk = SubSeq(Chars[f], e.pos - Len(e.chunk) + 1, e.pos)
                              /\ Len(e.chunk) \in Nat /\ Len(e.chunk) <= e.pos
                              /\ e.cursor \in Nat /\ e.cursor <= Len(e.chunk) /\ e.carry = <<>>
                              /\ Written(e) = e.pos - Len(e.chunk) + e.cursor
<1>0. e.pos \in Nat /\ e.pos <= Len(Chars[f]) /\ Len(Chars[f]) \in Nat /\ e.cursor \in Nat /\ e.carry \in Seq(Letters)
  BY TextIs DEF ExportRow, InHand
<1>1. Len(e.carry) \in Nat /\ (e.chunk # Null => Len(e.chunk) \in Nat)
  BY <1>0, LenProperties DEF ExportRow
<1>2. CASE e.chunk = Null
  <2>1. Written(e) = e.pos - Len(e.carry) /\ Len(e.carry) <= e.pos
    BY <1>2 DEF Written, InHand
  <2>2. e.carry = SubSeq(Chars[f], e.pos - Len(e.carry) + 1, e.pos)
    BY <1>2 DEF InHand
  <2>3. Written(e) \in Nat /\ Written(e) <= e.pos /\ Written(e) \in 0 .. Len(Chars[f])
    BY <1>0, <1>1, <2>1
  <2> QED BY <1>0, <1>1, <1>2, <2>1, <2>2, <2>3
<1>3. CASE e.chunk # Null
  <2>1. Written(e) = e.pos - Len(e.chunk) + e.cursor /\ Len(e.chunk) <= e.pos /\ e.cursor <= Len(e.chunk) /\ e.carry = <<>>
    BY <1>3 DEF Written, InHand
  <2>2. e.chunk = SubSeq(Chars[f], e.pos - Len(e.chunk) + 1, e.pos)
    BY <1>3 DEF InHand
  <2>3. Written(e) \in Nat /\ Written(e) <= e.pos /\ Written(e) \in 0 .. Len(Chars[f])
    BY <1>0, <1>1, <1>3, <2>1
  <2> QED BY <1>0, <1>1, <1>3, <2>1, <2>2, <2>3
<1> QED BY <1>2, <1>3

LEMMA NoText == <<>> \in Seq(Letters) /\ Len(<<>>) = 0
OBVIOUS

\* A stretch of a text, and the next.
LEMMA NextStretch ==
  ASSUME LargeFiles, NEW f \in File, NEW w \in Nat, NEW p \in Nat, NEW q \in Nat, w <= p, p <= q, q <= Len(Chars[f])
  PROVE  /\ SubSeq(Chars[f], w + 1, p) \o SubSeq(Chars[f], p + 1, q) = SubSeq(Chars[f], w + 1, q)
         /\ SubSeq(Chars[f], w + 1, q) \in Seq(Letters) /\ Len(SubSeq(Chars[f], w + 1, q)) = q - w
         /\ SubSeq(Chars[f], w + 1, q) # Null
<1> DEFINE T == Chars[f]
           N == Len(T)
<1>1. T \in Seq(Letters) /\ N \in Nat
  BY TextIs
<1>2. w + 1 \in 1 .. N + 1 /\ p \in w + 1 - 1 .. N /\ q \in p .. N /\ w \in 0 .. N /\ q \in w .. N /\ q \in 0 .. N
  BY <1>1
<1>3. SubSeq(T, w + 1, q) # Null
  BY <1>2 DEF LargeFiles
<1>4. SubSeq(T, w + 1, q) \in Seq(Letters) /\ Len(SubSeq(T, w + 1, q)) = q - w
  BY <1>2, PartOfPart
<1>5. SubSeq(T, w + 1, p) \o SubSeq(T, p + 1, q) = SubSeq(T, w + 1, q)
  <2> HIDE DEF T
  <2> QED BY <1>1, <1>2, ConcatAdjacentSubSeq DEF N
<1> QED BY <1>3, <1>4, <1>5

\* What a step makes of the row of an export.
ReadTo(f, e, k) ==
  [e EXCEPT !.chunk = e.carry \o SubSeq(Chars[f], e.pos + 1, e.pos + k), !.carry = <<>>, !.cursor = 0, !.pos = e.pos + k]

WrittenTo(e, keep) ==
  [e EXCEPT !.out = e.out \o SubSeq(e.chunk, e.cursor + 1, keep),
            !.carry = SubSeq(e.chunk, keep + 1, Len(e.chunk)), !.chunk = Null]

SplicedIn(e, r, s, i) ==
  [e EXCEPT !.out = e.out \o SubSeq(e.chunk, e.cursor + 1, s) \o r.cand, !.cursor = s + r.len,
            !.applied = e.applied \cup {e.edit}, !.edit = i]

\* The next chunk is put behind what was left over.
LEMMA ReadsOn ==
  ASSUME LargeFiles, NEW f \in File, NEW e \in ExportRow, InHand(f, e), SplicedSoFar(f, e), e.chunk = Null,
         NEW k \in Nat, e.pos + k <= Len(Chars[f]),
         NEW x, x = ReadTo(f, e, k)
  PROVE  /\ x \in ExportRow /\ InHand(f, x) /\ SplicedSoFar(f, x)
         /\ x.ever = e.ever /\ x.always = e.always /\ x.applied = e.applied /\ x.edit = e.edit /\ x.phase = e.phase
<1> DEFINE w == Written(e)
           c == SubSeq(Chars[f], w + 1, e.pos + k)
<1>1. /\ w \in Nat /\ e.pos \in Nat /\ w <= e.pos /\ Len(Chars[f]) \in Nat /\ e.pos <= Len(Chars[f])
      /\ e.carry = SubSeq(Chars[f], w + 1, e.pos)
  BY WrittenIs
<1> DEFINE q == e.pos + k
<1>q. q \in Nat /\ e.pos <= q /\ q <= Len(Chars[f]) /\ q - (q - w) = w /\ q - w <= q /\ q - w \in Nat
  <2> DEFINE p == e.pos
             N == Len(Chars[f])
  <2>1. w \in Nat /\ p \in Nat /\ k \in Nat /\ N \in Nat /\ w <= p /\ p + k <= N /\ q = p + k
    BY <1>1
  <2> HIDE DEF p, N, q, w
  <2>2. q \in Nat /\ p <= q /\ q <= N /\ q - (q - w) = w /\ q - w <= q /\ q - w \in Nat
    BY ONLY <2>1
  <2> QED BY <2>2 DEF p, N
<1>2. e.carry \o SubSeq(Chars[f], e.pos + 1, q) = c /\ c \in Seq(Letters) /\ Len(c) = q - w /\ c # Null
  <2> HIDE DEF w, q
  <2>1. /\ SubSeq(Chars[f], w + 1, e.pos) \o SubSeq(Chars[f], e.pos + 1, q) = SubSeq(Chars[f], w + 1, q)
        /\ SubSeq(Chars[f], w + 1, q) \in Seq(Letters) /\ Len(SubSeq(Chars[f], w + 1, q)) = q - w
        /\ SubSeq(Chars[f], w + 1, q) # Null
    <3>1. w \in Nat /\ e.pos \in Nat /\ q \in Nat /\ w <= e.pos /\ e.pos <= q /\ q <= Len(Chars[f])
      BY <1>1, <1>q
    <3> DEFINE p == e.pos
    <3> HIDE DEF p
    <3>2. w \in Nat /\ p \in Nat /\ q \in Nat /\ w <= p /\ p <= q /\ q <= Len(Chars[f])
      BY <3>1 DEF p
    <3>3. /\ SubSeq(Chars[f], w + 1, p) \o SubSeq(Chars[f], p + 1, q) = SubSeq(Chars[f], w + 1, q)
          /\ SubSeq(Chars[f], w + 1, q) \in Seq(Letters) /\ Len(SubSeq(Chars[f], w + 1, q)) = q - w
          /\ SubSeq(Chars[f], w + 1, q) # Null
      BY ONLY LargeFiles, f \in File, <3>2, NextStretch
    <3> QED BY <3>3 DEF p
  <2> QED BY <1>1, <2>1 DEF q
<1>4. PICK y : y = <<>> /\ y \in Seq(Letters)
  BY NoText
<1>5. x = [e EXCEPT !.chunk = c, !.carry = y, !.cursor = 0, !.pos = q]
  BY <1>2, <1>4 DEF ReadTo
<1> HIDE DEF c, w, q
<1>6. /\ x \in ExportRow
      /\ x.chunk = c /\ x.carry = y /\ x.cursor = 0 /\ x.pos = q /\ x.phase = e.phase /\ x.out = e.out
      /\ x.ever = e.ever /\ x.always = e.always /\ x.applied = e.applied /\ x.edit = e.edit
  <2>1. c \in Seq(Letters) /\ y \in Seq(Letters) /\ q \in Nat
    BY <1>2, <1>4, <1>q
  <2>2. PICK z : z = [e EXCEPT !.chunk = c, !.carry = y, !.cursor = 0, !.pos = q]
    OBVIOUS
  <2>3. /\ z \in ExportRow
        /\ z.chunk = c /\ z.carry = y /\ z.cursor = 0 /\ z.pos = q /\ z.phase = e.phase /\ z.out = e.out
        /\ z.ever = e.ever /\ z.always = e.always /\ z.applied = e.applied /\ z.edit = e.edit
    BY <2>1, <2>2 DEF ExportRow
  <2>4. x = z
    BY <1>5, <2>2
  <2> QED BY <2>3, <2>4
<1>7. Written(x) = w
  <2>1. Written(x) = x.pos - Len(x.chunk) + x.cursor
    BY <1>2, <1>6 DEF Written
  <2>2. w + 0 = w
    BY <1>1
  <2> QED BY <1>2, <1>6, <1>q, <2>1, <2>2
<1>8. InHand(f, x)
  <2>1. x.pos - Len(x.chunk) = w /\ Len(x.chunk) <= x.pos /\ x.cursor <= Len(x.chunk)
    <3>1. Len(x.chunk) = q - w /\ x.pos = q /\ x.cursor = 0
      BY <1>2, <1>6
    <3>2. 0 <= q - w
      BY <1>q
    <3> QED BY <1>q, <3>1, <3>2
  <2>2. x.chunk = SubSeq(Chars[f], x.pos - Len(x.chunk) + 1, x.pos)
    BY <1>6, <2>1 DEF c, q
  <2> QED BY <1>2, <1>4, <1>6, <1>q, <2>1, <2>2 DEF InHand
<1>9. SplicedSoFar(f, x)
  BY <1>6, <1>7 DEF SplicedSoFar, w
<1> QED BY <1>6, <1>8, <1>9

\* The rest of a chunk is written, up to a place behind what is written already.
LEMMA WritesOn ==
  ASSUME LargeFiles, NEW f \in File, NEW e \in ExportRow, InHand(f, e), SplicedSoFar(f, e), e.chunk # Null,
         e.applied \subseteq Corrections(f), NEW keep \in Nat, e.cursor <= keep, keep <= Len(e.chunk),
         NEW x, x = WrittenTo(e, keep)
  PROVE  /\ x \in ExportRow /\ InHand(f, x) /\ SplicedSoFar(f, x)
         /\ x.ever = e.ever /\ x.always = e.always /\ x.applied = e.applied /\ x.edit = e.edit /\ x.phase = e.phase
<1> DEFINE T == Chars[f]
           n == Len(e.chunk)
           b == e.pos - n
           w == Written(e)
           u == b + keep
           o == e.out \o SubSeq(e.chunk, e.cursor + 1, keep)
           c == SubSeq(e.chunk, keep + 1, n)
<1>1. /\ w \in Nat /\ e.pos \in Nat /\ Len(T) \in Nat /\ e.pos <= Len(T) /\ n \in Nat /\ n <= e.pos
      /\ e.chunk = SubSeq(T, b + 1, e.pos) /\ e.cursor \in Nat /\ w = b + e.cursor /\ b \in Nat
  BY WrittenIs
<1> DEFINE N == Len(T)
           p == e.pos
           k == e.cursor
<1>n. /\ w \in Nat /\ p \in Nat /\ N \in Nat /\ p <= N /\ n \in Nat /\ n <= p /\ k \in Nat /\ w = b + k /\ b \in Nat
      /\ b = p - n /\ u = b + keep /\ k <= keep /\ keep <= n
  BY <1>1
<1>k. keep \in Nat
  OBVIOUS
<1>m. /\ b \in 0 .. N /\ p \in b .. N /\ p - b = n /\ u \in 0 .. N /\ p \in u .. N /\ w \in 0 .. N /\ u \in w .. N
      /\ k \in 0 .. n /\ keep \in k .. n /\ keep \in 0 .. n /\ n \in keep .. n /\ b + n = p
      /\ p - u = n - keep /\ u \in Nat /\ p - (n - keep) = u /\ n - keep <= p /\ w <= u /\ n - keep \in Nat
  <2> HIDE DEF T, n, b, w, u, N, p, k
  <2> QED BY ONLY <1>n, <1>k
<1>2. /\ SubSeq(e.chunk, k + 1, keep) = SubSeq(T, w + 1, u)
      /\ SubSeq(e.chunk, k + 1, keep) \in Seq(Letters)
      /\ c = SubSeq(T, u + 1, p) /\ c \in Seq(Letters) /\ Len(c) = n - keep
  <2>1. e.chunk = SubSeq(T, b + 1, p)
    BY <1>1
  <2>3. /\ Len(SubSeq(T, u + 1, p)) = p - u
        /\ \A x1 \in 0 .. n : \A d \in x1 .. n :
             /\ SubSeq(e.chunk, x1 + 1, d) = SubSeq(T, b + x1 + 1, b + d)
             /\ SubSeq(e.chunk, x1 + 1, d) \in Seq(Letters)
    <3> HIDE DEF n, b, u, p, N
    <3>1. /\ p - b = n
          /\ \A x1 \in 0 .. p - b : \A d \in x1 .. p - b :
             /\ SubSeq(SubSeq(T, b + 1, p), x1 + 1, d) = SubSeq(T, b + x1 + 1, b + d)
             /\ SubSeq(SubSeq(T, b + 1, p), x1 + 1, d) \in Seq(Letters)
      BY <1>m, PartOfPart DEF N
    <3>2. Len(SubSeq(T, u + 1, p)) = p - u
      BY <1>m, PartOfPart DEF N
    <3> QED BY <2>1, <3>1, <3>2
  <2>4. c = SubSeq(e.chunk, keep + 1, n)
    OBVIOUS
  <2> HIDE DEF n, b, w, u, p, k, c, T, N
  <2> QED BY <1>n, <1>m, <2>3, <2>4
<1>3. e.out = Rewritten(f, e.applied)[w] /\ \A i \in e.applied : Items[f][i].at + Items[f][i].len - 1 <= w
  BY DEF SplicedSoFar
<1>4. w \in 0 .. Len(T) /\ u \in w .. Len(T) /\ u \in 0 .. Len(T)
  BY <1>m
<1>5. o = Rewritten(f, e.applied)[u]
  <2>1. ASSUME NEW q \in w + 1 .. u PROVE Covering(f, e.applied, q) = {}
    <3>1. ASSUME NEW i \in e.applied PROVE ~(q < Items[f][i].at + Items[f][i].len)
      <4> DEFINE a == Items[f][i].at
                 l == Items[f][i].len
      <4>1. a + l - 1 <= w /\ a \in Nat /\ l \in Nat
        BY <1>3, <3>1, CorrectionIs
      <4> HIDE DEF a, l, w, u
      <4>3. w \in Nat /\ u \in Nat /\ q \in Int /\ w + 1 <= q
        BY <1>n, <1>m
      <4> HIDE DEF n, b, p, k, N
      <4>2. ~(q < a + l)
        BY <4>1, <4>3
      <4> QED BY <4>2 DEF a, l
    <3> QED BY <3>1 DEF Covering
  <2> HIDE DEF w, u, T, n, b, p, k, N
  <2>2. Rewritten(f, e.applied)[u] = Rewritten(f, e.applied)[w] \o SubSeq(T, w + 1, u)
    BY <1>4, <2>1, PlainStretch DEF T
  <2> QED BY <1>2, <1>3, <2>2 DEF k
<1>6. o \in Seq(Letters)
  BY <1>4, <1>5, RewrittenText
<1>7. w \in Nat /\ u \in Nat /\ e.pos - (n - keep) = u /\ n - keep <= e.pos /\ w <= u /\ n - keep \in Nat
  BY <1>n, <1>m
<1> HIDE DEF o, c, u, w, b, n
<1>8. x = [e EXCEPT !.out = o, !.carry = c, !.chunk = Null]
  BY DEF o, c, n, WrittenTo
<1>9. /\ x \in ExportRow
      /\ x.chunk = Null /\ x.carry = c /\ x.pos = e.pos /\ x.phase = e.phase /\ x.out = o
      /\ x.ever = e.ever /\ x.always = e.always /\ x.applied = e.applied /\ x.edit = e.edit
  BY <1>2, <1>6, <1>8 DEF ExportRow
<1>10. Written(x) = u
  BY <1>2, <1>7, <1>9 DEF Written
<1>11. InHand(f, x)
  BY <1>1, <1>2, <1>7, <1>9 DEF InHand
<1>12. SplicedSoFar(f, x)
  <2>1. ASSUME NEW i \in x.applied PROVE Items[f][i].at + Items[f][i].len - 1 <= u
    <3> DEFINE a == Items[f][i].at
               l == Items[f][i].len
    <3>1. a + l - 1 <= w /\ a \in Nat /\ l \in Nat
      BY <1>3, <1>9, CorrectionIs
    <3> HIDE DEF a, l
    <3>2. a + l - 1 <= u
      BY <1>1, <1>7, <3>1
    <3> QED BY <3>2 DEF a, l
  <2> QED BY <1>5, <1>9, <1>10, <2>1 DEF SplicedSoFar
<1> QED BY <1>9, <1>11, <1>12

\* A correction that begins behind what is written and is whole in the chunk is spliced in.
LEMMA SplicesOn ==
  ASSUME LargeFiles, NEW f \in File, NEW e \in ExportRow, InHand(f, e), SplicedSoFar(f, e), e.chunk # Null,
         e.applied \subseteq Corrections(f), e.edit \in Corrections(f), NEW i \in Nat,
         NEW s, s = Items[f][e.edit].at - 1 - (e.pos - Len(e.chunk)),
         e.cursor <= s, s + Items[f][e.edit].len <= Len(e.chunk),
         NEW x, x = SplicedIn(e, Items[f][e.edit], s, i)
  PROVE  /\ x \in ExportRow /\ InHand(f, x) /\ SplicedSoFar(f, x)
         /\ x.ever = e.ever /\ x.always = e.always /\ x.applied = e.applied \cup {e.edit} /\ x.edit = i
         /\ x.phase = e.phase
<1> DEFINE T == Chars[f]
           N == Len(T)
           p == e.pos
           n == Len(e.chunk)
           k == e.cursor
           b == p - n
           w == Written(e)
           a == Items[f][e.edit].at
           l == Items[f][e.edit].len
           v == a + l - 1
           d == Items[f][e.edit].cand
           o == e.out \o SubSeq(e.chunk, k + 1, s) \o d
           A == e.applied \cup {e.edit}
<1>1. /\ p \in Nat /\ N \in Nat /\ p <= N /\ n \in Nat /\ n <= p /\ k \in Nat /\ w = b + k
      /\ e.chunk = SubSeq(T, b + 1, p) /\ e.carry = <<>>
  BY WrittenIs
<1>2. a \in Nat \ {0} /\ l \in Nat \ {0} /\ d \in Seq(Letters) /\ e.edit \in Nat
  BY CorrectionIs
<1>3. b = p - n /\ s = a - 1 - b /\ v = a + l - 1 /\ k <= s /\ s + l <= n
  OBVIOUS
<1>4. /\ b \in Nat /\ w \in Nat /\ s \in Nat /\ v \in Nat /\ s + l \in Nat
      /\ b \in 0 .. N /\ p \in b .. N /\ p - b = n /\ w \in 0 .. N /\ w < a /\ v <= N /\ w <= v
      /\ k \in 0 .. n /\ s \in k .. n /\ b + s = a - 1 /\ p - n + (s + l) = v
  <2> HIDE DEF T, N, p, n, k, b, w, a, l, v, d, o, A
  <2>1. /\ N \in Nat /\ p \in Nat /\ n \in Nat /\ k \in Nat /\ a \in Nat \ {0} /\ l \in Nat \ {0}
        /\ p <= N /\ n <= p /\ b = p - n /\ w = b + k /\ s = a - 1 - b /\ v = a + l - 1 /\ k <= s /\ s + l <= n
    BY <1>1, <1>2, <1>3
  <2> QED BY ONLY <2>1
<1>5. SubSeq(e.chunk, k + 1, s) = SubSeq(T, w + 1, a - 1)
  <2>1. p - b = n /\ \A c \in 0 .. p - b : \A g \in c .. p - b :
                       SubSeq(SubSeq(T, b + 1, p), c + 1, g) = SubSeq(T, b + c + 1, b + g)
    <3> HIDE DEF p, n, b, w, N
    <3> QED BY <1>4, PartOfPart DEF N
  <2> HIDE DEF T, N, p, n, k, b, w, a, l, v, d, o, A
  <2>2. SubSeq(SubSeq(T, b + 1, p), k + 1, s) = SubSeq(T, b + k + 1, b + s)
    BY <1>4, <2>1
  <2> QED BY <1>1, <1>4, <2>2
<1>6. e.out = Rewritten(f, e.applied)[w] /\ \A g \in e.applied : Items[f][g].at + Items[f][g].len - 1 <= w
  BY DEF SplicedSoFar
<1>7. A \in SUBSET Corrections(f) /\ e.applied \in SUBSET Corrections(f)
  OBVIOUS
<1>8. o = Rewritten(f, A)[v]
  <2>1. Rewritten(f, A)[v] = (Rewritten(f, e.applied)[w] \o SubSeq(T, w + 1, a - 1)) \o d
    <3>1. w < Items[f][e.edit].at /\ Items[f][e.edit].at + Items[f][e.edit].len - 1 <= Len(Chars[f]) /\ w \in 0 .. Len(Chars[f])
      BY <1>4
    <3> HIDE DEF w
    <3> QED BY <1>6, <1>7, <3>1, SplicedText
  <2> HIDE DEF T, N, p, n, k, b, w, a, l, v, d, A
  <2> QED BY <1>5, <1>6, <2>1
<1>9. o \in Seq(Letters)
  <2>1. v \in 0 .. Len(Chars[f])
    BY <1>4
  <2> HIDE DEF v, A, o
  <2> QED BY <1>7, <1>8, <2>1, RewrittenText
<1>10. A \in SUBSET Nat
  BY <1>2 DEF ExportRow
<1> DEFINE c == s + l
<1>11. x = [e EXCEPT !.out = o, !.cursor = c, !.applied = A, !.edit = i]
  BY DEF SplicedIn
<1>12. c \in Nat /\ c <= n /\ p - n + c = v
  BY <1>3, <1>4
<1>13. \A g \in A : Items[f][g].at + Items[f][g].len - 1 <= v
  <2>1. ASSUME NEW g \in e.applied PROVE Items[f][g].at + Items[f][g].len - 1 <= v
    <3> DEFINE at == Items[f][g].at
               len == Items[f][g].len
    <3>1. at + len - 1 <= w /\ at \in Nat /\ len \in Nat
      BY <1>6, CorrectionIs
    <3> HIDE DEF at, len, v, w
    <3>2. at + len - 1 <= v
      BY <1>4, <3>1
    <3> QED BY <3>2 DEF at, len
  <2>2. Items[f][e.edit].at + Items[f][e.edit].len - 1 <= v
    <3>1. v = Items[f][e.edit].at + Items[f][e.edit].len - 1 /\ v \in Nat
      BY <1>4
    <3> HIDE DEF v
    <3> QED BY <3>1
  <2> HIDE DEF v
  <2> QED BY <2>1, <2>2
<1> HIDE DEF o, c, A, v, w, a, l, d, b
<1>14. /\ x \in ExportRow
       /\ x.chunk = e.chunk /\ x.carry = e.carry /\ x.cursor = c /\ x.pos = p /\ x.phase = e.phase /\ x.out = o
       /\ x.ever = e.ever /\ x.always = e.always /\ x.applied = A /\ x.edit = i
  <2>1. PICK z : z = [e EXCEPT !.out = o, !.cursor = c, !.applied = A, !.edit = i]
    OBVIOUS
  <2>2. /\ z \in ExportRow
        /\ z.chunk = e.chunk /\ z.carry = e.carry /\ z.cursor = c /\ z.pos = p /\ z.phase = e.phase /\ z.out = o
        /\ z.ever = e.ever /\ z.always = e.always /\ z.applied = A /\ z.edit = i
    BY <1>9, <1>10, <1>12, <2>1 DEF ExportRow
  <2>3. x = z
    BY <1>11, <2>1
  <2> QED BY <2>2, <2>3
<1>15. Written(x) = v
  <2>1. Written(x) = x.pos - Len(x.chunk) + x.cursor
    BY <1>14 DEF Written
  <2> QED BY <1>12, <1>14, <2>1
<1>16. InHand(f, x)
  <2>1. Len(x.chunk) = n /\ x.chunk # Null /\ x.pos = p
    BY <1>14
  <2>2. x.chunk = SubSeq(T, x.pos - Len(x.chunk) + 1, x.pos)
    BY <1>1, <1>14, <2>1 DEF b
  <2> QED BY <1>1, <1>12, <1>14, <2>1, <2>2 DEF InHand
<1>17. SplicedSoFar(f, x)
  BY <1>8, <1>13, <1>14, <1>15 DEF SplicedSoFar
<1> QED BY <1>14, <1>16, <1>17 DEF A

\* At the end of the text all of it was written, with the applied corrections in their places.
LEMMA EndsWhole ==
  ASSUME LargeFiles, NEW f \in File, NEW e \in ExportRow, InHand(f, e), SplicedSoFar(f, e), e.chunk = Null,
         e.applied \subseteq Corrections(f), e.pos = Len(Chars[f])
  PROVE  e.out \o e.carry = Corrected(f, e.applied) /\ e.out \o e.carry \in Seq(Letters)
<1> DEFINE w == Written(e)
           N == Len(Chars[f])
<1>1. w \in 0 .. N /\ w \in Nat /\ N \in Nat /\ e.carry = SubSeq(Chars[f], w + 1, N) /\ N \in w .. N /\ N \in 0 .. N
  <2>1. w \in 0 .. N /\ w \in Nat /\ N \in Nat /\ e.carry = SubSeq(Chars[f], w + 1, N)
    BY WrittenIs
  <2> HIDE DEF w, N
  <2>2. N \in w .. N /\ N \in 0 .. N
    BY ONLY <2>1
  <2> QED BY <2>1, <2>2
<1>2. e.out = Rewritten(f, e.applied)[w]
  BY DEF SplicedSoFar
<1>3. ASSUME NEW q \in w + 1 .. N PROVE Covering(f, e.applied, q) = {}
  <2>1. ASSUME NEW i \in e.applied PROVE ~(q < Items[f][i].at + Items[f][i].len)
    <3> DEFINE a == Items[f][i].at
               l == Items[f][i].len
    <3>1. a + l - 1 <= w /\ a \in Nat /\ l \in Nat
      BY CorrectionIs DEF SplicedSoFar
    <3> HIDE DEF a, l, w, N
    <3>2. ~(q < a + l)
      BY <1>1, <3>1
    <3> QED BY <3>2 DEF a, l
  <2> QED BY <2>1 DEF Covering
<1> HIDE DEF w
<1>4. Rewritten(f, e.applied)[N] = Rewritten(f, e.applied)[w] \o SubSeq(Chars[f], w + 1, N)
  BY <1>1, <1>3, PlainStretch
<1>5. Rewritten(f, e.applied)[N] \in Seq(Letters)
  BY <1>1, RewrittenText
<1> QED BY <1>1, <1>2, <1>4, <1>5 DEF Corrected

(* ---- what is approved while the export runs ---- *)

LEMMA SmallestOf == ASSUME NEW S \in SUBSET Nat, S # {} PROVE \E m \in S : \A k \in S : m <= k
<1> DEFINE R == OpToRel(<, Nat)
<1>1. IsWellFoundedOn(R, Nat)
  BY NatLessThanWellFounded
<1> HIDE DEF R
<1>2. PICK m \in S : \A k \in S : <<k, m>> \notin R
  BY <1>1, WFMin
<1>3. \A k \in S : k < m => <<k, m>> \in R
  BY DEF R, OpToRel
<1>4. \A k \in S : ~(k < m)
  BY <1>2, <1>3, Zenon
<1> QED BY <1>4

\* The edit looked up is the next approved one.
LEMMA NextEditIs ==
  ASSUME NEW j, NEW i \in Nat, Approved(scan[j].dec, scan[j].store) \in SUBSET (Nat \ {0})
  PROVE  /\ NextEdit(j, i) \in Nat
         /\ NextEdit(j, i) # 0 => NextEdit(j, i) \in Approved(scan[j].dec, scan[j].store)
         /\ \A k \in Approved(scan[j].dec, scan[j].store) : k > i => NextEdit(j, i) # 0 /\ NextEdit(j, i) <= k
<1> DEFINE A == Approved(scan[j].dec, scan[j].store)
           rest == {k \in A : k > i}
           m == CHOOSE k \in rest : \A l \in rest : k <= l
<1>1. NextEdit(j, i) = IF rest = {} THEN 0 ELSE m
  BY DEF NextEdit
<1>2. rest # {} => m \in rest /\ \A l \in rest : m <= l
  <2>1. rest \in SUBSET Nat
    OBVIOUS
  <2> HIDE DEF rest
  <2> QED BY <2>1, SmallestOf
<1>3. \A k \in rest : k \in A /\ k \in Nat \ {0}
  OBVIOUS
<1>4. \A k \in A : k > i => k \in rest
  OBVIOUS
<1> HIDE DEF rest, m, A
<1>5. CASE rest = {}
  BY <1>1, <1>4, <1>5 DEF A
<1>6. CASE rest # {}
  <2>1. NextEdit(j, i) = m /\ m \in rest /\ \A l \in rest : m <= l
    BY <1>1, <1>2, <1>6
  <2>2. NextEdit(j, i) \in A /\ NextEdit(j, i) \in Nat \ {0}
    BY <1>3, <2>1
  <2>3. \A k \in A : k > i => NextEdit(j, i) <= k
    BY <1>4, <2>1
  <2> QED BY <2>2, <2>3 DEF A
<1> QED BY <1>5, <1>6

\* Whatever is approved of a job that was read is a correction of its file.
LEMMA ApprovedAre ==
  ASSUME LargeFiles, NEW r \in GoodRow, ReadSoFar(r), r.result # "none",
         NEW dec \in Seq(Decisions), Len(dec) = Len(r.dec)
  PROVE  /\ r.file \in File
         /\ Approved(dec, r.store) \subseteq Corrections(r.file)
         /\ Approved(dec, r.store) \in SUBSET (Nat \ {0})
<1> DEFINE R == Items[r.file]
<1>1. r.file \in File /\ r.store \in Seq(Pieces) /\ r.at \in Nat \ {0} /\ Len(r.dec) <= Len(r.store) /\ Len(r.store) \in Nat
  BY LenProperties DEF GoodRow, JobRow, ReadSoFar
<1>2. R \in Seq(Pieces) /\ Len(R) \in Nat /\ DOMAIN R = 1 .. Len(R)
  BY <1>1, LenProperties DEF LargeFiles
<1>3. r.store = SubSeq(R, 1, r.at - 1) /\ r.at - 1 <= Len(R)
  <2>1. r.store \o <<>> = r.store
    BY <1>1, ConcatEmptySeq
  <2> QED BY <2>1 DEF ReadSoFar
<1>4. Len(r.store) = r.at - 1 /\ \A i \in 1 .. r.at - 1 : r.store[i] = R[i]
  <2>1. \A i \in 1 .. r.at - 1 : R[i] \in Pieces
    BY <1>1, <1>2, <1>3, ElementOfSeq
  <2>2. /\ Len(SubSeq(R, 1, r.at - 1)) = IF 1 <= r.at - 1 THEN r.at - 1 - 1 + 1 ELSE 0
        /\ \A i \in 1 .. r.at - 1 - 1 + 1 : SubSeq(R, 1, r.at - 1)[i] = R[1 + i - 1]
    <3>1. r.at - 1 \in Int /\ 1 \in Int
      BY <1>1
    <3> HIDE DEF R
    <3> QED BY <2>1, <3>1, SubSeqProperties
  <2>3. r.at - 1 - 1 + 1 = r.at - 1 /\ (~(1 <= r.at - 1) => r.at - 1 = 0) /\ \A i \in 1 .. r.at - 1 : 1 + i - 1 = i
    BY <1>1
  <2> HIDE DEF R
  <2> QED BY <1>3, <2>2, <2>3
<1>5. ASSUME NEW i \in Approved(dec, r.store) PROVE i \in Corrections(r.file) /\ i \in Nat \ {0}
  <2>1. i \in DOMAIN dec /\ r.store[i].kind = "corrected"
    BY DEF Approved
  <2>2. i \in 1 .. Len(dec) /\ Len(dec) \in Nat
    BY <2>1, LenProperties
  <2>3. i \in 1 .. r.at - 1 /\ i \in DOMAIN R
    BY <1>1, <1>2, <1>3, <1>4, <2>2
  <2>4. r.store[i] = R[i]
    BY <1>4, <2>3
  <2> QED BY <2>1, <2>2, <2>3, <2>4 DEF Corrections
<1> QED BY <1>1, <1>5

(* ---- the steps of the export, and those that leave it alone ---- *)

Underway(e) == e.phase \in {"splice", "exceptions"}

\* A row that says the same of an export.
SameFor(e, r, q) ==
  /\ q.file = r.file
  /\ e.phase = "splice" => /\ q.store = r.store /\ q.dec = r.dec /\ q.buffer = r.buffer /\ q.at = r.at
                           /\ q.result = r.result /\ q.pass \in {"ended", "answered"}

LEMMA SameForIsSound ==
  ASSUME NEW r, NEW q, NEW e, ExportIsSound(r, e), SameFor(e, r, q)
  PROVE  ExportIsSound(q, e)
<1>1. CASE e.phase = "splice"
  <2>1. ReadSoFar(q) /\ q.result # "none"
    BY <1>1 DEF ExportIsSound, SameFor, ReadSoFar
  <2>2. Chosen(q, e)
    BY <1>1 DEF ExportIsSound, SameFor, Chosen
  <2> QED BY <1>1, <2>1, <2>2 DEF ExportIsSound, SameFor
<1>2. CASE e.phase # "splice"
  BY <1>2 DEF ExportIsSound, SameFor
<1> QED BY <1>1, <1>2

\* Who splices has read the file to its end.
LEMMA SplicingHasRead ==
  ASSUME StoreInv, SpliceInv, NEW j \in Job, Underway(export[j])
  PROVE  /\ j <= jobs
         /\ Splicing(j) => scan[j].pass \in {"ended", "answered"} /\ ReadSoFar(scan[j]) /\ scan[j].result # "none"
<1>1. ExportIsSound(scan[j], export[j]) /\ j <= jobs
  BY DEF SpliceInv, Underway
<1> QED BY <1>1 DEF ExportIsSound, Splicing, ReadSoFar

LEMMA SoundExport == ASSUME SpliceInv, NEW j \in Job PROVE ExportIsSound(scan[j], export[j]) /\ export[j] \in ExportRow
BY DEF SpliceInv

LEMMA SpliceKept ==
  ASSUME StoreInv, SpliceInv, UNCHANGED export, jobs' \in Nat, jobs <= jobs',
         \A j \in Job : Underway(export[j]) => SameFor(export[j], scan[j], scan'[j])
  PROVE  SpliceInv'
<1>1. jobs \in Nat /\ \A j \in Job : j \in Nat
  BY StoreApart DEF CursTyped, Job
<1>2. ASSUME NEW j \in Job
      PROVE  /\ export'[j].phase \in {"splice", "exceptions"} => j <= jobs'
             /\ ExportIsSound(scan'[j], export'[j])
  <2>1. ExportIsSound(scan[j], export[j]) /\ (Underway(export[j]) => j <= jobs)
    BY SplicingHasRead, SoundExport
  <2>2. export'[j] = export[j]
    OBVIOUS
  <2>3. CASE Underway(export[j])
    <3>1. ExportIsSound(scan'[j], export[j])
      BY <2>1, <2>3, SameForIsSound
    <3>2. j <= jobs'
      BY <1>1, <2>1, <2>3
    <3> QED BY <2>2, <3>1, <3>2
  <2>4. CASE ~Underway(export[j])
    BY <2>2, <2>4 DEF Underway, ExportIsSound
  <2> QED BY <2>3, <2>4
<1>3. export' \in [Job -> ExportRow]
  BY DEF SpliceInv
<1> QED BY <1>2, <1>3 DEF SpliceInv

\* A step that rewrites one row and leaves the exports alone.
LEMMA SpliceRow ==
  ASSUME StoreInv, SpliceInv, UNCHANGED <<export, jobs>>, NEW j \in Job, NEW q, scan' = [scan EXCEPT ![j] = q],
         Underway(export[j]) => SameFor(export[j], scan[j], q)
  PROVE  SpliceInv'
<1>1. scan \in [Job -> GoodRow] /\ jobs \in Nat
  BY StoreApart DEF JobsTyped, CursTyped
<1>2. ASSUME NEW i \in Job, Underway(export[i]) PROVE SameFor(export[i], scan[i], scan'[i])
  <2>1. CASE i = j
    BY <1>1, <1>2, <2>1
  <2>2. CASE i # j
    <3>1. scan'[i] = scan[i]
      BY <1>1, <2>2
    <3> QED BY <1>2, <3>1, SplicingHasRead DEF SameFor, Splicing
  <2> QED BY <2>1, <2>2
<1> QED BY <1>1, <1>2, SpliceKept

LEMMA SpliceSame ==
  ASSUME StoreInv, SpliceInv, UNCHANGED <<scan, export, jobs>>
  PROVE  SpliceInv'
<1>1. jobs' \in Nat /\ jobs <= jobs'
  BY StoreApart DEF CursTyped
<1>2. \A j \in Job : Underway(export[j]) => SameFor(export[j], scan[j], scan'[j])
  BY SplicingHasRead DEF SameFor, Splicing
<1> QED BY <1>1, <1>2, SpliceKept

\* A new job takes a row that no export uses.
LEMMA SpliceInspect ==
  ASSUME StoreInv, SpliceInv, InspectLarge
  PROVE  SpliceInv'
<1>1. jobs \in Nat /\ scan \in [Job -> GoodRow] /\ \A j \in Job : j \in Nat
  BY StoreApart DEF CursTyped, JobsTyped, Job
<1>2. PICK q : scan' = [scan EXCEPT ![jobs + 1] = q] /\ jobs' = jobs + 1 /\ UNCHANGED export
  BY DEF InspectLarge
<1>3. ASSUME NEW j \in Job, Underway(export[j]) PROVE SameFor(export[j], scan[j], scan'[j])
  <2>1. j <= jobs
    BY <1>3, SplicingHasRead
  <2>2. j # jobs + 1
    BY <1>1, <2>1
  <2>3. scan'[j] = scan[j]
    BY <1>1, <1>2, <2>2
  <2> QED BY <1>3, <2>3, SplicingHasRead DEF SameFor, Splicing
<1>4. jobs' \in Nat /\ jobs <= jobs'
  BY <1>1, <1>2
<1> QED BY <1>2, <1>3, <1>4, SpliceKept

LEMMA SpliceCancel ==
  ASSUME StoreInv, SpliceInv, Cancel
  PROVE  SpliceInv'
<1> DEFINE q == [scan[cur] EXCEPT !.cancelled = TRUE]
<1>1. cur \in Job /\ scan' = [scan EXCEPT ![cur] = q] /\ UNCHANGED <<export, jobs>>
  BY StoreApart DEF Cancel, CursTyped, Job
<1>2. scan[cur] \in GoodRow
  BY <1>1, RowFacts
<1>3. /\ q.file = scan[cur].file /\ q.store = scan[cur].store /\ q.dec = scan[cur].dec /\ q.buffer = scan[cur].buffer
      /\ q.at = scan[cur].at /\ q.result = scan[cur].result /\ q.pass = scan[cur].pass
  BY <1>2 DEF GoodRow, JobRow
<1> HIDE DEF q
<1>4. Underway(export[cur]) => SameFor(export[cur], scan[cur], q)
  BY <1>1, <1>3, SplicingHasRead DEF SameFor, Splicing
<1> QED BY <1>1, <1>4, SpliceRow

\* Who is being asked for, opened or read, or has failed, does not splice.
LEMMA SpliceReading ==
  ASSUME StoreInv, SpliceInv, NEW j \in Job, scan[j].pass \notin {"ended", "answered"},
         UNCHANGED <<export, jobs>>, NEW q, scan' = [scan EXCEPT ![j] = q], q.file = scan[j].file
  PROVE  SpliceInv'
<1>1. Underway(export[j]) => SameFor(export[j], scan[j], q)
  BY SplicingHasRead DEF SameFor, Splicing
<1> QED BY <1>1, SpliceRow

LEMMA SplicePass ==
  ASSUME StoreInv, SpliceInv, NEW j \in Job,
         OpenStore(j) \/ ReadItem(j) \/ Restart(j) \/ EndPass(j) \/ FailPass(j) \/ AnswerInspect(j)
  PROVE  SpliceInv'
<1> DEFINE r == scan[j]
<1>1. r \in GoodRow
  BY RowFacts
<1>2. r \in JobRow
  BY <1>1 DEF GoodRow
<1>3. ASSUME NEW q \in {r, Flushed(r)} PROVE q.file = r.file
  BY <1>2, <1>3 DEF Flushed, JobRow
<1>4. CASE OpenStore(j)
  <2>1. scan' = [scan EXCEPT ![j] = [r EXCEPT !.pass = "reading"]] /\ r.pass = "opening" /\ UNCHANGED <<export, jobs>>
    BY <1>4 DEF OpenStore
  <2>2. [r EXCEPT !.pass = "reading"].file = r.file
    BY <1>2 DEF JobRow
  <2> QED BY <2>1, <2>2, SpliceReading
<1>5. CASE ReadItem(j)
  <2> DEFINE read == [r EXCEPT !.buffer = Append(@, RecordsOf(j)[scan[j].at]), !.at = @ + 1]
  <2>1. PICK q \in {read, Flushed(read)} : scan' = [scan EXCEPT ![j] = q]
    BY <1>5 DEF ReadItem
  <2>2. r.pass = "reading" /\ UNCHANGED <<export, jobs>>
    BY <1>5 DEF ReadItem
  <2>3. q.file = r.file
    <3>1. read.file = r.file /\ "file" \in DOMAIN read /\ [read EXCEPT !.file = read.file] = read
      BY <1>2 DEF JobRow
    <3>2. Flushed(read).file = read.file
      <4>1. PICK s, b, d : Flushed(read) = [read EXCEPT !.store = s, !.buffer = b, !.dec = d]
        BY DEF Flushed
      <4> QED BY <1>2, <4>1 DEF JobRow
    <3> QED BY <2>1, <3>1, <3>2
  <2> QED BY <2>1, <2>2, <2>3, SpliceReading
<1>6. CASE Restart(j)
  <2>1. scan' = [scan EXCEPT ![j] = [Reset(r) EXCEPT !.codec = "latin-1", !.at = 1, !.buffer = <<>>]]
        /\ r.pass = "reading" /\ UNCHANGED <<export, jobs>>
    BY <1>6 DEF Restart
  <2>2. [Reset(r) EXCEPT !.codec = "latin-1", !.at = 1, !.buffer = <<>>].file = r.file
    BY <1>2 DEF JobRow, Reset
  <2> QED BY <2>1, <2>2, SpliceReading
<1>7. CASE EndPass(j)
  <2>1. r.pass = "reading" /\ UNCHANGED <<export, jobs>>
    BY <1>7 DEF EndPass
  <2>2. PICK result : scan' = [scan EXCEPT ![j] = IF cur = j
                                 THEN [Flushed(r) EXCEPT !.pass = "ended", !.result = result, !.cancelled = FALSE]
                                 ELSE [r EXCEPT !.pass = "failed"]]
    BY <1>7 DEF EndPass
  <2>3. PICK s, b, d : Flushed(r) = [r EXCEPT !.store = s, !.buffer = b, !.dec = d]
    BY DEF Flushed
  <2>4. /\ [Flushed(r) EXCEPT !.pass = "ended", !.result = result, !.cancelled = FALSE].file = r.file
        /\ [r EXCEPT !.pass = "failed"].file = r.file
    BY <1>2, <2>3 DEF JobRow
  <2> QED BY <2>1, <2>2, <2>4, SpliceReading
<1>8. CASE FailPass(j)
  <2>1. scan' = [scan EXCEPT ![j] = [r EXCEPT !.pass = "failed"]] /\ r.pass = "opening" /\ UNCHANGED <<export, jobs>>
    BY <1>8 DEF FailPass
  <2>2. [r EXCEPT !.pass = "failed"].file = r.file
    BY <1>2 DEF JobRow
  <2> QED BY <2>1, <2>2, SpliceReading
<1>9. CASE AnswerInspect(j)
  <2>1. UNCHANGED <<export, jobs>>
    BY <1>9 DEF AnswerInspect
  <2>2. CASE r.pass = "failed"
    <3>1. scan' = [scan EXCEPT ![j] = [NoJob EXCEPT !.file = r.file, !.pass = "answered"]]
      BY <1>9, <2>2 DEF AnswerInspect
    <3>2. [NoJob EXCEPT !.file = r.file, !.pass = "answered"].file = r.file
      BY DEF NoJob
    <3> QED BY <2>1, <2>2, <3>1, <3>2, SpliceReading
  <2>3. CASE r.pass # "failed"
    <3> DEFINE q == [r EXCEPT !.pass = "answered"]
    <3>1. scan' = [scan EXCEPT ![j] = q]
      BY <1>9, <2>3 DEF AnswerInspect
    <3>2. /\ q.file = r.file /\ q.store = r.store /\ q.dec = r.dec /\ q.buffer = r.buffer
          /\ q.at = r.at /\ q.result = r.result /\ q.pass = "answered"
      BY <1>2 DEF JobRow
    <3> HIDE DEF q
    <3>3. SameFor(export[j], r, q)
      BY <3>2 DEF SameFor
    <3> QED BY <2>1, <3>1, <3>3, SpliceRow
  <2> QED BY <2>2, <2>3
<1> QED BY <1>4, <1>5, <1>6, <1>7, <1>8, <1>9

(* ---- what ends the export of the job that is closed ---- *)

LEMMA PhaseOnly ==
  ASSUME NEW p \in Phases
  PROVE  [NoExport EXCEPT !.phase = p] \in ExportRow /\ [NoExport EXCEPT !.phase = p].phase = p
<1>1. PICK y : y = <<>> /\ y \in Seq(Letters)
  BY NoText
<1>2. NoExport = [phase |-> "none", pos |-> 0, carry |-> y, chunk |-> Null, cursor |-> 0, edit |-> 0, out |-> y,
                  applied |-> {}, ever |-> {}, always |-> {}]
  BY <1>1 DEF NoExport
<1> QED BY <1>1, <1>2 DEF ExportRow, Phases

LEMMA SpliceClosed ==
  ASSUME StoreInv, SpliceInv, CloseExport, jobs' = jobs,
         \A j \in Job : j # cur /\ Underway(export[j]) => SameFor(export[j], scan[j], scan'[j])
  PROVE  SpliceInv'
<1>1. jobs' \in Nat /\ jobs <= jobs' /\ export \in [Job -> ExportRow] /\ (cur # 0 => cur \in Job)
  BY StoreApart DEF CursTyped, SpliceInv, Job
<1>2. CASE cur = 0
  <2>1. UNCHANGED export
    BY <1>2 DEF CloseExport
  <2>2. ASSUME NEW j \in Job, Underway(export[j]) PROVE SameFor(export[j], scan[j], scan'[j])
    <3>1. j # cur
      BY <1>2 DEF Job
    <3> QED BY <2>2, <3>1
  <2> QED BY <1>1, <2>1, <2>2, SpliceKept
<1>3. CASE cur # 0
  <2>1. PICK p \in Phases : export' = [export EXCEPT ![cur] = [NoExport EXCEPT !.phase = p]] /\ p \notin {"splice", "exceptions"}
    <3>1. CASE export[cur].phase \in {"splice", "exceptions", "ledger"}
      <4>1. PICK error \in {"failed", "cancelled"} : export' = [export EXCEPT ![cur] = [NoExport EXCEPT !.phase = error]]
        BY <1>3, <3>1 DEF CloseExport
      <4> QED BY <4>1 DEF Phases
    <3>2. CASE export[cur].phase \notin {"splice", "exceptions", "ledger"}
      <4>1. export' = [export EXCEPT ![cur] = [NoExport EXCEPT !.phase = export[cur].phase]]
        BY <1>3, <3>2 DEF CloseExport
      <4>2. export[cur].phase \in Phases
        BY <1>1, <1>3 DEF ExportRow, Phases
      <4> QED BY <3>2, <4>1, <4>2
    <3> QED BY <3>1, <3>2
  <2> DEFINE x == [NoExport EXCEPT !.phase = p]
  <2>2. x \in ExportRow /\ x.phase = p
    BY PhaseOnly
  <2>3. export' = [export EXCEPT ![cur] = x]
    BY <2>1
  <2> HIDE DEF x
  <2>4. export' \in [Job -> ExportRow]
    BY <1>1, <2>2, <2>3
  <2>5. ASSUME NEW j \in Job
        PROVE  /\ export'[j].phase \in {"splice", "exceptions"} => j <= jobs'
               /\ ExportIsSound(scan'[j], export'[j])
    <3>1. CASE j = cur
      <4>1. export'[j].phase \notin {"splice", "exceptions"}
        BY <1>1, <2>1, <2>2, <2>3, <3>1
      <4> QED BY <4>1 DEF ExportIsSound
    <3>2. CASE j # cur
      <4>1. export'[j] = export[j]
        BY <1>1, <2>3, <3>2
      <4>2. CASE Underway(export[j])
        <5>1. SameFor(export[j], scan[j], scan'[j]) /\ j <= jobs'
          BY <3>2, <4>2, SplicingHasRead
        <5>2. ExportIsSound(scan'[j], export[j])
          BY <5>1, SoundExport, SameForIsSound
        <5> QED BY <4>1, <5>1, <5>2
      <4>3. CASE ~Underway(export[j])
        BY <4>1, <4>3 DEF Underway, ExportIsSound
      <4> QED BY <4>2, <4>3
    <3> QED BY <3>1, <3>2
  <2> QED BY <2>4, <2>5 DEF SpliceInv
<1> QED BY <1>2, <1>3

LEMMA OnlyCurrentCloses == ASSUME StoreInv, NEW j \in Job, j # cur PROVE ClosedJobs[j] = scan[j]
BY StoreApart DEF ClosedJobs, JobsTyped

LEMMA SpliceDiscard ==
  ASSUME StoreInv, SpliceInv, Discard
  PROVE  SpliceInv'
<1>1. scan' = ClosedJobs /\ CloseExport /\ jobs' = jobs
  BY DEF Discard
<1>2. ASSUME NEW j \in Job, j # cur, Underway(export[j]) PROVE SameFor(export[j], scan[j], scan'[j])
  <2>1. scan'[j] = scan[j]
    BY <1>1, <1>2, OnlyCurrentCloses
  <2> QED BY <1>2, <2>1, SplicingHasRead DEF SameFor, Splicing
<1> QED BY <1>1, <1>2, SpliceClosed

LEMMA SpliceBeginInspect ==
  ASSUME StoreInv, LargeFiles, SpliceInv, NEW j \in Job, BeginInspect(j)
  PROVE  SpliceInv'
<1>1. scan[j].pass = "asked" /\ CloseExport /\ jobs' = jobs
  BY DEF BeginInspect
<1>2. scan' = [ClosedJobs EXCEPT ![j].pass = "opening"]
  BY DEF BeginInspect
<1>3. ClosedJobs \in [Job -> GoodRow] /\ ClosedJobs[j] = scan[j] /\ scan[j] \in JobRow
  BY <1>1, ClosedIsGood, RowFacts DEF GoodRow
<1>4. ASSUME NEW i \in Job, i # cur, Underway(export[i]) PROVE SameFor(export[i], scan[i], scan'[i])
  <2>1. CASE i = j
    <3>1. scan'[j].file = scan[j].file
      BY <1>2, <1>3 DEF JobRow
    <3>2. ~Splicing(j)
      BY <1>1, <1>4, <2>1, SplicingHasRead
    <3> QED BY <2>1, <3>1, <3>2 DEF SameFor, Splicing
  <2>2. CASE i # j
    <3>1. scan'[i] = scan[i]
      BY <1>2, <1>3, <1>4, <2>2, OnlyCurrentCloses
    <3> QED BY <1>4, <3>1, SplicingHasRead DEF SameFor, Splicing
  <2> QED BY <2>1, <2>2
<1> QED BY <1>1, <1>4, SpliceClosed

(* ---- what is decided while an export runs ---- *)

\* A step that changes one export, and the decisions of its job at most.
LEMMA SpliceOne ==
  ASSUME StoreInv, SpliceInv, NEW j \in Job, j <= jobs, jobs' = jobs, NEW x \in ExportRow,
         export' = [export EXCEPT ![j] = x], \A i \in Job : i # j => scan'[i] = scan[i],
         ExportIsSound(scan'[j], x)
  PROVE  SpliceInv'
<1>1. export \in [Job -> ExportRow]
  BY DEF SpliceInv
<1>2. export' \in [Job -> ExportRow] /\ export'[j] = x /\ \A i \in Job : i # j => export'[i] = export[i]
  BY <1>1
<1>3. ASSUME NEW i \in Job
      PROVE  /\ export'[i].phase \in {"splice", "exceptions"} => i <= jobs'
             /\ ExportIsSound(scan'[i], export'[i])
  <2>1. CASE i = j
    BY <1>2, <2>1
  <2>2. CASE i # j
    <3>1. export'[i] = export[i] /\ scan'[i] = scan[i] /\ jobs' = jobs
      BY <1>2, <2>2
    <3>2. ExportIsSound(scan[i], export[i])
      BY SoundExport
    <3>3. Underway(export[i]) => i <= jobs
      BY SplicingHasRead
    <3> QED BY <3>1, <3>2, <3>3 DEF Underway
  <2> QED BY <2>1, <2>2
<1> QED BY <1>2, <1>3 DEF SpliceInv

LEMMA SpliceDecided ==
  ASSUME StoreInv, LargeFiles, SpliceInv, Ready, UNCHANGED jobs, NEW ids, NEW d \in Decisions,
         scan' = [scan EXCEPT ![cur].dec = SetDecisions(cur, ids, d)],
         export' = Witnessed(cur, SetDecisions(cur, ids, d))
  PROVE  SpliceInv'
<1> DEFINE o == scan[cur]
           dec == SetDecisions(cur, ids, d)
           q == [o EXCEPT !.dec = dec]
           e == export[cur]
           now == Approved(dec, o.store)
           x == [e EXCEPT !.ever = IF e.phase = "splice" THEN @ \cup now ELSE @,
                          !.always = IF e.phase = "splice" THEN @ \cap now ELSE @]
<1>1. cur \in Job /\ cur <= jobs /\ o.result # "none"
  BY StoreApart DEF CursTyped, Job, Ready
<1>2. o \in GoodRow /\ ReadSoFar(o)
  BY <1>1, RowFacts
<1>3. dec \in Seq(Decisions) /\ Len(dec) = Len(o.dec)
  <2>1. o.dec \in Seq(Decisions)
    BY <1>2 DEF GoodRow, JobRow
  <2>2. Len(o.dec) \in Nat /\ DOMAIN o.dec = 1 .. Len(o.dec) /\ \A i \in 1 .. Len(o.dec) : o.dec[i] \in Decisions
    BY <2>1, LenProperties, ElementOfSeq
  <2>3. dec \in [1 .. Len(o.dec) -> Decisions]
    BY <2>2 DEF SetDecisions
  <2> QED BY <2>2, <2>3, FunctionIsSequence
<1>4. now \subseteq Corrections(o.file) /\ now \in SUBSET (Nat \ {0})
  <2> HIDE DEF dec
  <2> QED BY <1>1, <1>2, <1>3, ApprovedAre
<1>5. scan' = [scan EXCEPT ![cur] = q] /\ scan \in [Job -> GoodRow]
  BY StoreApart DEF JobsTyped
<1>6. e \in ExportRow /\ export \in [Job -> ExportRow] /\ ExportIsSound(o, e)
  BY <1>1, SoundExport DEF SpliceInv
<1>7. export' = [export EXCEPT ![cur] = x]
  <2>1. export' = Witnessed(cur, dec)
    OBVIOUS
  <2>2. DOMAIN export = Job /\ cur \in Job
    BY <1>1, <1>6
  <2> HIDE DEF dec
  <2> QED BY <2>1, <2>2 DEF Witnessed
<1>8. /\ q.file = o.file /\ q.store = o.store /\ q.dec = dec /\ q.buffer = o.buffer /\ q.at = o.at
      /\ q.result = o.result /\ q.pass = o.pass
  <2> HIDE DEF dec
  <2> QED BY <1>2 DEF GoodRow, JobRow
<1>9. scan'[cur] = q /\ \A i \in Job : i # cur => scan'[i] = scan[i]
  <2> HIDE DEF q
  <2> QED BY <1>1, <1>5
<1> HIDE DEF dec, q, now
<1>10. CASE e.phase = "splice"
  <2>1. x = [e EXCEPT !.ever = e.ever \cup now, !.always = e.always \cap now]
    BY <1>10
  <2>2. /\ x \in ExportRow /\ x.phase = "splice" /\ x.ever = e.ever \cup now /\ x.always = e.always \cap now
        /\ x.pos = e.pos /\ x.carry = e.carry /\ x.chunk = e.chunk /\ x.cursor = e.cursor /\ x.edit = e.edit
        /\ x.out = e.out /\ x.applied = e.applied
    BY <1>4, <1>6, <1>10, <2>1 DEF ExportRow
  <2> HIDE DEF x
  <2>3. InHand(o.file, e) /\ SplicedSoFar(o.file, e) /\ Chosen(o, e)
    BY <1>6, <1>10 DEF ExportIsSound
  <2>4. InHand(q.file, x)
    BY <1>8, <2>2, <2>3 DEF InHand
  <2>5. SplicedSoFar(q.file, x)
    BY <1>8, <2>2, <2>3 DEF SplicedSoFar, Written
  <2>6. Chosen(q, x)
    <3>1. Approved(q.dec, q.store) = now
      BY <1>8 DEF now
    <3>2. x.ever \subseteq Corrections(q.file) /\ x.applied \subseteq x.ever /\ (x.edit # 0 => x.edit \in x.ever)
      <4>1. e.ever \subseteq Corrections(o.file) /\ e.applied \subseteq e.ever /\ (e.edit # 0 => e.edit \in e.ever)
        BY <2>3 DEF Chosen
      <4>2. x.ever \subseteq Corrections(q.file)
        BY <1>4, <1>8, <2>2, <4>1
      <4>3. x.applied \subseteq x.ever
        BY <2>2, <4>1
      <4>4. x.edit # 0 => x.edit \in x.ever
        BY <2>2, <4>1
      <4> QED BY <4>2, <4>3, <4>4
    <3>3. x.always \subseteq now /\ now \subseteq x.ever
      BY <2>2
    <3>4. \A i \in x.always : i \in x.applied \/ (x.edit # 0 /\ x.edit <= i)
      BY <2>2, <2>3 DEF Chosen
    <3> QED BY <3>1, <3>2, <3>3, <3>4 DEF Chosen
  <2>7. ReadSoFar(q) /\ q.result # "none"
    BY <1>1, <1>2, <1>8 DEF ReadSoFar
  <2>8. ExportIsSound(q, x)
    BY <2>2, <2>4, <2>5, <2>6, <2>7 DEF ExportIsSound
  <2> QED BY <1>1, <1>7, <1>9, <2>2, <2>8, SpliceOne
<1>11. CASE e.phase # "splice"
  <2>1. x = e
    BY <1>6, <1>11 DEF ExportRow
  <2>2. ExportIsSound(q, e)
    BY <1>6, <1>8, <1>11 DEF ExportIsSound
  <2> HIDE DEF x
  <2>3. export' = [export EXCEPT ![cur] = e] /\ ExportIsSound(scan'[cur], e)
    BY <1>7, <1>9, <2>1, <2>2
  <2> HIDE DEF e
  <2> QED BY <1>1, <1>6, <1>9, <2>3, SpliceOne
<1> QED BY <1>10, <1>11

LEMMA SpliceReview ==
  ASSUME StoreInv, LargeFiles, SpliceInv, Review
  PROVE  SpliceInv'
<1>1. ASSUME NEW filter, NEW n, NEW d \in Verdicts, DecideRows(filter, n, d) PROVE SpliceInv'
  <2>1. Ready /\ UNCHANGED jobs /\ d \in Decisions
    BY <1>1 DEF DecideRows, LargeFiles
  <2>2. /\ scan' = [scan EXCEPT ![cur].dec = SetDecisions(cur, Decidable(cur, filter), d)]
        /\ export' = Witnessed(cur, SetDecisions(cur, Decidable(cur, filter), d))
    BY <1>1 DEF DecideRows
  <2> QED BY <2>1, <2>2, SpliceDecided
<1>2. ASSUME NEW filter, Undo(filter) PROVE SpliceInv'
  <2>1. Ready /\ UNCHANGED jobs /\ "proposed" \in Decisions
    BY <1>2 DEF Undo, Decisions
  <2>2. PICK ids : /\ scan' = [scan EXCEPT ![cur].dec = SetDecisions(cur, ids, "proposed")]
                   /\ export' = Witnessed(cur, SetDecisions(cur, ids, "proposed"))
    BY <1>2 DEF Undo
  <2> QED BY <2>1, <2>2, SpliceDecided
<1> QED BY <1>1, <1>2 DEF Review

\* An export begins with nothing read and nothing written.
Fresh(n, A) == [NoExport EXCEPT !.phase = "splice", !.edit = n, !.ever = A, !.always = A]

LEMMA FreshExport ==
  ASSUME NEW n \in Nat, NEW A \in SUBSET Nat
  PROVE  /\ Fresh(n, A) \in ExportRow /\ Fresh(n, A).phase = "splice" /\ Fresh(n, A).pos = 0
         /\ Fresh(n, A).chunk = Null /\ Fresh(n, A).edit = n /\ Fresh(n, A).carry = <<>> /\ Fresh(n, A).out = <<>>
         /\ Fresh(n, A).applied = {} /\ Fresh(n, A).ever = A /\ Fresh(n, A).always = A
<1> DEFINE x == Fresh(n, A)
<1>1. PICK y : y = <<>> /\ y \in Seq(Letters)
  BY NoText
<1>2. NoExport = [phase |-> "none", pos |-> 0, carry |-> y, chunk |-> Null, cursor |-> 0, edit |-> 0, out |-> y,
                  applied |-> {}, ever |-> {}, always |-> {}]
  BY <1>1 DEF NoExport
<1>3. /\ x \in ExportRow /\ x.phase = "splice" /\ x.pos = 0 /\ x.chunk = Null /\ x.edit = n
      /\ x.carry = y /\ x.out = y /\ x.applied = {} /\ x.ever = A /\ x.always = A
  BY <1>1, <1>2 DEF ExportRow, Fresh
<1> QED BY <1>1, <1>3

LEMMA SpliceBuild ==
  ASSUME StoreInv, LargeFiles, SpliceInv, BuildExport
  PROVE  SpliceInv'
<1>1. CASE ~Ready
  <2>1. UNCHANGED <<scan, export, jobs>>
    BY <1>1 DEF BuildExport
  <2> QED BY <2>1, SpliceSame
<1>2. CASE Ready
  <2> DEFINE o == scan[cur]
             q == [o EXCEPT !.cancelled = FALSE]
             now == Approved(o.dec, o.store)
             n == NextEdit(cur, 0)
             x == Fresh(n, now)
  <2>1. cur \in Job /\ cur <= jobs /\ o.result # "none"
    BY <1>2, StoreApart DEF CursTyped, Job, Ready
  <2>2. o \in GoodRow /\ ReadSoFar(o)
    BY <2>1, RowFacts
  <2>3. o.file \in File /\ now \subseteq Corrections(o.file) /\ now \in SUBSET (Nat \ {0})
    <3>1. o.dec \in Seq(Decisions)
      BY <2>2 DEF GoodRow, JobRow
    <3> QED BY <2>1, <2>2, <3>1, ApprovedAre
  <2>4. scan' = [scan EXCEPT ![cur] = q] /\ export' = [export EXCEPT ![cur] = x] /\ jobs' = jobs
    BY <1>2 DEF BuildExport, Fresh
  <2>5. /\ q.file = o.file /\ q.store = o.store /\ q.dec = o.dec /\ q.buffer = o.buffer /\ q.at = o.at
        /\ q.result = o.result /\ q.pass = o.pass
    BY <2>2 DEF GoodRow, JobRow
  <2>6. n \in Nat /\ (n # 0 => n \in now) /\ \A k \in now : n # 0 /\ n <= k
    <3>1. /\ NextEdit(cur, 0) \in Nat
          /\ NextEdit(cur, 0) # 0 => NextEdit(cur, 0) \in now
          /\ \A k \in now : k > 0 => NextEdit(cur, 0) # 0 /\ NextEdit(cur, 0) <= k
      BY <2>3, NextEditIs
    <3>2. \A k \in now : k > 0
      BY <2>3
    <3> QED BY <3>1, <3>2
  <2>8. scan'[cur] = q /\ \A i \in Job : i # cur => scan'[i] = scan[i]
    <3>1. scan \in [Job -> GoodRow]
      BY StoreApart DEF JobsTyped
    <3> HIDE DEF q
    <3> QED BY <2>1, <2>4, <3>1
  <2>9. Approved(q.dec, q.store) = now
    BY <2>5
  <2> HIDE DEF n, now, q
  <2>7. /\ x \in ExportRow /\ x.phase = "splice" /\ x.pos = 0 /\ x.chunk = Null /\ x.edit = n
        /\ x.carry = <<>> /\ x.out = <<>> /\ x.applied = {} /\ x.ever = now /\ x.always = now
    BY <2>3, <2>6, FreshExport
  <2>10. x.chunk = Null /\ x.pos = 0 /\ Len(x.carry) = 0
    BY <2>7, NoText
  <2> HIDE DEF x
  <2>12. InHand(q.file, x)
    <3>1. SubSeq(Chars[o.file], 0 - 0 + 1, 0) = <<>> /\ Len(Chars[o.file]) \in Nat
      BY <2>3, SubSeqEmpty, TextIs
    <3> QED BY <2>5, <2>7, <2>10, <3>1 DEF InHand
  <2>13. SplicedSoFar(q.file, x)
    <3>1. Written(x) = 0
      BY <2>10 DEF Written
    <3>2. Rewritten(o.file, {})[0] = <<>>
      BY <2>3, RewrittenIs
    <3> QED BY <2>5, <2>7, <3>1, <3>2 DEF SplicedSoFar
  <2>14. Chosen(q, x)
    BY <2>3, <2>5, <2>6, <2>7, <2>9 DEF Chosen
  <2>15. ReadSoFar(q) /\ q.result # "none"
    BY <2>1, <2>2, <2>5 DEF ReadSoFar
  <2>16. ExportIsSound(q, x)
    BY <2>7, <2>12, <2>13, <2>14, <2>15 DEF ExportIsSound
  <2> QED BY <2>1, <2>4, <2>7, <2>8, <2>16, SpliceOne
<1> QED BY <1>1, <1>2

(* ---- the export itself ---- *)

\* What is known of an export that splices.
LEMMA SplicingIs ==
  ASSUME StoreInv, SpliceInv, LargeFiles, NEW j \in Job, Splicing(j)
  PROVE  /\ scan[j].file \in File /\ export[j] \in ExportRow /\ export \in [Job -> ExportRow]
         /\ ReadSoFar(scan[j]) /\ scan[j].result # "none"
         /\ InHand(scan[j].file, export[j]) /\ SplicedSoFar(scan[j].file, export[j]) /\ Chosen(scan[j], export[j])
         /\ export[j].applied \subseteq Corrections(scan[j].file) /\ export[j].edit \in Nat
         /\ export[j].edit # 0 => export[j].edit \in Corrections(scan[j].file)
<1>1. export[j] \in ExportRow /\ ExportIsSound(scan[j], export[j])
  BY SoundExport
<1>2. /\ ReadSoFar(scan[j]) /\ scan[j].result # "none"
      /\ InHand(scan[j].file, export[j]) /\ SplicedSoFar(scan[j].file, export[j]) /\ Chosen(scan[j], export[j])
  BY <1>1 DEF ExportIsSound, Splicing
<1>3. scan[j].file \in File
  <2>1. scan[j] \in GoodRow
    BY RowFacts
  <2> QED BY <1>2, <2>1 DEF GoodRow, ReadSoFar
<1>4. export[j].edit \in Nat /\ export \in [Job -> ExportRow]
  BY <1>1 DEF ExportRow, SpliceInv
<1>5. export[j].applied \subseteq Corrections(scan[j].file) /\ (export[j].edit # 0 => export[j].edit \in Corrections(scan[j].file))
  BY <1>2 DEF Chosen
<1> QED BY <1>1, <1>2, <1>3, <1>4, <1>5

\* A step of the splice that goes on with what was chosen.
LEMMA StillSound ==
  ASSUME NEW r, NEW e, NEW x, ReadSoFar(r), r.result # "none", InHand(r.file, x), SplicedSoFar(r.file, x), Chosen(r, e),
         x.ever = e.ever, x.always = e.always, x.applied = e.applied, x.edit = e.edit, x.phase = e.phase,
         e.phase = "splice"
  PROVE  ExportIsSound(r, x)
<1>1. Chosen(r, x)
  BY DEF Chosen
<1> QED BY <1>1 DEF ExportIsSound

\* An export that ends, and so is held to nothing.
LEMMA EndedExport ==
  ASSUME StoreInv, SpliceInv, NEW j \in Job, j <= jobs, UNCHANGED <<scan, jobs>>,
         NEW x \in ExportRow, x.phase \notin {"splice", "exceptions"}, export' = [export EXCEPT ![j] = x]
  PROVE  SpliceInv'
<1>1. ExportIsSound(scan'[j], x) /\ \A i \in Job : i # j => scan'[i] = scan[i]
  BY DEF ExportIsSound
<1> QED BY <1>1, SpliceOne

LEMMA SpliceNextChunk ==
  ASSUME StoreInv, SpliceInv, LargeFiles, NEW j \in Job, j <= jobs, NEW k \in Nat, NextChunk(j, k)
  PROVE  SpliceInv'
<1> DEFINE e == export[j]
           r == scan[j]
<1>1. Splicing(j) /\ e.chunk = Null /\ e.pos + k <= Len(Chars[r.file]) /\ UNCHANGED <<scan, jobs>>
  BY DEF NextChunk
<1>2. /\ r.file \in File /\ e \in ExportRow /\ export \in [Job -> ExportRow] /\ ReadSoFar(r) /\ r.result # "none"
      /\ InHand(r.file, e) /\ SplicedSoFar(r.file, e) /\ Chosen(r, e) /\ e.phase = "splice"
  BY <1>1, SplicingIs DEF Splicing
<1>3. CASE r.cancelled
  <2> DEFINE x == [e EXCEPT !.phase = "cancelled"]
  <2>1. export' = [export EXCEPT ![j] = x]
    BY <1>3 DEF NextChunk
  <2>2. x \in ExportRow /\ x.phase = "cancelled"
    BY <1>2 DEF ExportRow
  <2> QED BY <1>1, <2>1, <2>2, EndedExport
<1>4. CASE ~r.cancelled
  <2> DEFINE c == e.carry \o SubSeq(Chars[r.file], e.pos + 1, e.pos + k)
  <2>1. PICK x : x = ReadTo(r.file, e, k) /\ x = [e EXCEPT !.chunk = c, !.carry = <<>>, !.cursor = 0, !.pos = e.pos + k]
    BY DEF ReadTo
  <2>2. export' = [export EXCEPT ![j] = x]
    <3>1. export' = [export EXCEPT ![j].chunk = c, ![j].carry = <<>>, ![j].cursor = 0, ![j].pos = e.pos + k]
      BY <1>4 DEF NextChunk
    <3>2. DOMAIN export = Job
      BY <1>2
    <3> HIDE DEF c
    <3> QED BY <2>1, <3>1, <3>2
  <2>3. /\ x \in ExportRow /\ InHand(r.file, x) /\ SplicedSoFar(r.file, x)
        /\ x.ever = e.ever /\ x.always = e.always /\ x.applied = e.applied /\ x.edit = e.edit /\ x.phase = e.phase
    <3> DEFINE f == r.file
    <3>1. f \in File /\ e \in ExportRow /\ InHand(f, e) /\ SplicedSoFar(f, e) /\ e.chunk = Null
          /\ e.pos + k <= Len(Chars[f]) /\ x = ReadTo(f, e, k)
      BY <1>1, <1>2, <2>1
    <3> HIDE DEF f, e
    <3>2. /\ x \in ExportRow /\ InHand(f, x) /\ SplicedSoFar(f, x)
          /\ x.ever = e.ever /\ x.always = e.always /\ x.applied = e.applied /\ x.edit = e.edit /\ x.phase = e.phase
      BY <3>1, ReadsOn
    <3> QED BY <3>2 DEF f
  <2> HIDE DEF e, r
  <2>4. ExportIsSound(r, x)
    BY <1>2, <2>3, StillSound
  <2>5. ExportIsSound(scan'[j], x) /\ \A i \in Job : i # j => scan'[i] = scan[i]
    BY <1>1, <2>4 DEF r
  <2> QED BY <1>1, <2>2, <2>3, <2>5, SpliceOne
<1> QED BY <1>3, <1>4

LEMMA SpliceEndChunk ==
  ASSUME StoreInv, SpliceInv, LargeFiles, NEW j \in Job, j <= jobs, EndChunk(j)
  PROVE  SpliceInv'
<1> DEFINE e == export[j]
           r == scan[j]
           keep == IF InChunk(j) THEN Starts(j) ELSE Len(e.chunk)
<1>1. Splicing(j) /\ e.chunk # Null /\ ~Due(j) /\ UNCHANGED <<scan, jobs>>
  BY DEF EndChunk
<1>2. /\ r.file \in File /\ e \in ExportRow /\ export \in [Job -> ExportRow] /\ ReadSoFar(r) /\ r.result # "none"
      /\ InHand(r.file, e) /\ SplicedSoFar(r.file, e) /\ Chosen(r, e) /\ e.phase = "splice"
      /\ e.applied \subseteq Corrections(r.file) /\ (e.edit # 0 => e.edit \in Corrections(r.file))
  BY <1>1, SplicingIs DEF Splicing
<1>3. e.cursor \in Nat /\ e.cursor <= Len(e.chunk) /\ Len(e.chunk) \in Nat /\ e.pos \in Nat
  BY <1>1, <1>2, WrittenIs
<1>4. keep \in Nat /\ e.cursor <= keep /\ keep <= Len(e.chunk)
  <2>1. CASE InChunk(j)
    <3>1. ~(Starts(j) < e.cursor) /\ Starts(j) < Len(e.chunk)
      BY <1>1, <2>1 DEF Due, InChunk, Overlaps
    <3>2. Starts(j) \in Int
      <4>1. Starts(j) = Items[r.file][e.edit].at - 1 - (e.pos - Len(e.chunk)) /\ e.edit # 0
        BY <2>1 DEF Starts, RecordsOf, InChunk
      <4>2. Items[r.file][e.edit].at \in Nat
        BY <1>2, <4>1, CorrectionIs
      <4> DEFINE a == Items[r.file][e.edit].at
                 n == Len(e.chunk)
                 p == e.pos
      <4>3. Starts(j) = a - 1 - (p - n) /\ a \in Nat /\ n \in Nat /\ p \in Nat
        BY <1>3, <4>1, <4>2
      <4> HIDE DEF a, n, p
      <4> QED BY <4>3
    <3> DEFINE s == Starts(j)
               n == Len(e.chunk)
               k == e.cursor
    <3>3. ~(s < k) /\ s < n /\ s \in Int /\ k \in Nat /\ n \in Nat /\ keep = s
      BY <1>3, <2>1, <3>1, <3>2
    <3> HIDE DEF s, n, k, keep
    <3>4. keep \in Nat /\ k <= keep /\ keep <= n
      BY <3>3
    <3> QED BY <3>4 DEF n, k
  <2>2. CASE ~InChunk(j)
    BY <1>3, <2>2
  <2> QED BY <2>1, <2>2
<1>5. PICK x : x = WrittenTo(e, keep)
  OBVIOUS
<1>6. export' = [export EXCEPT ![j] = x]
  BY <1>5 DEF EndChunk, WrittenTo
<1> HIDE DEF e, r, keep
<1>7. /\ x \in ExportRow /\ InHand(r.file, x) /\ SplicedSoFar(r.file, x)
      /\ x.ever = e.ever /\ x.always = e.always /\ x.applied = e.applied /\ x.edit = e.edit /\ x.phase = e.phase
  BY <1>1, <1>2, <1>4, <1>5, WritesOn
<1>8. ExportIsSound(r, x)
  BY <1>2, <1>7, StillSound
<1>9. ExportIsSound(scan'[j], x) /\ \A i \in Job : i # j => scan'[i] = scan[i]
  BY <1>1, <1>8 DEF r
<1> QED BY <1>1, <1>6, <1>7, <1>9, SpliceOne

\* After a splice the corrections approved throughout are applied or still to come.
LEMMA SplicedIsChosen ==
  ASSUME StoreInv, SpliceInv, LargeFiles, NEW j \in Job, Splicing(j), export[j].edit # 0,
         NEW x, x.ever = export[j].ever, x.always = export[j].always,
         x.applied = export[j].applied \cup {export[j].edit}, x.edit = NextEdit(j, export[j].edit)
  PROVE  NextEdit(j, export[j].edit) \in Nat /\ Chosen(scan[j], x)
<1> DEFINE e == export[j]
           r == scan[j]
           A == Approved(r.dec, r.store)
           n == NextEdit(j, e.edit)
<1>1. r \in GoodRow /\ ReadSoFar(r) /\ r.result # "none" /\ Chosen(r, e) /\ e.edit \in Nat
  BY RowFacts, SplicingIs
<1>2. A \in SUBSET (Nat \ {0})
  <2>1. r.dec \in Seq(Decisions)
    BY <1>1 DEF GoodRow, JobRow
  <2> QED BY <1>1, <2>1, ApprovedAre
<1>3. n \in Nat /\ (n # 0 => n \in A) /\ \A k \in A : k > e.edit => n # 0 /\ n <= k
  BY <1>1, <1>2, NextEditIs
<1>4. /\ e.ever \subseteq Corrections(r.file) /\ e.applied \subseteq e.ever /\ e.edit \in e.ever
      /\ e.always \subseteq A /\ A \subseteq e.ever
      /\ \A i \in e.always : i \in e.applied \/ e.edit <= i
  BY <1>1 DEF Chosen
<1>5. /\ x.ever = e.ever /\ x.always = e.always /\ x.applied = e.applied \cup {e.edit} /\ x.edit = n
  OBVIOUS
<1> HIDE DEF n, A, e, r
<1>6. \A i \in x.always : i \in x.applied \/ (x.edit # 0 /\ x.edit <= i)
  <2> SUFFICES ASSUME NEW i \in e.always, i \notin e.applied, i # e.edit PROVE n # 0 /\ n <= i
    BY <1>5
  <2>1. i \in A /\ e.edit <= i /\ i \in Nat
    BY <1>2, <1>4
  <2>2. i > e.edit
    BY <1>1, <2>1
  <2> QED BY <1>3, <2>1, <2>2
<1>7. x.ever \subseteq Corrections(r.file) /\ x.applied \subseteq x.ever
  BY <1>4, <1>5
<1>8. x.edit # 0 => x.edit \in x.ever
  BY <1>3, <1>4, <1>5
<1>9. x.always \subseteq A /\ A \subseteq x.ever
  BY <1>4, <1>5
<1>10. Chosen(r, x)
  BY <1>6, <1>7, <1>8, <1>9 DEF Chosen, A
<1> QED BY <1>3, <1>10 DEF n, e, r

LEMMA SpliceSplice ==
  ASSUME StoreInv, SpliceInv, LargeFiles, NEW j \in Job, j <= jobs, Splice(j)
  PROVE  SpliceInv'
<1> DEFINE e == export[j]
           r == scan[j]
           s == Starts(j)
           i == NextEdit(j, e.edit)
           q == Items[r.file][e.edit]
<1>1. Splicing(j) /\ e.chunk # Null /\ Due(j) /\ UNCHANGED <<scan, jobs>>
  BY DEF Splice
<1>2. e.edit # 0 /\ s = q.at - 1 - (e.pos - Len(e.chunk)) /\ RecordsOf(j)[e.edit] = q
  BY <1>1 DEF Due, InChunk, Starts, RecordsOf
<1>3. /\ r.file \in File /\ e \in ExportRow /\ ReadSoFar(r) /\ r.result # "none"
      /\ InHand(r.file, e) /\ SplicedSoFar(r.file, e) /\ e.phase = "splice"
      /\ e.applied \subseteq Corrections(r.file) /\ e.edit \in Corrections(r.file)
  BY <1>1, <1>2, SplicingIs DEF Splicing
<1>4. CASE Overlaps(j) \/ SubSeq(e.chunk, s + 1, s + q.len) # Raw(j, q)
  <2> DEFINE x == [e EXCEPT !.phase = "failed"]
  <2>1. export' = [export EXCEPT ![j] = x]
    BY <1>2, <1>4 DEF Splice
  <2>2. x \in ExportRow /\ x.phase = "failed"
    BY <1>3 DEF ExportRow
  <2> QED BY <1>1, <2>1, <2>2, EndedExport
<1>5. CASE ~(Overlaps(j) \/ SubSeq(e.chunk, s + 1, s + q.len) # Raw(j, q))
  <2>1. PICK x : x = SplicedIn(e, q, s, i)
    OBVIOUS
  <2>2. export' = [export EXCEPT ![j] = x]
    BY <1>2, <1>5, <2>1 DEF Splice, SplicedIn
  <2>3. e.cursor <= s /\ s + q.len <= Len(e.chunk)
    <3>1. ~(s < e.cursor) /\ s + q.len <= Len(e.chunk)
      BY <1>1, <1>2, <1>5 DEF Due, Overlaps, WholeIn
    <3>2. e.cursor \in Nat /\ Len(e.chunk) \in Nat /\ e.pos \in Nat
      BY <1>1, <1>3, WrittenIs
    <3>3. q.at \in Nat
      BY <1>3, CorrectionIs
    <3> DEFINE k == e.cursor
               n == Len(e.chunk)
               a == q.at
               p == e.pos
    <3>4. ~(s < k) /\ s = a - 1 - (p - n) /\ k \in Nat /\ n \in Nat /\ p \in Nat /\ a \in Nat
      BY <1>2, <3>1, <3>2, <3>3
    <3> HIDE DEF k, n, a, p, s
    <3>5. k <= s
      BY <3>4
    <3> QED BY <3>1, <3>5 DEF k, s
  <2>4. i \in Nat
    <3>1. PICK y : y = [ever |-> e.ever, always |-> e.always, applied |-> e.applied \cup {e.edit}, edit |-> i]
      OBVIOUS
    <3>2. y.ever = e.ever /\ y.always = e.always /\ y.applied = e.applied \cup {e.edit} /\ y.edit = i
      BY <3>1
    <3> QED BY <1>1, <1>2, <3>2, SplicedIsChosen
  <2>5. /\ x \in ExportRow /\ InHand(r.file, x) /\ SplicedSoFar(r.file, x)
        /\ x.ever = e.ever /\ x.always = e.always /\ x.applied = e.applied \cup {e.edit} /\ x.edit = i
        /\ x.phase = e.phase
    <3> DEFINE f == r.file
    <3> HIDE DEF e, s, i, f, r
    <3>1. f \in File /\ q = Items[f][e.edit]
      BY <1>3 DEF f
    <3>h. /\ e \in ExportRow /\ InHand(f, e) /\ SplicedSoFar(f, e) /\ e.chunk # Null
          /\ e.applied \subseteq Corrections(f) /\ e.edit \in Corrections(f) /\ e.phase = "splice"
      BY <1>1, <1>3 DEF f
    <3>i. /\ s = Items[f][e.edit].at - 1 - (e.pos - Len(e.chunk)) /\ e.cursor <= s /\ s + Items[f][e.edit].len <= Len(e.chunk)
          /\ x = SplicedIn(e, Items[f][e.edit], s, i)
      BY <1>2, <2>1, <2>3, <3>1
    <3> HIDE DEF q
    <3>2. /\ x \in ExportRow /\ InHand(f, x) /\ SplicedSoFar(f, x)
          /\ x.ever = e.ever /\ x.always = e.always /\ x.applied = e.applied \cup {e.edit} /\ x.edit = i
          /\ x.phase = e.phase
      BY ONLY LargeFiles, <3>1, <3>h, <3>i, <2>4, SplicesOn
    <3> QED BY <3>2 DEF f
  <2>6. Chosen(r, x)
    BY <1>1, <1>2, <2>5, SplicedIsChosen
  <2>7. ExportIsSound(r, x)
    <3> HIDE DEF e, s, i, q, r
    <3> QED BY <1>3, <2>5, <2>6 DEF ExportIsSound
  <2>8. ExportIsSound(scan'[j], x) /\ \A l \in Job : l # j => scan'[l] = scan[l]
    BY <1>1, <2>7
  <2> HIDE DEF e, s, i, q, r
  <2> QED BY <1>1, <2>2, <2>5, <2>8, SpliceOne
<1> QED BY <1>4, <1>5

LEMMA SpliceEndText ==
  ASSUME StoreInv, SpliceInv, LargeFiles, NEW j \in Job, j <= jobs, EndText(j)
  PROVE  SpliceInv'
<1> DEFINE e == export[j]
           r == scan[j]
           o == e.out \o e.carry
           p == IF e.edit = 0 THEN "exceptions" ELSE "failed"
<1>1. Splicing(j) /\ e.chunk = Null /\ e.pos = Len(Chars[r.file]) /\ UNCHANGED <<scan, jobs>>
  BY DEF EndText
<1>2. /\ r.file \in File /\ e \in ExportRow /\ export \in [Job -> ExportRow]
      /\ InHand(r.file, e) /\ SplicedSoFar(r.file, e) /\ Chosen(r, e)
      /\ e.applied \subseteq Corrections(r.file)
  BY <1>1, SplicingIs
<1>3. o = Corrected(r.file, e.applied) /\ o \in Seq(Letters)
  BY <1>1, <1>2, EndsWhole
<1>4. PICK y : y = <<>> /\ y \in Seq(Letters)
  BY NoText
<1>5. PICK x : x = [e EXCEPT !.out = o, !.carry = y, !.phase = p]
  OBVIOUS
<1>6. export' = [export EXCEPT ![j] = x]
  <2>1. export' = [export EXCEPT ![j].out = o, ![j].carry = y, ![j].phase = p]
    BY <1>4 DEF EndText
  <2>2. DOMAIN export = Job
    BY <1>2
  <2> HIDE DEF o, p
  <2> QED BY <1>5, <2>1, <2>2
<1> HIDE DEF o
<1>7. /\ x \in ExportRow /\ x.out = o /\ x.phase = p /\ x.always = e.always /\ x.applied = e.applied /\ x.ever = e.ever
  BY <1>2, <1>3, <1>4, <1>5 DEF ExportRow
<1>8. ExportIsSound(r, x)
  <2>1. CASE e.edit = 0
    <3>1. e.always \subseteq e.applied /\ e.applied \subseteq e.ever
      BY <1>2, <2>1 DEF Chosen
    <3> QED BY <1>3, <1>7, <2>1, <3>1 DEF ExportIsSound
  <2>2. CASE e.edit # 0
    BY <1>7, <2>2 DEF ExportIsSound
  <2> QED BY <2>1, <2>2
<1>9. ExportIsSound(scan'[j], x) /\ \A i \in Job : i # j => scan'[i] = scan[i]
  BY <1>1, <1>8
<1> HIDE DEF e, r, p
<1> QED BY <1>1, <1>6, <1>7, <1>9, SpliceOne

LEMMA SpliceExport ==
  ASSUME StoreInv, SpliceInv, LargeFiles, NEW j \in Job, j <= jobs, Export(j)
  PROVE  SpliceInv'
<1>1. CASE \E k \in 1 .. Len(Chars[scan[j].file]) : NextChunk(j, k)
  <2>1. PICK k \in 1 .. Len(Chars[scan[j].file]) : NextChunk(j, k)
    BY <1>1
  <2>2. k \in Nat
    OBVIOUS
  <2> QED BY <2>1, <2>2, SpliceNextChunk
<1>2. CASE Splice(j) \/ EndChunk(j) \/ EndText(j)
  BY <1>2, SpliceSplice, SpliceEndChunk, SpliceEndText
<1>3. CASE WriteExceptions(j) \/ WriteLedger(j) \/ AnswerExport(j)
  <2>1. PICK p \in {"ledger", "done", "answered"} : export' = [export EXCEPT ![j] = [NoExport EXCEPT !.phase = p]]
    BY <1>3 DEF WriteExceptions, WriteLedger, AnswerExport
  <2>2. UNCHANGED <<scan, jobs>>
    BY <1>3 DEF WriteExceptions, WriteLedger, AnswerExport
  <2> DEFINE x == [NoExport EXCEPT !.phase = p]
  <2>3. x \in ExportRow /\ x.phase = p /\ export' = [export EXCEPT ![j] = x]
    <3>1. p \in Phases
      BY DEF Phases
    <3> QED BY <2>1, <3>1, PhaseOnly
  <2> HIDE DEF x
  <2>4. x.phase \notin {"splice", "exceptions"}
    BY <2>3
  <2> QED BY <2>2, <2>3, <2>4, EndedExport
<1> QED BY <1>1, <1>2, <1>3 DEF Export

LEMMA SplicingStep ==
  ASSUME LargeFiles, StoreInv, SpliceInv, [LargeNext]_largeVars
  PROVE  SpliceInv'
<1>1. \A j \in 1 .. jobs : j \in Job /\ j <= jobs
  BY StoreApart DEF CursTyped, Job, LargeFiles
<1>2. CASE \E f \in File : ChooseFile(f)
  <2>1. UNCHANGED <<scan, export, jobs>>
    BY <1>2 DEF ChooseFile
  <2> QED BY <2>1, SpliceSame
<1>3. CASE InspectLarge \/ Cancel \/ Discard \/ Review \/ BuildExport
  BY <1>3, SpliceInspect, SpliceCancel, SpliceDiscard, SpliceReview, SpliceBuild
<1>4. ASSUME NEW j \in 1 .. jobs, Pass(j) PROVE SpliceInv'
  BY <1>1, <1>4, SpliceBeginInspect, SplicePass DEF Pass
<1>5. ASSUME NEW j \in 1 .. jobs, Export(j) PROVE SpliceInv'
  BY <1>1, <1>5, SpliceExport
<1>6. CASE UNCHANGED largeVars
  BY <1>6, SpliceSame DEF largeVars
<1> QED BY <1>2, <1>3, <1>4, <1>5, <1>6 DEF LargeNext

LEMMA SpliceStarts == ASSUME LargeFiles, LargeInit PROVE SpliceInv
<1>1. "none" \in Phases
  BY DEF Phases
<1>2. [NoExport EXCEPT !.phase = "none"] \in ExportRow
  BY <1>1, PhaseOnly
<1>3. NoExport = [NoExport EXCEPT !.phase = "none"] /\ NoExport.phase = "none"
  <2>1. PICK y : y = <<>>
    OBVIOUS
  <2>2. NoExport = [phase |-> "none", pos |-> 0, carry |-> y, chunk |-> Null, cursor |-> 0, edit |-> 0, out |-> y,
                    applied |-> {}, ever |-> {}, always |-> {}]
    BY <2>1 DEF NoExport
  <2> QED BY <2>2
<1>4. export = [j \in Job |-> NoExport]
  BY DEF LargeInit
<1>5. NoExport \in ExportRow
  BY <1>2, <1>3
<1> QED BY <1>3, <1>4, <1>5 DEF SpliceInv, ExportIsSound

\* However the text of a large file is cut into chunks, and whatever is decided, cancelled or
\* closed while it is read again: what the export has written when it ends is the file with the
\* corrections it applied in their places, and those are all that were approved throughout and
\* none that never was.
THEOREM ExportWritesTheFile ==
  ASSUME LargeFiles
  PROVE  LargeSpec => []ExportIsSplice
<1>1. LargeInit => StoreInv /\ SpliceInv
  BY StoreStarts, SpliceStarts
<1>2. StoreInv /\ SpliceInv /\ [LargeNext]_largeVars => (StoreInv /\ SpliceInv)'
  BY StoreStep, SplicingStep
<1>3. StoreInv /\ SpliceInv => ExportIsSplice
  BY SoundExport DEF ExportIsSound, ExportIsSplice
<1> QED BY <1>1, <1>2, <1>3, PTL DEF LargeSpec
=============================================================================
