------------------------------- MODULE Review -------------------------------
(***************************************************************************)
(* Proposals, decisions and re-analysis of one job (workspace/review.py).  *)
(*                                                                         *)
(* Every observation with a candidate is a proposal.  A decision freezes   *)
(* the ordinals and versions its filter matched; a re-analysis rewrites    *)
(* the observations batch by batch, while other requests go on.  A client  *)
(* is one request at a time with a connection of its own; each statement   *)
(* outside a transaction and each transaction is one step.                 *)
(***************************************************************************)
EXTENDS Naturals, FiniteSets

CONSTANTS
  Client,       \* connections that carry one request at a time
  Reviewer,     \* those that ask for decisions
  Analyst,      \* those that ask for a re-analysis
  Ordinal,      \* the observations of the job, in file order
  Cand,         \* candidates the kernel may propose
  None,         \* NULL
  Analysis,     \* what the kernel makes of the file under some policy
  First,        \* what it made of it in the job
  NApprovals,   \* approvals in the model
  NAnalyses,    \* analysis versions in the model
  Op,           \* operation ids clients may give
  Decisions     \* decisions they may take

ASSUME ReviewAssumption ==
  /\ Reviewer \subseteq Client /\ Analyst \subseteq Client
  /\ Ordinal \subseteq Nat
  /\ None \notin Cand
  /\ Analysis \subseteq [Ordinal -> Cand \cup {None}]
  /\ First \in [Ordinal -> Cand \cup {None}]
  /\ NApprovals \in Nat
  /\ NAnalyses \in Nat \ {0}
  /\ None \notin Op
  /\ Decisions \subseteq {"approved", "rejected", "deferred"}

VARIABLES
  job,        \* jobs.state
  analysis,   \* jobs.analysis_version
  obs,        \* observations: candidate, decision and version
  cs,         \* change_sets: the first fingerprint of each analysis version
  apr,        \* approvals, each with its selection_members
  pc,         \* where each client stands
  loc         \* what it remembers

reviewVars == <<job, analysis, obs, cs, apr>>
clientVars == <<pc, loc>>

Approval == 1 .. NApprovals
Version  == 1 .. NAnalyses
Proposals == [Ordinal -> Cand \cup {None}]    \* what a fingerprint digests
ObsRow == [cand : Cand \cup {None}, decision : Decisions \cup {"proposed"},
           version : Nat \ {0}]

\* members maps the selected ordinals to their versions.  shown and era are
\* no columns: they record the candidates and the analysis version at the
\* moment of the decision.
AprRow(a) == /\ a.state \in {"none", "recorded", "stale"}
             /\ a.decision \in Decisions \cup {None}
             /\ a.fp \in Proposals \cup {None}
             /\ a.op \in Op \cup {None}
             /\ DOMAIN a.members \subseteq Ordinal
             /\ \A o \in DOMAIN a.members : a.members[o] \in Nat
             /\ a.shown \in Proposals \cup {None}
             /\ a.era \in 0 .. NAnalyses

NoApproval == [state |-> "none", decision |-> None, fp |-> None, op |-> None,
               members |-> <<>>, shown |-> None, era |-> 0]
Blank == [request |-> "none"]

Init ==
  /\ job = "awaiting_review"
  /\ analysis = 1
  /\ obs = [o \in Ordinal |-> [cand |-> First[o], decision |-> "proposed", version |-> 1]]
  /\ cs = [v \in Version |-> None]
  /\ apr = [a \in Approval |-> NoApproval]
  /\ pc = [c \in Client |-> "idle"]
  /\ loc = [c \in Client |-> Blank]

Goto(c, place, l) ==
  /\ pc' = [pc EXCEPT ![c] = place]
  /\ loc' = [loc EXCEPT ![c] = IF place = "idle" THEN Blank ELSE l]

\* A request that fails outside a transaction, is refused, or whose process
\* dies: what it committed so far stays.
GiveUp(c) ==
  /\ loc[c].request \in {"decide", "reanalyze"}
  /\ Goto(c, "idle", Blank)
  /\ UNCHANGED reviewVars

-----------------------------------------------------------------------------
(* ensure_change_set: four reads and writes of their own.  The table does  *)
(* not forbid a second row for a version; a SELECT returns the first.      *)

Fingerprint == [o \in Ordinal |-> obs[o].cand]

ReadVersion(c) ==
  /\ pc[c] = "version"
  /\ Goto(c, "lookup", [loc[c] EXCEPT !.ver = analysis])
  /\ UNCHANGED reviewVars

FindChangeSet(c) ==
  /\ pc[c] = "lookup"
  /\ IF cs[loc[c].ver] = None
     THEN Goto(c, "fingerprint", loc[c])
     ELSE Goto(c, loc[c].next, [loc[c] EXCEPT !.fp = cs[loc[c].ver], !.ver = 0])
  /\ UNCHANGED reviewVars

TakeFingerprint(c) ==
  /\ pc[c] = "fingerprint"
  /\ Goto(c, "insert", [loc[c] EXCEPT !.fp = Fingerprint])
  /\ UNCHANGED reviewVars

InsertChangeSet(c) ==
  /\ pc[c] = "insert"
  /\ cs' = [cs EXCEPT ![loc[c].ver] = IF @ = None THEN loc[c].fp ELSE @]
  /\ Goto(c, loc[c].next, [loc[c] EXCEPT !.ver = 0])
  /\ UNCHANGED <<job, analysis, obs, apr>>

EnsureChangeSet(c) ==
  ReadVersion(c) \/ FindChangeSet(c) \/ TakeFingerprint(c) \/ InsertChangeSet(c)

-----------------------------------------------------------------------------
(* decide.                                                                 *)

Taken(op) == op # None /\ \E a \in Approval : apr[a].op = op

\* A known operation id is answered from its approval and changes nothing.
BeginDecide(c, op) ==
  /\ c \in Reviewer
  /\ pc[c] = "idle"
  /\ ~Taken(op)
  /\ Goto(c, "version", [request |-> "decide", op |-> op, ver |-> 0, fp |-> None,
                         next |-> "decide"])
  /\ UNCHANGED reviewVars

\* Undecided and deferred proposals, or those in the one state that was named.
Populations == {{"proposed", "deferred"}, {"approved"}, {"rejected"}}

Selection(filter, population) ==
  {o \in filter : obs[o].cand # None /\ obs[o].decision \in population}

\* Mutant of Bumped: the decision leaves the version alone.
BumpedNot(selected, d) ==
  [o \in Ordinal |-> IF o \in selected THEN [obs[o] EXCEPT !.decision = d] ELSE obs[o]]

\* The observations after a decision.
Bumped(selected, d) ==
  [o \in Ordinal |-> IF o \in selected
                     THEN [obs[o] EXCEPT !.decision = d, !.version = @ + 1]
                     ELSE obs[o]]

\* One transaction: an empty selection or an operation id taken meanwhile
\* (a unique index) rolls it back.
Decide(c, filter, population, d) ==
  /\ pc[c] = "decide"
  /\ ~Taken(loc[c].op)
  /\ LET selected == Selection(filter, population) IN
       /\ selected # {}
       /\ \E a \in Approval :
            /\ apr[a].state = "none"
            /\ \A b \in Approval : b < a => apr[b].state # "none"
            /\ apr' = [apr EXCEPT ![a] =
                 [state |-> "recorded", decision |-> d, fp |-> loc[c].fp, op |-> loc[c].op,
                  members |-> [o \in selected |-> obs[o].version + 1],
                  shown |-> Fingerprint, era |-> analysis]]
       /\ obs' = Bumped(selected, d)
  /\ Goto(c, "idle", Blank)
  /\ UNCHANGED <<job, analysis, cs>>

-----------------------------------------------------------------------------
(* reanalyze.  Its last transaction and finish_job concern the generation  *)
(* and are in module Workspace.                                            *)

BeginReanalysis(c, result) ==
  /\ c \in Analyst
  /\ pc[c] = "idle"
  /\ job \in {"awaiting_review", "completed"}
  /\ Goto(c, "stale", [request |-> "reanalyze", result |-> result, at |-> None, seen |-> <<>>,
                       since |-> 0, ver |-> 0, fp |-> None, next |-> "idle"])
  /\ UNCHANGED reviewVars

MarkStale(c) ==
  /\ pc[c] = "stale"
  /\ apr' = [a \in Approval |-> IF apr[a].state = "recorded"
                                THEN [apr[a] EXCEPT !.state = "stale"] ELSE apr[a]]
  /\ Goto(c, "bump", loc[c])
  /\ UNCHANGED <<job, analysis, obs, cs>>

\* analysis_version counts up; the model stops at NAnalyses.
BumpAnalysis(c) ==
  /\ pc[c] = "bump"
  /\ analysis < NAnalyses
  /\ analysis' = analysis + 1
  /\ Goto(c, "read", [loc[c] EXCEPT !.since = analysis + 1])
  /\ UNCHANGED <<job, obs, cs, apr>>

Rest(c) == {o \in Ordinal : loc[c].at = None \/ o > loc[c].at}

\* The SELECT of the next batch, which is one observation here.
ReadBatch(c) ==
  /\ pc[c] = "read"
  /\ IF Rest(c) = {}
     THEN Goto(c, "version", loc[c])
     ELSE LET o == CHOOSE o \in Rest(c) : \A p \in Rest(c) : o <= p
          IN  Goto(c, "write", [loc[c] EXCEPT !.at = o, !.seen = obs[o]])
  /\ UNCHANGED reviewVars

\* Mutant of Rewritten: an unchanged candidate keeps its decision.
RewrittenIfChanged(seen, cand) == cand # seen.cand

\* Whether a row is rewritten, judged by the row as it was read.
Rewritten(seen, cand) ==
  cand # seen.cand \/ (cand # None /\ seen.decision # "proposed")

\* The UPDATE of the batch looks at nothing but the ordinal.
WriteBatch(c) ==
  /\ pc[c] = "write"
  /\ LET o == loc[c].at
         cand == loc[c].result[o]
     IN  obs' = IF Rewritten(loc[c].seen, cand)
                THEN [obs EXCEPT ![o] = [cand |-> cand, decision |-> "proposed",
                                         version |-> @.version + 1]]
                ELSE obs
  /\ Goto(c, "read", [loc[c] EXCEPT !.seen = <<>>])
  /\ UNCHANGED <<job, analysis, cs, apr>>

-----------------------------------------------------------------------------
Request(c) ==
  \/ GiveUp(c)
  \/ EnsureChangeSet(c)
  \/ \E op \in Op \cup {None} : BeginDecide(c, op)
  \/ \E filter \in SUBSET Ordinal, population \in Populations, d \in Decisions :
       Decide(c, filter, population, d)
  \/ \E result \in Analysis : BeginReanalysis(c, result)
  \/ MarkStale(c) \/ BumpAnalysis(c) \/ ReadBatch(c) \/ WriteBatch(c)

-----------------------------------------------------------------------------
\* A decision in force is the one of the approval that holds the version of
\* the row, and was taken on the candidate the row still has; a version is
\* held by one approval at most.
DecisionIsRecorded ==
  \A o \in Ordinal :
    /\ \A a \in Approval : o \in DOMAIN apr[a].members => apr[a].members[o] <= obs[o].version
    /\ \A a, b \in Approval :
         /\ o \in DOMAIN apr[a].members \cap DOMAIN apr[b].members
         /\ apr[a].members[o] = apr[b].members[o]
         => a = b
    /\ obs[o].decision # "proposed" =>
         \E a \in Approval : /\ o \in DOMAIN apr[a].members
                             /\ apr[a].members[o] = obs[o].version
                             /\ apr[a].decision = obs[o].decision
                             /\ apr[a].shown[o] = obs[o].cand

\* review.py: re-analysis "resets decisions to proposed".  What it has passed
\* carries no decision from before it began.
ResetsDecisions ==
  \A c \in Client, o \in Ordinal, a \in Approval :
    /\ loc[c].request = "reanalyze" /\ loc[c].since > 0
    /\ pc[c] # "write" => loc[c].at # None /\ o <= loc[c].at
    /\ pc[c] = "write" => o < loc[c].at
    /\ o \in DOMAIN apr[a].members /\ apr[a].members[o] = obs[o].version
    /\ obs[o].decision # "proposed"
    => apr[a].era >= loc[c].since
=============================================================================
