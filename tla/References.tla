------------------------------ MODULE References ------------------------------
(***************************************************************************)
(* An enrichment request of a workspace (references.py): questions to a    *)
(* paid provider about the identifiers of a job, authorized once and asked *)
(* within a budget.                                                        *)
(*                                                                         *)
(* Nothing keeps two administrators from running one request at the same   *)
(* time, and a run may die; each step is one transaction, one read or one  *)
(* question.  The identifiers of the job are read in the middle of a run,  *)
(* while the job may still be read or re-analysed: they are any set.       *)
(***************************************************************************)
EXTENDS Naturals, Sequences, FiniteSets

CONSTANTS
  Runner,     \* the calls of run_request
  Ident,      \* identifiers, as their places in the alphabet
  Budget,     \* max_requests
  Tolerated,  \* the errors that end a run (5)
  MaxRuns     \* bound on the runs

\* create_request refuses a budget without a positive number of requests.
RequestBounds == Ident \subseteq Nat /\ Budget \in Nat \ {0} /\ Tolerated \in Nat \ {0}

VARIABLES
  row,    \* enrichment_requests: the request
  kept,   \* enrichment_results: the identifiers with a result
  run,    \* where each runner stands
  log,    \* what the provider was asked, in order, and whether there was a result before
  alone,  \* no run has died and no two have overlapped so far
  runs    \* runs so far

refVars == <<row, kept, run, log, alone, runs>>

Status  == {"planned", "running", "paused", "completed", "failed"}
Ended   == {"completed", "failed"}
Steps   == {"idle", "begun", "ask", "keep", "failed"}
AtRest  == [step |-> "idle", used |-> 0, made |-> 0, seen |-> {}, unread |-> {}, left |-> {},
            now |-> {}, errors |-> {}]

RequestTypeOK ==
  /\ row \in [authorized : BOOLEAN, status : Status, made : Nat, seen : SUBSET Ident, errors : SUBSET Ident]
  /\ kept \subseteq Ident
  /\ run \in [Runner -> [step : Steps, used : Nat, made : Nat, seen : SUBSET Ident, unread : SUBSET Ident,
                         left : SUBSET Ident, now : SUBSET Ident, errors : SUBSET Ident]]
  /\ log \in Seq([of : Ident, known : BOOLEAN])
  /\ alone \in BOOLEAN /\ runs \in Nat

\* As create_request leaves it.
RequestInit ==
  /\ row = [authorized |-> FALSE, status |-> "planned", made |-> 0, seen |-> {}, errors |-> {}]
  /\ kept = {} /\ run = [c \in Runner |-> AtRest] /\ log = <<>>
  /\ alone = TRUE /\ runs = 0

\* An administrator approves of the terms and the spending, before or after anything else.
AuthorizeRequest ==
  /\ row' = [row EXCEPT !.authorized = TRUE]
  /\ UNCHANGED <<kept, run, log, alone, runs>>

(* ---- one run (run_request) ---- *)

Busy(c) == run[c].step # "idle"

Moves(c, r) == run' = [run EXCEPT ![c] = r]

\* The row is read once; a run of a request without authorization, or one that has ended, is none.
BeginRun(c) ==
  /\ ~Busy(c) /\ runs < MaxRuns
  /\ row.authorized /\ row.status \notin Ended
  /\ Moves(c, [AtRest EXCEPT !.step = "begun", !.used = row.made])
  /\ alone' = (alone /\ \A d \in Runner : ~Busy(d))
  /\ runs' = runs + 1
  /\ UNCHANGED <<row, kept, log>>

\* No credentials in the environment: the reason takes the place of all results.
NotConfigured(c) ==
  /\ run[c].step = "begun"
  /\ row' = [row EXCEPT !.status = "failed", !.made = 0, !.seen = {}, !.errors = {}]
  /\ Moves(c, AtRest)
  /\ UNCHANGED <<kept, log, alone, runs>>

StartRun(c, ids) ==
  /\ run[c].step = "begun"
  /\ row' = [row EXCEPT !.status = "running"]
  /\ Moves(c, [run[c] EXCEPT !.step = "ask", !.seen = ids, !.unread = ids])
  /\ UNCHANGED <<kept, log, alone, runs>>

\* Identifiers are taken in order.
IsFirst(i, ids) == \A j \in ids : i <= j

\* One identifier after the other is looked up among the results.
ReadPending(c) ==
  /\ run[c].step = "ask" /\ run[c].unread # {}
  /\ \E i \in run[c].unread :
       /\ IsFirst(i, run[c].unread)
       /\ Moves(c, [run[c] EXCEPT !.unread = @ \ {i}, !.left = IF i \in kept THEN @ ELSE @ \cup {i}])
  /\ UNCHANGED <<row, kept, log, alone, runs>>

\* Mutant of Spent: what earlier runs asked is not counted.
SpentNow(c) == run[c].made >= Budget

Spent(c) == run[c].used + run[c].made >= Budget

Asking(c) == run[c].step = "ask" /\ run[c].unread = {}

Asked(i) == log' = Append(log, [of |-> i, known |-> i \in kept])

\* The provider answers, with little or much.
Answered(c) ==
  /\ Asking(c) /\ ~Spent(c)
  /\ \E i \in run[c].left :
       /\ IsFirst(i, run[c].left)
       /\ Asked(i)
       /\ Moves(c, [run[c] EXCEPT !.step = "keep", !.made = @ + 1, !.left = @ \ {i}, !.now = {i}])
  /\ UNCHANGED <<row, kept, alone, runs>>

TooMany(errors) == Cardinality(errors) >= Tolerated

\* It fails: the question counts, and too many failures end the request.
Refused(c) ==
  /\ Asking(c) /\ ~Spent(c)
  /\ \E i \in run[c].left :
       /\ IsFirst(i, run[c].left)
       /\ Asked(i)
       /\ Moves(c, [run[c] EXCEPT !.made = @ + 1, !.left = @ \ {i}, !.errors = @ \cup {i},
                                  !.step = IF TooMany(run[c].errors \cup {i}) THEN "failed" ELSE @])
  /\ UNCHANGED <<row, kept, alone, runs>>

KeepResult(c) ==
  /\ run[c].step = "keep"
  /\ kept' = kept \cup run[c].now
  /\ Moves(c, [run[c] EXCEPT !.step = "ask", !.now = {}])
  /\ UNCHANGED <<row, log, alone, runs>>

Ends(c, status) ==
  \/ status = "failed" /\ run[c].step = "failed"
  \/ status = "completed" /\ Asking(c) /\ run[c].left = {}
  \/ status = "paused" /\ Asking(c) /\ run[c].left # {} /\ Spent(c)

\* Only now the questions of this run are written down.
FinishRun(c, status) ==
  /\ Ends(c, status)
  /\ row' = [row EXCEPT !.status = status, !.made = run[c].used + run[c].made, !.seen = run[c].seen,
                        !.errors = run[c].errors]
  /\ Moves(c, AtRest)
  /\ UNCHANGED <<kept, log, alone, runs>>

RunDies(c) ==
  /\ Busy(c)
  /\ Moves(c, AtRest)
  /\ alone' = FALSE
  /\ UNCHANGED <<row, kept, log, runs>>

RequestNext ==
  \/ AuthorizeRequest
  \/ \E c \in Runner :
       \/ BeginRun(c) \/ NotConfigured(c) \/ (\E ids \in SUBSET Ident : StartRun(c, ids)) \/ ReadPending(c)
       \/ Answered(c) \/ Refused(c) \/ KeepResult(c)
       \/ (\E status \in Status : FinishRun(c, status)) \/ RunDies(c)

RequestSpec == RequestInit /\ [][RequestNext]_refVars

(* ---- properties ---- *)

\* "A provider is called only for an authorized request within its budget" (CAPABILITIES.md),
\* over all runs of a request, and is not asked again what it has answered: as long as runs
\* neither overlap nor die, for what a run asks is written down when it ends.
BudgetIsKept ==
  /\ log # <<>> => row.authorized
  /\ alone => /\ Len(log) <= Budget
              /\ \A n \in DOMAIN log : ~log[n].known

\* A request that is completed has a result, or an error it names, for every identifier that it
\* reports as its own, whoever else ran it meanwhile.
CompletedIsAnswered ==
  row.status = "completed" => row.seen \subseteq kept \cup row.errors

RequestIsHonest == RequestTypeOK /\ BudgetIsKept /\ CompletedIsAnswered

(* ---- why (PublicProofs) ---- *)

\* What a run has read it has asked, has a result for or will ask; only a run between an answer
\* and its transaction holds a result; and a run is one of an authorized request.
RunIsWhole(c) ==
  /\ Busy(c) => row.authorized
  /\ run[c].step # "keep" => run[c].now = {}
  /\ run[c].step \in {"ask", "keep"} =>
       run[c].seen \subseteq kept \cup run[c].errors \cup run[c].unread \cup run[c].left \cup run[c].now

\* The one run there is knows all that was ever asked, and what is left to ask has no result;
\* between runs the row knows it, or the request has failed for good.
Solo ==
  alone =>
    /\ \A c, d \in Runner : Busy(c) /\ Busy(d) => c = d
    /\ \A c \in Runner : Busy(c) =>
         /\ Len(log) = run[c].used + run[c].made
         /\ run[c].left \cap (kept \cup run[c].now) = {}
    /\ (\A c \in Runner : ~Busy(c)) => row.status = "failed" \/ Len(log) = row.made

RequestInv == RequestIsHonest /\ (\A c \in Runner : RunIsWhole(c)) /\ Solo

=============================================================================
