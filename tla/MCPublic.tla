------------------------------ MODULE MCPublic -------------------------------
(* Small instances of the public service for TLC: in the browser the page  *)
(* of small files (FilesPage) and the job on a large one (LargeJob), on    *)
(* the server batches (Batch) and the tables of containers (Warehouse).    *)
(* They share no state: a behavior is one of one of them.                  *)
EXTENDS FilesPage, LargeJob, References, Batch, Warehouse, TLC

CONSTANTS big, old, a, b, auto, trusted, p1, p2,
          c1, c2, e1, e2, lea, boxtech, maersk, sizetype, place, k1, k2

(* ---- the large job ---- *)

\* A file without a record; one with two corrections, the second of two characters, that is
\* not UTF-8, which shows after the first.
TextOf == big :> <<"a">> @@ old :> <<"d", "e", "f">>

Rec(at, len, cand) == [at |-> at, len |-> len, kind |-> "corrected", cand |-> cand]

ItemsOf == big :> <<>> @@ old :> <<Rec(1, 1, <<"D">>), Rec(2, 2, <<"E">>)>>

BadIn == big :> Null @@ old :> 1

ASSUME LargeFilesAssumption == LargeFiles

(* ---- the file page ---- *)

\* Two files that agree on their first value and differ in the second.
PageText == a :> <<"x", "y">> @@ b :> <<"x", "z">>

Change(before, after, at) == [old |-> before, new |-> after, at |-> at]

\* The names of the proposals mean other changes in another file or under another intent.
FoundIn ==
  a :> (auto :> (p1 :> Change("y", "Y", {2}))
        @@ trusted :> (p1 :> Change("x", "X", {1}) @@ p2 :> Change("y", None, {2})))
  @@ b :> (auto :> (p1 :> Change("x", "X", {1}) @@ p2 :> Change("z", "Z", {2}))
           @@ trusted :> None)

(* ---- the tables ---- *)

Tally(e, role, n) == [eqid |-> e, role |-> role, occurrences |-> n, basis |-> role]

\* One container in two spellings; two containers.
Reported == {<<Tally(e1, "corrected", 1), Tally(e1, "flagged", 2)>>, <<Tally(e2, "flagged", 1), Tally(e1, "valid", 1)>>}

PrefixMap == e1 :> lea @@ e2 :> NoValue
Registered == lea :> NoValue

Says(owner, details, keys) == [owner |-> owner, details |-> details, keys |-> keys]

Told == boxtech :> {Says("A", sizetype :> "22G1", {k1})}
        @@ maersk :> {Says("B", place :> "FRLEH", {k1, k2})}

Queried == <<boxtech, maersk>>

ASSUME WarehouseAssumption == WarehouseBounds

(* ---- one batch ---- *)

Member(base, declared, actual, archived) ==
  [base |-> base, out |-> base, declared |-> declared, size |-> actual, dense |-> FALSE,
   corrupt |-> FALSE, archived |-> archived]

\* The same name again and again, one of them spelled like an answer; members beyond a budget.
BatchInputs ==
  {<<Member(<<"a">>, 1, 1, FALSE), Member(<<"a", 2>>, 1, 1, FALSE), Member(<<"a">>, 3, 3, FALSE),
     Member(<<"a">>, 1, 1, FALSE)>>}
  \cup {<<Member(<<"a">>, m, n, TRUE), Member(<<"a", 2>>, k, l, TRUE), Member(<<"a">>, 1, 1, TRUE),
          Member(<<"a">>, 1, 1, TRUE), Member(<<"b">>, 1, 1, TRUE)>> :
           m \in 1..3, n \in 1..2, k \in 1..3, l \in 1..2}

ASSUME BatchAssumption == BatchBounds

(* ---- one request ---- *)

\* More identifiers than the budget allows.
Asks == 1..3

ASSUME RequestAssumption == RequestBounds

VARIABLE side

InitAll ==
  /\ Init /\ LargeInit /\ WarehouseInit /\ BatchInit /\ RequestInit
  /\ side \in {"page", "large", "tables", "batch", "request"}
  /\ side # "batch" => Len(input) = 4

NextAll ==
  /\ UNCHANGED side
  /\ \/ side = "page" /\ Next /\ UNCHANGED <<largeVars, warehouseVars, batchVars, refVars>>
     \/ side = "large" /\ LargeNext /\ UNCHANGED <<vars, warehouseVars, batchVars, refVars>>
     \/ side = "tables" /\ WarehouseNext /\ UNCHANGED <<vars, largeVars, batchVars, refVars>>
     \/ side = "batch" /\ BatchNext /\ UNCHANGED <<vars, largeVars, warehouseVars, refVars>>
     \/ side = "request" /\ RequestNext /\ UNCHANGED <<vars, largeVars, warehouseVars, batchVars>>

SpecAll == InitAll /\ [][NextAll]_<<vars, largeVars, warehouseVars, batchVars, refVars, side>>
=============================================================================
