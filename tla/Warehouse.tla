------------------------------ MODULE Warehouse ------------------------------
(***************************************************************************)
(* What an upload to the public service leaves behind (service.py, db.py): *)
(* the audit event with its container rows and counters, and what the      *)
(* owner register and the network sources say of the containers            *)
(* (enrichment.py, _bg_enrich in api.py).                                  *)
(*                                                                         *)
(* Requests and background tasks run side by side, in several processes;   *)
(* each step here is one transaction of SQLite or one round of questions   *)
(* to the sources.  The correction itself is abstract: a report is any     *)
(* sequence of inventory rows, of which several may be of one container.   *)
(***************************************************************************)
EXTENDS Naturals, Sequences, FiniteSets, FiniteSetsExt, Functions

CONSTANTS
  Client,      \* requests and their background tasks
  Eqid,        \* containers
  NoValue,     \* NULL
  PrefixOf,    \* the owner prefix of a container, or NoValue (UIC)
  Registry,    \* the owner's name the offline register has for a prefix, or NoValue
  Reports,     \* what uploads report: sequences of [eqid, role, occurrences, basis]
  Sources,     \* the network sources in the order they are asked
  Answers,     \* what a source may answer: [owner, details, keys]
  Restricted,  \* the sources whose terms forbid copies (STORAGE_POLICIES)
  Retained,    \* the fields of theirs that may be kept
  OptedIn,     \* CHECKDIGIT_ENRICH_PERSIST_PAYLOADS
  MaxEvents    \* bound on the uploads

VARIABLES
  events,      \* ingestion_events with their event_containers
  containers,  \* containers, NoValue where there is no row
  owners,      \* owners: the name of each prefix, NoValue until it is known
  cache,       \* container_enrichment, NoValue where there is no row
  fetches,     \* enrichment_fetches
  carrier,     \* container_events: natural key and the fetch that delivered it
  task         \* where each client stands

warehouseVars == <<events, containers, owners, cache, fetches, carrier, task>>

Prefix == {PrefixOf[e] : e \in Eqid} \ {NoValue}
TaskSteps == {"idle", "rejected", "owners", "ask", "persist", "merge"}

\* A row of an inventory, and the counters of a container.
InventoryRow == [eqid : Eqid, role : STRING, occurrences : Nat, basis : STRING]
Counters     == [seen : Nat, corrected : Nat, flagged : Nat, basis : STRING]


\* What a source may deliver whole, and a row of enrichment_fetches.
Payloads == {answer.keys : answer \in UNION {Answers[s] : s \in DOMAIN Answers}} \cup {NoValue}
Fetch    == [eqid : Eqid, source : DOMAIN Answers, payload : Payloads]

WarehouseBounds ==
  /\ MaxEvents \in Nat
  /\ Reports \subseteq Seq(InventoryRow)
  /\ NoValue \notin Counters
  /\ Sources \in Seq(DOMAIN Answers)

NoTask == [step |-> "idle", left |-> {}, all |-> {}, got |-> <<>>, of |-> NoValue]

WarehouseInit ==
  /\ events = <<>> /\ containers = [e \in Eqid |-> NoValue]
  /\ owners = [p \in Prefix |-> NoValue] /\ cache = [e \in Eqid |-> NoValue]
  /\ fetches = <<>> /\ carrier = {}
  /\ task = [c \in Client |-> NoTask]

Coalesce(a, b) == IF a # NoValue THEN a ELSE b

(* ---- the audit event (record_event) ---- *)

One(role, row) == IF row.role = role THEN 1 ELSE 0

\* Mutant of CountedIn: every row is one sighting.
CountedOnce(counters, row) ==
  IF counters = NoValue
  THEN [seen |-> 1, corrected |-> One("corrected", row), flagged |-> One("flagged", row), basis |-> row.basis]
  ELSE [seen      |-> counters.seen + 1,
        corrected |-> counters.corrected + One("corrected", row),
        flagged   |-> counters.flagged + One("flagged", row),
        basis     |-> row.basis]

\* One row of the inventory is counted in: occurrences for the sightings, one for the rest.
CountedIn(counters, row) ==
  IF counters = NoValue
  THEN [seen |-> row.occurrences, corrected |-> One("corrected", row), flagged |-> One("flagged", row),
        basis |-> row.basis]
  ELSE [seen      |-> counters.seen + row.occurrences,
        corrected |-> counters.corrected + One("corrected", row),
        flagged   |-> counters.flagged + One("flagged", row),
        basis     |-> row.basis]

Sighted(table, row) == [table EXCEPT ![row.eqid] = CountedIn(@, row)]

\* The table behind each row of the report.
Counting(table, report) ==
  LET after[i \in 0 .. Len(report)] == IF i = 0 THEN table ELSE Sighted(after[i - 1], report[i])
  IN  after

Record(report) ==
  /\ events' = Append(events, report)
  /\ containers' = Counting(containers, report)[Len(report)]

(* ---- one request (process_upload) ---- *)

Idle(c) == task[c].step = "idle" /\ Len(events) < MaxEvents

\* Too large, or of no known format: an event without rows.
Reject(c) ==
  /\ Idle(c)
  /\ Record(<<>>)
  /\ task' = [task EXCEPT ![c].step = "rejected"]
  /\ UNCHANGED <<owners, cache, fetches, carrier>>

ProcessUpload(c, report) ==
  /\ Idle(c)
  /\ Record(report)
  /\ LET ids == {report[i].eqid : i \in DOMAIN report}
     IN  task' = [task EXCEPT ![c] = [NoTask EXCEPT !.step = "owners", !.left = ids, !.all = ids]]
  /\ UNCHANGED <<owners, cache, fetches, carrier>>

(* ---- what is known of a container (upsert_enrichment) ---- *)

\* A later source does not erase what it does not know; the first name of an owner stays.
NamedOwner(e, name) ==
  LET p == PrefixOf[e]
  IN  IF name = NoValue \/ p = NoValue THEN owners ELSE [owners EXCEPT ![p] = Coalesce(@, name)]

Upsert(e, data) ==
  /\ cache' = [cache EXCEPT ![e] =
       IF @ = NoValue THEN data
       ELSE [owner |-> Coalesce(data.owner, @.owner), source |-> Coalesce(data.source, @.source),
             details |-> Coalesce(data.details, @.details)]]
  /\ owners' = NamedOwner(e, data.owner)

\* The offline register, once for every container of the report, before the answer is sent.
EnrichOwner(c) ==
  /\ task[c].step = "owners" /\ task[c].left # {}
  /\ \E e \in task[c].left :
       /\ LET name == IF PrefixOf[e] = NoValue THEN NoValue ELSE Registry[PrefixOf[e]]
          IN  IF name = NoValue THEN UNCHANGED <<cache, owners>>
              ELSE Upsert(e, [owner |-> name, source |-> {"registry"}, details |-> NoValue])
       /\ task' = [task EXCEPT ![c].left = @ \ {e}]
  /\ UNCHANGED <<events, containers, fetches, carrier>>

Respond(c) ==
  /\ task[c].step = "owners" /\ task[c].left = {}
  /\ task' = [task EXCEPT ![c].step = "ask", ![c].left = task[c].all]
  /\ UNCHANGED <<events, containers, owners, cache, fetches, carrier>>

(* ---- the background task (_bg_enrich, enrich_detailed) ---- *)

\* What may be stored of an answer (StoragePolicy.apply).
Kept(s, answer) ==
  [source |-> s, owner |-> answer.owner,
   details |-> IF s \in Restricted THEN Restrict(answer.details, Retained \cap DOMAIN answer.details)
               ELSE answer.details,
   payload |-> IF s \in OptedIn \ Restricted THEN answer.keys ELSE NoValue]

\* Every source is asked; one that fails or knows nothing is left out.  A misconfigured source
\* or a fault of the network ends the questions about this container.
AskSources(c) ==
  /\ task[c].step = "ask" /\ task[c].left # {}
  /\ \E e \in task[c].left : \E told \in [DOMAIN Sources -> UNION {Answers[Sources[i]] : i \in DOMAIN Sources} \cup {NoValue}] :
       /\ \A i \in DOMAIN Sources : told[i] \in Answers[Sources[i]] \cup {NoValue}
       /\ LET some == {i \in DOMAIN Sources : told[i] # NoValue}
          IN  task' = [task EXCEPT ![c].left = @ \ {e}, ![c].of = e,
                                   ![c].got = [i \in some |-> Kept(Sources[i], told[i])],
                                   ![c].step = IF some = {} THEN "ask" ELSE "persist"]
  /\ UNCHANGED <<events, containers, owners, cache, fetches, carrier>>

\* One answer about a container is filed: the payload whole, and its transport events that are new.
Filed(log, e, answer) ==
  LET at  == Len(log.fetches) + 1
      new == IF answer.payload = NoValue THEN {}
             ELSE {k \in answer.payload : \A d \in log.carrier : <<d.eqid, d.key, d.source>> # <<e, k, answer.source>>}
  IN  [fetches |-> Append(log.fetches, [eqid |-> e, source |-> answer.source, payload |-> answer.payload]),
       carrier |-> log.carrier \cup {[eqid |-> e, key |-> k, source |-> answer.source, fetch |-> at] : k \in new}]

\* Both tables behind each source, of which those that answered are filed.
Filing(e, got) ==
  LET after[i \in 0 .. Len(Sources)] ==
        IF i = 0 THEN [fetches |-> fetches, carrier |-> carrier]
        ELSE IF i \in DOMAIN got THEN Filed(after[i - 1], e, got[i]) ELSE after[i - 1]
  IN  after

\* All answers about one container are filed in one transaction (persist_enrichment_payloads).
Persist(c) ==
  /\ task[c].step = "persist"
  /\ LET log == Filing(task[c].of, task[c].got)[Len(Sources)]
     IN  fetches' = log.fetches /\ carrier' = log.carrier
  /\ task' = [task EXCEPT ![c].step = "merge"]
  /\ UNCHANGED <<events, containers, owners, cache>>

\* The answers become one: of a field that several have, the last one's.
Merged(got) ==
  LET Owners == {i \in DOMAIN got : got[i].owner # NoValue}
      With(f) == {i \in DOMAIN got : f \in DOMAIN got[i].details}
      fields  == UNION {DOMAIN got[i].details : i \in DOMAIN got}
  IN  [owner   |-> IF Owners = {} THEN NoValue ELSE got[Max(Owners)].owner,
       source  |-> {got[i].source : i \in DOMAIN got},
       details |-> IF fields = {} THEN NoValue ELSE [f \in fields |-> got[Max(With(f))].details[f]]]

Merge(c) ==
  /\ task[c].step = "merge"
  /\ Upsert(task[c].of, Merged(task[c].got))
  /\ task' = [task EXCEPT ![c].step = "ask", ![c].got = <<>>, ![c].of = NoValue]
  /\ UNCHANGED <<events, containers, fetches, carrier>>

\* The database is locked, or the process is stopped: what is left is never asked.
TaskFails(c) ==
  /\ task[c].step \in {"owners", "ask", "persist", "merge"}
  /\ task' = [task EXCEPT ![c] = NoTask]
  /\ UNCHANGED <<events, containers, owners, cache, fetches, carrier>>

Finish(c) ==
  /\ \/ task[c].step = "rejected"
     \/ task[c].step = "ask" /\ task[c].left = {}
  /\ task' = [task EXCEPT ![c] = NoTask]
  /\ UNCHANGED <<events, containers, owners, cache, fetches, carrier>>

WarehouseNext ==
  \E c \in Client :
    \/ Reject(c) \/ (\E r \in Reports : ProcessUpload(c, r))
    \/ EnrichOwner(c) \/ Respond(c) \/ AskSources(c) \/ Persist(c) \/ Merge(c) \/ TaskFails(c) \/ Finish(c)

WarehouseSpec == WarehouseInit /\ [][WarehouseNext]_warehouseVars

(* ---- types ---- *)

\* What a task holds of the sources' answers, by source.
KeptAnswers == UNION {{Kept(s, answer) : answer \in Answers[s]} : s \in DOMAIN Answers}
HeldAnswers == UNION {[S -> KeptAnswers] : S \in SUBSET DOMAIN Sources}
Task == [step : TaskSteps, left : SUBSET Eqid, all : SUBSET Eqid, got : HeldAnswers, of : Eqid \cup {NoValue}]

WarehouseTypeOK ==
  /\ events \in Seq(Seq(InventoryRow)) /\ Len(events) <= MaxEvents
  /\ containers \in [Eqid -> Counters \cup {NoValue}] /\ DOMAIN owners = Prefix /\ DOMAIN cache = Eqid
  /\ fetches \in Seq(Fetch) /\ \A c \in carrier : c.fetch \in DOMAIN fetches
  /\ task \in [Client -> Task]
  /\ \A c \in Client : task[c].step \in {"persist", "merge"} => task[c].of \in Eqid

(* ---- properties ---- *)

\* The rows of a container in the events, by event and place, and each sighting of it.
Places(log) == UNION {{n} \X DOMAIN log[n] : n \in DOMAIN log}

RowsOf(log, e) == {p \in Places(log) : log[p[1]][p[2]].eqid = e}

InRole(log, e, role) == {p \in RowsOf(log, e) : log[p[1]][p[2]].role = role}

Sightings(log, e) == UNION {{p} \X (1 .. log[p[1]][p[2]].occurrences) : p \in RowsOf(log, e)}

AddUp(table, log) ==
  \A e \in Eqid :
    IF table[e] = NoValue THEN RowsOf(log, e) = {}
    ELSE /\ table[e].seen = Cardinality(Sightings(log, e))
         /\ table[e].corrected = Cardinality(InRole(log, e, "corrected"))
         /\ table[e].flagged = Cardinality(InRole(log, e, "flagged"))

\* The counters of a container are what its rows in all events add up to (recompute_counters:
\* "prove the cached counters cannot drift"), and a container without a row was never reported.
CountersAgree == AddUp(containers, events)

\* Every transport event of what was kept is stored, once, and names the first fetch that delivered
\* it, whichever of the tasks came first (record_carrier_events); the response of a source that forbids copies,
\* or that nobody opted in, is never stored (storage_policy_for).
FetchesAreHonest ==
  /\ \A d, d2 \in carrier : <<d.eqid, d.key, d.source>> = <<d2.eqid, d2.key, d2.source>> => d = d2
  /\ \A d \in carrier : \A i \in 1..d.fetch :
       fetches[i].eqid = d.eqid /\ fetches[i].source = d.source /\ fetches[i].payload # NoValue
       /\ d.key \in fetches[i].payload => i = d.fetch
  /\ \A i \in DOMAIN fetches : fetches[i].payload # NoValue => fetches[i].source \in OptedIn \ Restricted
  /\ \A i \in DOMAIN fetches : fetches[i].payload # NoValue =>
       \A k \in fetches[i].payload : \E d \in carrier :
         d.eqid = fetches[i].eqid /\ d.key = k /\ d.source = fetches[i].source

\* What the tables of the public service say of themselves: the counters add up, and of what
\* the sources answered only that is kept which may be, once.
TablesAgree == WarehouseTypeOK /\ CountersAgree /\ FetchesAreHonest
=============================================================================
