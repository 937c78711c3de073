----------------------------- MODULE Generations -----------------------------
(***************************************************************************)
(* Staged generations and the published fleet of one workspace             *)
(* (workspace/reconcile.py, with the writers of its tables in runner.py,   *)
(* ingest.py, review.py and maintenance.py).                               *)
(*                                                                         *)
(* Each action is one transaction on the tables.  Who runs it and when is  *)
(* left open: a worker, a second worker that took the job over, a          *)
(* re-analysis or a request may run any of them at any time, in particular *)
(* after it read a state that no longer holds.  What this module shows     *)
(* therefore holds whatever the callers do; module Workspace adds the      *)
(* callers.                                                                *)
(*                                                                         *)
(* Generations are numbered in the order of creation.  Counts and hashes   *)
(* are modelled by the sets they count and digest.                         *)
(***************************************************************************)
EXTENDS Naturals, FiniteSets, Sequences

CONSTANTS
  NGens, NIntents,   \* how many generations and intents are ever created
  Key, Attr, Scope,  \* identifiers, attribute hashes, coverage scopes
  Shape,             \* what a client may ask for, see IntentShape
  Op,                \* operation ids of publish requests
  None               \* NULL

Gen    == 1 .. NGens
Intent == 1 .. NIntents

Mode == {"full_snapshot", "incremental", "explicit_removal"}

\* limit is change_volume_limit, emptyOk whether empty_scope_decision is set,
\* source the content hash of the file.
IntentShape == [mode : Mode, scope : Scope, limit : Nat \cup {None},
                emptyOk : BOOLEAN, source : Nat]

ASSUME GenerationsAssumption ==
  /\ NGens \in Nat
  /\ NIntents \in Nat
  /\ Shape \subseteq IntentShape
  /\ None \notin Nat /\ None \notin Attr /\ None \notin Scope /\ None \notin Op
  /\ IsFiniteSet(Key)

VARIABLES
  intent,     \* import_intents: a shape and a baseline, or None
  gintent,    \* generations.import_intent_id (0 before the INSERT)
  gstate,     \* generations.state
  members,    \* memberships: the attributes listed for a key, or None
  parsed,     \* streaming is "open", or done: "complete" by completeness(), or
              \* "partial"; "gone" when the job and its checkpoint are deleted
  fx,         \* generations.change_counts_json and change_manifest_sha256
  ended,      \* generations whose job is failed, cancelled or purged
  current,    \* workspaces.current_generation_id (0 is NULL)
  fleet,      \* the published fleet
  audit       \* audit_events with action generation.publish

vars == <<intent, gintent, gstate, members, parsed, fx, ended, current, fleet, audit>>

GenState == {"none", "candidate", "publishable", "published", "superseded", "abandoned"}

Outcome  == {"partial", "complete"}

Listing == [Key -> Attr \cup {None}]

FleetRow == [attrs : Attr \cup {None}, gen : 0 .. NGens, scope : Scope \cup {None}]
NoRow    == [attrs |-> None, gen |-> 0, scope |-> None]

Effect  == [key : Key, effect : {"added", "changed", "removed"}, attrs : Attr \cup {None}]
NoFx    == [retire |-> {}, manifest |-> {}]

TypeOK ==
  /\ intent \in [Intent -> [shape : Shape, base : 0 .. NGens] \cup {None}]
  /\ gintent \in [Gen -> 0 .. NIntents]
  /\ gstate \in [Gen -> GenState]
  /\ members \in [Gen -> Listing]
  /\ parsed \in [Gen -> {"open", "gone"} \cup Outcome]
  /\ fx \in [Gen -> [retire : SUBSET Key, manifest : SUBSET Effect]]
  /\ ended \subseteq Gen
  /\ current \in 0 .. NGens
  /\ fleet \in [Key -> FleetRow]
  /\ audit \in Seq([gen : Gen, op : Op \cup {None}, base : 0 .. NGens])

Init ==
  /\ intent = [i \in Intent |-> None]
  /\ gintent = [g \in Gen |-> 0]
  /\ gstate = [g \in Gen |-> "none"]
  /\ members = [g \in Gen |-> [k \in Key |-> None]]
  /\ parsed = [g \in Gen |-> "open"]
  /\ fx = [g \in Gen |-> NoFx]
  /\ ended = {}
  /\ current = 0
  /\ fleet = [k \in Key |-> NoRow]
  /\ audit = <<>>

Shp(g)  == intent[gintent[g]].shape
Base(g) == intent[gintent[g]].base

-----------------------------------------------------------------------------
(* Intents and candidates.                                                 *)

\* create_intent: the fingerprint covers every field, so a replayed request
\* maps onto the existing row; the API only accepts a baseline that exists.
CreateIntent(i, s, b) ==
  /\ intent[i] = None
  /\ \A h \in Intent : h < i => intent[h] # None
  /\ b \in {0} \cup {g \in Gen : gstate[g] # "none"}
  /\ \A h \in Intent : intent[h] # [shape |-> s, base |-> b]
  /\ intent' = [intent EXCEPT ![i] = [shape |-> s, base |-> b]]
  /\ UNCHANGED <<gintent, gstate, members, parsed, fx, ended, current, fleet, audit>>

\* A job of the intent that still counts as its one application.
LiveJob(g, i) == gintent[g] = i /\ g \notin ended /\ gstate[g] # "abandoned"

\* runner.submit: a second job, with its candidate, only when the intent has
\* no live one.
Submit(g, i) ==
  /\ intent[i] # None
  /\ \A h \in Gen : ~LiveJob(h, i)
  /\ gstate[g] = "none"
  /\ \A h \in Gen : h < g => gstate[h] # "none"
  /\ gintent' = [gintent EXCEPT ![g] = i]
  /\ gstate' = [gstate EXCEPT ![g] = "candidate"]
  /\ UNCHANGED <<intent, members, parsed, fx, ended, current, fleet, audit>>

\* A streaming flush: INSERT OR IGNORE keeps the first attributes of a key.
\* The last flush ends the stream, and the counters then say how complete it
\* is.  The checkpoint in the same transaction makes sure the stream is open.
Stage(g, listed, p) ==
  /\ gstate[g] # "none"
  /\ parsed[g] = "open"
  /\ members' = [members EXCEPT ![g] =
                   [k \in Key |-> IF @[k] # None THEN @[k] ELSE listed[k]]]
  /\ parsed' = [parsed EXCEPT ![g] = p]
  /\ UNCHANGED <<intent, gintent, gstate, fx, ended, current, fleet, audit>>

\* The job of g fails, is cancelled, or comes back (a retry, a late export).
JobMoves(g) ==
  /\ gstate[g] # "none"
  /\ parsed[g] # "gone"
  /\ ended' = IF g \in ended THEN ended \ {g} ELSE ended \cup {g}
  /\ UNCHANGED <<intent, gintent, gstate, members, parsed, fx, current, fleet, audit>>

-----------------------------------------------------------------------------
(* Comparison with the published fleet.                                    *)

Candidate(g) == {k \in Key : members[g][k] # None}
InFleet      == {k \in Key : fleet[k].attrs # None}
Differs(g, k) == members[g][k] # fleet[k].attrs \/ fleet[k].scope # Shp(g).scope

Added(g)     == Candidate(g) \ InFleet
Changed(g)   == {k \in Candidate(g) \cap InFleet : Differs(g, k)}
Unchanged(g) == (Candidate(g) \cap InFleet) \ Changed(g)
Removed(g)   == {k \in InFleet \ Candidate(g) : fleet[k].scope = Shp(g).scope}

\* Mutant of GatesBlock: completeness is not asked for.
GatesIgnoreParsing(g, feedBlocked) ==
  \/ feedBlocked
  \/ Base(g) # current
  \/ Shp(g).mode = "full_snapshot" /\ Candidate(g) = {} /\ ~Shp(g).emptyOk

\* The gates that withhold retirement as well as publication.
GatesBlock(g, feedBlocked) ==
  \/ feedBlocked
  \/ Base(g) # current
  \/ /\ Shp(g).mode = "full_snapshot"
     /\ \/ Candidate(g) = {} /\ ~Shp(g).emptyOk
        \/ parsed[g] # "complete"

Retire(g, feedBlocked) ==
  CASE Shp(g).mode = "full_snapshot" ->
         IF GatesBlock(g, feedBlocked) THEN {} ELSE Removed(g)
    [] Shp(g).mode = "explicit_removal" -> Unchanged(g) \cup Changed(g)
    [] OTHER -> {}

OverLimit(g, retire) ==
  /\ Shp(g).limit # None
  /\ LET volume == IF Shp(g).mode = "explicit_removal" THEN retire
                   ELSE Added(g) \cup Changed(g) \cup retire
     IN  Cardinality(volume) > Shp(g).limit

EffectsOn(ks, e, row) == {[key |-> k, effect |-> e, attrs |-> row[k]] : k \in ks}

\* change_manifest_sha256, as the effect list it digests.
Manifest(g, retire) ==
  EffectsOn(Added(g), "added", members[g])
    \cup EffectsOn(Changed(g), "changed", members[g])
    \cup IF Shp(g).mode = "full_snapshot" /\ retire # {}
         THEN EffectsOn(Removed(g), "removed", [k \in Key |-> fleet[k].attrs])
         ELSE {}

\* The gates transaction of finish_job.  The state of the generation is
\* overwritten without being read; only a deleted job stops it, by the foreign
\* key of the counters it writes.
FinishJob(g, feedBlocked) ==
  /\ gstate[g] # "none"
  /\ parsed[g] \in Outcome
  /\ LET retire  == Retire(g, feedBlocked)
         blocked == GatesBlock(g, feedBlocked) \/ OverLimit(g, retire)
     IN  /\ fx' = [fx EXCEPT ![g] = [retire |-> retire, manifest |-> Manifest(g, retire)]]
         /\ gstate' = [gstate EXCEPT ![g] = IF blocked THEN "candidate" ELSE "publishable"]
  /\ UNCHANGED <<intent, gintent, members, parsed, ended, current, fleet, audit>>

-----------------------------------------------------------------------------
(* Publication and its opposite.                                           *)

\* The rows publish() leaves: what the file lists, minus what is retired.
FleetAfter(g) ==
  [k \in Key |->
     CASE Shp(g).mode = "explicit_removal" ->
            IF k \in Candidate(g) THEN NoRow ELSE fleet[k]
       [] Shp(g).mode # "explicit_removal" /\ k \in Candidate(g) ->
            IF fleet[k].attrs = None \/ Differs(g, k)
            THEN [attrs |-> members[g][k], gen |-> g, scope |-> Shp(g).scope]
            ELSE fleet[k]
       [] OTHER ->
            IF /\ Shp(g).mode = "full_snapshot"
               /\ fx[g].retire # {}
               /\ fleet[k].scope = Shp(g).scope
            THEN NoRow
            ELSE fleet[k]]

\* A replay (of the operation id, or of a published generation) returns the
\* recorded outcome and changes nothing.
Offered(g, op) ==
  /\ gstate[g] = "publishable"
  /\ op # None => \A n \in DOMAIN audit : audit[n].gen # g \/ audit[n].op # op

\* Mutant of Admitted: the baseline was only compared by finish_job.
AdmittedAsCompared(g, op) == Offered(g, op)

\* publish() checks the baseline again, in the transaction that applies it.
Admitted(g, op) == Offered(g, op) /\ Base(g) = current

StatesAfter(g) ==
  [h \in Gen |->
     CASE h = g -> "published"
       [] h # g /\ h = current /\ gstate[h] = "published" -> "superseded"
       [] OTHER -> gstate[h]]

Publish(g, op) ==
  /\ Admitted(g, op)
  /\ fleet' = FleetAfter(g)
  /\ gstate' = StatesAfter(g)
  /\ current' = g
  /\ audit' = Append(audit, [gen |-> g, op |-> op, base |-> current])
  /\ UNCHANGED <<intent, gintent, members, parsed, fx, ended>>

Abandon(g) ==
  /\ gstate[g] \in {"candidate", "publishable"}
  /\ gstate' = [gstate EXCEPT ![g] = "abandoned"]
  /\ UNCHANGED <<intent, gintent, members, parsed, fx, ended, current, fleet, audit>>

\* Mutant of Restage: an offer made before the re-analysis still stands.
RestageUnderOffer(g, listed, p) ==
  /\ gstate[g] # "none"
  /\ parsed[g] \in Outcome
  /\ members' = [members EXCEPT ![g] = listed]
  /\ parsed' = [parsed EXCEPT ![g] = p]
  /\ UNCHANGED <<intent, gintent, gstate, fx, ended, current, fleet, audit>>

\* reanalyze, the transaction that re-stages the memberships and recounts.
Restage(g, listed, p) ==
  /\ gstate[g] # "none"
  /\ parsed[g] \in Outcome
  /\ members' = [members EXCEPT ![g] = listed]
  /\ parsed' = [parsed EXCEPT ![g] = p]
  /\ gstate' = [gstate EXCEPT ![g] = IF @ = "publishable" THEN "candidate" ELSE @]
  /\ UNCHANGED <<intent, gintent, fx, ended, current, fleet, audit>>

\* maintenance.purge of the job: an unpublished generation goes with it.
Purge(g) ==
  /\ gstate[g] # "none"
  /\ parsed[g] # "gone"
  /\ ended' = ended \cup {g}
  /\ parsed' = [parsed EXCEPT ![g] = "gone"]
  /\ IF gstate[g] \notin {"published", "superseded"}
     THEN /\ members' = [members EXCEPT ![g] = [k \in Key |-> None]]
          /\ gstate' = [gstate EXCEPT ![g] = "abandoned"]
     ELSE UNCHANGED <<members, gstate>>
  /\ UNCHANGED <<intent, gintent, fx, current, fleet, audit>>

-----------------------------------------------------------------------------
Request ==
  \/ \E i \in Intent, s \in Shape, b \in 0 .. NGens : CreateIntent(i, s, b)
  \/ \E g \in Gen, i \in Intent : Submit(g, i)
  \/ \E g \in Gen, op \in Op \cup {None} : Publish(g, op)
  \/ \E g \in Gen : Abandon(g) \/ Purge(g) \/ JobMoves(g)

Analyse(g) ==
  \/ \E listed \in Listing, p \in {"open"} \cup Outcome : Stage(g, listed, p)
  \/ \E feedBlocked \in BOOLEAN : FinishJob(g, feedBlocked)
  \/ \E listed \in Listing, p \in Outcome : Restage(g, listed, p)

Next == Request \/ \E g \in Gen : Analyse(g)

Spec == Init /\ [][Next]_vars

-----------------------------------------------------------------------------
(* Safety.                                                                 *)

LastGen == IF audit = <<>> THEN 0 ELSE audit[Len(audit)].gen

\* "Two publishers racing on the same baseline cannot both succeed"
\* (reconcile.py): the publications form one line.  Each builds on the one
\* before it, no generation is applied twice, and the workspace pointer is
\* the last of them, even though finish_job may take the published mark off
\* a generation again.
LinearHistory ==
  /\ current = LastGen
  /\ \A n \in DOMAIN audit :
       audit[n].base = IF n = 1 THEN 0 ELSE audit[n - 1].gen
  /\ \A m, n \in DOMAIN audit : m < n => audit[m].gen < audit[n].gen

\* "An intent that already has a job is not run twice" (runner.py): whatever
\* jobs an intent was given after failures, cancellations and abandoned
\* generations, at most one of them ever reaches the fleet.
IntentAppliedOnce ==
  \A m, n \in DOMAIN audit :
    gintent[audit[m].gen] = gintent[audit[n].gen] => m = n

\* Readers that look for the published generation find the current one.
OnlyCurrentIsPublished ==
  \A g \in Gen : gstate[g] = "published" => g = current

History == [n \in DOMAIN audit |-> audit[n].gen]

\* The tables implement a single line of fleet versions.
Line == INSTANCE FleetHistory WITH history <- History
ImplementsFleetHistory == Line!Spec

\* Every fleet row names a generation whose publication is on record.
FleetIsAudited ==
  \A k \in Key : fleet[k].attrs # None =>
    \E n \in DOMAIN audit : audit[n].gen = fleet[k].gen

\* A generation reaches the fleet in this step; it is current' then.
Publication == Len(audit') > Len(audit)

TouchedBy(g) == {e.key : e \in fx[g].manifest}

\* What a publication does to the fleet is what finish_job compared and
\* hashed, however long ago, and whatever was published in between.
ManifestHonoured ==
  [][Publication /\ Shp(current').mode # "explicit_removal" =>
       {k \in Key : fleet'[k] # fleet[k]} = TouchedBy(current')]_vars

\* "Retirement is only applied for a complete full snapshot", and within its
\* own scope; an explicit removal retires only what the file lists.
RetirementIsJustified ==
  [][Publication =>
       \A k \in Key : fleet[k].attrs # None /\ fleet'[k].attrs = None =>
         \/ /\ Shp(current').mode = "full_snapshot"
            /\ parsed[current'] = "complete"
            /\ fleet[k].scope = Shp(current').scope
            /\ k \notin Candidate(current')
         \/ Shp(current').mode = "explicit_removal" /\ k \in Candidate(current')]_vars

(* What the safety properties rest on.                                     *)

\* Generations exist without gaps, and are staged for an intent that pinned a
\* baseline which existed before them.
BaselineIsOlder ==
  /\ \A g, h \in Gen : h < g /\ gstate[g] # "none" => gstate[h] # "none"
  /\ \A i \in Intent : intent[i] # None =>
       intent[i].base = 0 \/ gstate[intent[i].base] # "none"
  /\ \A g \in Gen : gstate[g] # "none" =>
       gintent[g] \in Intent /\ intent[gintent[g]] # None /\ Base(g) < g

\* The audit trail tells which baseline each publication was built on.
AuditIsTrue ==
  \A n \in DOMAIN audit :
    gstate[audit[n].gen] # "none" /\ audit[n].base = Base(audit[n].gen)

\* A generation that may be published was compared after its stream ended, and
\* as long as its baseline is current its effects are those recorded.
OfferIsTrue ==
  \A g \in Gen : gstate[g] = "publishable" =>
    /\ parsed[g] \in Outcome
    /\ Shp(g).mode = "full_snapshot" => parsed[g] = "complete"
    /\ Base(g) <= current
    /\ Base(g) = current =>
         fx[g] = [retire |-> Retire(g, FALSE), manifest |-> Manifest(g, Retire(g, FALSE))]

\* A key is in the fleet with all its columns or not at all.
RowsAreWhole == \A k \in Key : fleet[k].attrs = None => fleet[k] = NoRow

\* The inductive invariant: history only grows past the baselines it pins, so
\* a comparison is either still exact or can no longer be applied.
HistoryInv ==
  /\ TypeOK
  /\ LinearHistory
  /\ BaselineIsOlder
  /\ AuditIsTrue
  /\ OfferIsTrue
  /\ RowsAreWhole
  /\ OnlyCurrentIsPublished
  /\ FleetIsAudited
=============================================================================
