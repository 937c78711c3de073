-------------------------- MODULE GenerationsProofs --------------------------
(***************************************************************************)
(* Proofs about Generations, for any number of generations and intents,    *)
(* any keys, scopes and requests, and any callers.                         *)
(***************************************************************************)
EXTENDS Generations, TLAPS

-----------------------------------------------------------------------------
(* Types.                                                                  *)

\* The intent of a generation that exists is a well-formed one.
LEMMA ShapeOfGen ==
  ASSUME TypeOK, BaselineIsOlder, NEW g \in Gen, gstate[g] # "none"
  PROVE  Shp(g) \in IntentShape /\ Base(g) \in 0 .. NGens
<1>1. intent[gintent[g]] \in [shape : Shape, base : 0 .. NGens]
  BY DEF TypeOK, BaselineIsOlder
<1> QED BY <1>1, GenerationsAssumption DEF Shp, Base

\* The rows a publication writes are well formed.
LEMMA FleetAfterType ==
  ASSUME TypeOK, BaselineIsOlder, NEW g \in Gen, gstate[g] # "none"
  PROVE  FleetAfter(g) \in [Key -> FleetRow]
<1> SUFFICES ASSUME NEW k \in Key PROVE FleetAfter(g)[k] \in FleetRow
  BY DEF FleetAfter
<1>1. NoRow \in FleetRow
  BY GenerationsAssumption DEF NoRow, FleetRow
<1>2. fleet[k] \in FleetRow
  BY DEF TypeOK
<1>3. members[g][k] \in Attr \cup {None} /\ g \in 0 .. NGens /\ Shp(g).scope \in Scope
  BY ShapeOfGen, GenerationsAssumption DEF TypeOK, Listing, Gen, IntentShape
<1>4. [attrs |-> members[g][k], gen |-> g, scope |-> Shp(g).scope] \in FleetRow
  BY <1>3 DEF FleetRow
<1> QED BY <1>1, <1>2, <1>4 DEF FleetAfter

\* What finish_job records is well formed.
LEMMA EffectsType ==
  ASSUME TypeOK, NEW g \in Gen, NEW b \in BOOLEAN
  PROVE  [retire |-> Retire(g, b), manifest |-> Manifest(g, Retire(g, b))]
           \in [retire : SUBSET Key, manifest : SUBSET Effect]
<1>1. /\ Added(g) \subseteq Key /\ Changed(g) \subseteq Key
      /\ Unchanged(g) \subseteq Key /\ Removed(g) \subseteq Key
  BY DEF Added, Changed, Unchanged, Removed, Candidate, InFleet
<1>2. Retire(g, b) \in SUBSET Key
  BY <1>1 DEF Retire
<1>3. ASSUME NEW ks \in SUBSET Key, NEW e \in {"added", "changed", "removed"},
             NEW row, \A k \in Key : row[k] \in Attr \cup {None}
      PROVE  EffectsOn(ks, e, row) \subseteq Effect
  BY <1>3 DEF EffectsOn, Effect
<1>4. \A k \in Key : members[g][k] \in Attr \cup {None} /\ fleet[k].attrs \in Attr \cup {None}
  BY DEF TypeOK, Listing, FleetRow
<1>5. /\ EffectsOn(Added(g), "added", members[g]) \subseteq Effect
      /\ EffectsOn(Changed(g), "changed", members[g]) \subseteq Effect
      /\ EffectsOn(Removed(g), "removed", [k \in Key |-> fleet[k].attrs]) \subseteq Effect
  BY <1>1, <1>3, <1>4
<1>6. Manifest(g, Retire(g, b)) \subseteq Effect
  BY <1>5 DEF Manifest
<1> QED BY <1>2, <1>6

\* No step leaves the types of the tables.
LEMMA TypeStep == ASSUME TypeOK, BaselineIsOlder, [Next]_vars PROVE TypeOK'
<1>1. ASSUME NEW i \in Intent, NEW s \in Shape, NEW b \in 0 .. NGens, CreateIntent(i, s, b)
      PROVE  TypeOK'
  BY <1>1 DEF CreateIntent, TypeOK
<1>2. ASSUME NEW g \in Gen, NEW i \in Intent, Submit(g, i) PROVE TypeOK'
  <2>1. i \in 0 .. NIntents
    BY GenerationsAssumption DEF Intent
  <2> QED BY <1>2, <2>1 DEF Submit, TypeOK, GenState
<1>3. ASSUME NEW g \in Gen, NEW op \in Op \cup {None}, Publish(g, op) PROVE TypeOK'
  <2>1. gstate[g] # "none" /\ g \in 0 .. NGens
    BY <1>3, GenerationsAssumption DEF Publish, Offered, Admitted, StatesAfter, Gen
  <2>2. fleet' \in [Key -> FleetRow]
    BY <1>3, <2>1, FleetAfterType DEF Publish, Offered, Admitted, StatesAfter
  <2>3. gstate' \in [Gen -> GenState]
    BY <1>3 DEF Publish, Offered, Admitted, StatesAfter, TypeOK, GenState
  <2>4. audit' \in Seq([gen : Gen, op : Op \cup {None}, base : 0 .. NGens])
    BY <1>3 DEF Publish, Offered, Admitted, StatesAfter, TypeOK
  <2> QED BY <1>3, <2>1, <2>2, <2>3, <2>4 DEF Publish, Offered, Admitted, StatesAfter, TypeOK
<1>4. ASSUME NEW g \in Gen, Abandon(g) \/ JobMoves(g) PROVE TypeOK'
  BY <1>4 DEF Abandon, JobMoves, TypeOK, GenState
<1>5. ASSUME NEW g \in Gen, Purge(g) PROVE TypeOK'
  <2>1. [k \in Key |-> None] \in Listing
    BY DEF Listing
  <2> QED BY <1>5, <2>1 DEF Purge, TypeOK, GenState
<1>6. ASSUME NEW g \in Gen, NEW listed \in Listing, NEW p \in {"open"} \cup Outcome,
             Stage(g, listed, p)
      PROVE  TypeOK'
  <2> DEFINE merged == [k \in Key |-> IF members[g][k] # None THEN members[g][k] ELSE listed[k]]
  <2>1. merged \in Listing
    BY DEF Listing, TypeOK
  <2>2. members' = [members EXCEPT ![g] = merged]
    BY <1>6 DEF Stage
  <2> HIDE DEF merged
  <2>3. members' \in [Gen -> Listing]
    BY <2>1, <2>2 DEF TypeOK
  <2> QED BY <1>6, <2>3 DEF Stage, Outcome, TypeOK
<1>7. ASSUME NEW g \in Gen, NEW listed \in Listing, NEW p \in Outcome, Restage(g, listed, p)
      PROVE  TypeOK'
  BY <1>7 DEF Restage, Outcome, TypeOK, GenState
<1>8. ASSUME NEW g \in Gen, NEW feedBlocked \in BOOLEAN, FinishJob(g, feedBlocked) PROVE TypeOK'
  <2> DEFINE e == [retire |-> Retire(g, feedBlocked), manifest |-> Manifest(g, Retire(g, feedBlocked))]
  <2>1. fx' = [fx EXCEPT ![g] = e]
    BY <1>8 DEF FinishJob
  <2>2. e \in [retire : SUBSET Key, manifest : SUBSET Effect]
    BY EffectsType
  <2> HIDE DEF e
  <2>3. fx' \in [Gen -> [retire : SUBSET Key, manifest : SUBSET Effect]]
    BY <2>1, <2>2 DEF TypeOK
  <2>4. gstate' \in [Gen -> GenState]
    BY <1>8 DEF FinishJob, TypeOK, GenState
  <2> QED BY <1>8, <2>3, <2>4 DEF FinishJob, TypeOK
<1>9. CASE UNCHANGED vars
  BY <1>9 DEF vars, TypeOK
<1>10. CASE Request
  BY <1>1, <1>2, <1>3, <1>4, <1>5, <1>10 DEF Request
<1>11. ASSUME NEW g \in Gen, Analyse(g) PROVE TypeOK'
  BY <1>6, <1>8, <1>7, <1>11 DEF Analyse
<1> QED BY <1>9, <1>10, <1>11 DEF Next

-----------------------------------------------------------------------------
(* The inductive invariant.                                                *)

\* An empty workspace satisfies the invariant.
LEMMA InitInv == Init => HistoryInv
<1> SUFFICES ASSUME Init PROVE HistoryInv
  OBVIOUS
<1>1. TypeOK
  <2>1. [k \in Key |-> None] \in Listing /\ [k \in Key |-> NoRow] \in [Key -> FleetRow]
    BY GenerationsAssumption DEF Listing, NoRow, FleetRow
  <2>2. NoFx \in [retire : SUBSET Key, manifest : SUBSET Effect]
    BY DEF NoFx
  <2>3. 0 \in 0 .. NGens /\ 0 \in 0 .. NIntents
    BY GenerationsAssumption
  <2>4. audit \in Seq([gen : Gen, op : Op \cup {None}, base : 0 .. NGens])
    BY DEF Init
  <2> QED BY <2>1, <2>2, <2>3, <2>4 DEF Init, TypeOK, GenState
<1>2. LinearHistory /\ AuditIsTrue
  BY DEF Init, LinearHistory, LastGen, AuditIsTrue
<1>3. BaselineIsOlder /\ OfferIsTrue /\ OnlyCurrentIsPublished
  BY DEF Init, BaselineIsOlder, OfferIsTrue, OnlyCurrentIsPublished
<1>4. RowsAreWhole /\ FleetIsAudited
  BY DEF Init, RowsAreWhole, FleetIsAudited, NoRow
<1> QED BY <1>1, <1>2, <1>3, <1>4 DEF HistoryInv

\* The audit trail is a sequence of publications of generations.
LEMMA AuditType ==
  ASSUME TypeOK
  PROVE  /\ Len(audit) \in Nat /\ DOMAIN audit = 1 .. Len(audit)
         /\ \A n \in DOMAIN audit : audit[n].gen \in Gen /\ audit[n].base \in 0 .. NGens
<1> DEFINE Event == [gen : Gen, op : Op \cup {None}, base : 0 .. NGens]
<1>1. audit \in Seq(Event)
  BY DEF TypeOK
<1>2. ASSUME NEW S, audit \in Seq(S)
      PROVE  /\ Len(audit) \in Nat /\ DOMAIN audit = 1 .. Len(audit)
             /\ \A n \in DOMAIN audit : audit[n] \in S
  BY <1>2
<1>3. \A n \in DOMAIN audit : audit[n] \in Event
  BY <1>1, <1>2
<1> QED BY <1>1, <1>2, <1>3

\* A comparison reads nothing but these.
LEMMA SameComparison ==
  ASSUME NEW g \in Gen, Shp(g)' = Shp(g), Base(g)' = Base(g),
         members'[g] = members[g], parsed'[g] = parsed[g], UNCHANGED <<current, fleet>>
  PROVE  /\ Retire(g, FALSE)' = Retire(g, FALSE)
         /\ Manifest(g, Retire(g, FALSE))' = Manifest(g, Retire(g, FALSE))
<1>1. Candidate(g)' = Candidate(g) /\ InFleet' = InFleet
  BY DEF Candidate, InFleet
<1>2. /\ Added(g)' = Added(g) /\ Changed(g)' = Changed(g)
      /\ Unchanged(g)' = Unchanged(g) /\ Removed(g)' = Removed(g)
  <2>1. Added(g)' = Added(g) /\ Removed(g)' = Removed(g)
    BY <1>1 DEF Added, Removed
  <2>2. Changed(g)' = Changed(g)
    BY <1>1 DEF Changed, Differs
  <2> QED BY <1>1, <2>1, <2>2 DEF Unchanged
<1>3. GatesBlock(g, FALSE)' <=> GatesBlock(g, FALSE)
  BY <1>1 DEF GatesBlock
<1>4. Retire(g, FALSE)' = Retire(g, FALSE)
  BY <1>2, <1>3 DEF Retire
<1>5. Manifest(g, Retire(g, FALSE))' = Manifest(g, Retire(g, FALSE))
  <2>1. \A ks, e : EffectsOn(ks, e, members[g])' = EffectsOn(ks, e, members[g])
    BY DEF EffectsOn
  <2>2. \A ks, e : EffectsOn(ks, e, [k \in Key |-> fleet[k].attrs])' = EffectsOn(ks, e, [k \in Key |-> fleet[k].attrs])
    BY DEF EffectsOn
  <2> QED BY <1>2, <1>4, <2>1, <2>2 DEF Manifest
<1> QED BY <1>4, <1>5

\* A new intent or a new candidate leaves what is known of the others alone.
LEMMA NewKeeps ==
  ASSUME HistoryInv, NEW i \in Intent,
         \/ \E s \in Shape, b \in 0 .. NGens : CreateIntent(i, s, b)
         \/ \E g \in Gen : Submit(g, i)
  PROVE  \A g \in Gen : gstate[g] # "none" =>
           Shp(g)' = Shp(g) /\ Base(g)' = Base(g) /\ gstate'[g] = gstate[g]
<1> SUFFICES ASSUME NEW g \in Gen, gstate[g] # "none"
             PROVE  Shp(g)' = Shp(g) /\ Base(g)' = Base(g) /\ gstate'[g] = gstate[g]
  OBVIOUS
<1>1. gintent[g] \in Intent /\ intent[gintent[g]] # None
  BY DEF HistoryInv, BaselineIsOlder
<1>2. CASE \E s \in Shape, b \in 0 .. NGens : CreateIntent(i, s, b)
  BY <1>1, <1>2 DEF CreateIntent, HistoryInv, TypeOK, Shp, Base
<1>3. CASE \E h \in Gen : Submit(h, i)
  BY <1>1, <1>3 DEF Submit, HistoryInv, TypeOK, Shp, Base
<1> QED BY <1>2, <1>3

\* A step that publishes nothing keeps the line of publications.
LEMMA HistoryKept ==
  ASSUME HistoryInv, UNCHANGED <<current, fleet, audit>>,
         \A g \in Gen : gstate[g] # "none" => gstate'[g] # "none" /\ Base(g)' = Base(g)
  PROVE  (LinearHistory /\ AuditIsTrue /\ RowsAreWhole /\ FleetIsAudited)'
<1>1. LinearHistory'
  BY DEF HistoryInv, LinearHistory, LastGen
<1>2. AuditIsTrue'
  BY AuditType DEF HistoryInv, AuditIsTrue
<1>3. RowsAreWhole' /\ FleetIsAudited'
  BY DEF HistoryInv, RowsAreWhole, FleetIsAudited
<1> QED BY <1>1, <1>2, <1>3

\* Creating an intent or a candidate.
LEMMA NewStep ==
  ASSUME HistoryInv, NEW i \in Intent,
         \/ \E s \in Shape, b \in 0 .. NGens : CreateIntent(i, s, b)
         \/ \E g \in Gen : Submit(g, i)
  PROVE  (LinearHistory /\ BaselineIsOlder /\ AuditIsTrue /\ OfferIsTrue /\ RowsAreWhole
            /\ OnlyCurrentIsPublished /\ FleetIsAudited)'
<1>1. \A g \in Gen : gstate[g] # "none" =>
        Shp(g)' = Shp(g) /\ Base(g)' = Base(g) /\ gstate'[g] = gstate[g]
  BY NewKeeps
<1>2. UNCHANGED <<members, parsed, fx, current, fleet, audit>>
  BY DEF CreateIntent, Submit
<1>3. \A g \in Gen : gstate'[g] = gstate[g] \/ gstate'[g] = "candidate"
  BY DEF CreateIntent, Submit, HistoryInv, TypeOK
<1>4. (LinearHistory /\ AuditIsTrue /\ RowsAreWhole /\ FleetIsAudited)'
  BY <1>1, <1>2, HistoryKept
<1>5. OnlyCurrentIsPublished'
  BY <1>2, <1>3 DEF HistoryInv, OnlyCurrentIsPublished
<1>6. OfferIsTrue'
  <2> SUFFICES ASSUME NEW g \in Gen, gstate'[g] = "publishable"
               PROVE  (/\ parsed[g] \in Outcome
                       /\ Shp(g).mode = "full_snapshot" => parsed[g] = "complete"
                       /\ Base(g) <= current
                       /\ Base(g) = current =>
                            fx[g] = [retire |-> Retire(g, FALSE), manifest |-> Manifest(g, Retire(g, FALSE))])'
    BY DEF OfferIsTrue
  <2>1. gstate[g] = "publishable" /\ Shp(g)' = Shp(g) /\ Base(g)' = Base(g)
    BY <1>1, <1>3
  <2>2. /\ Retire(g, FALSE)' = Retire(g, FALSE)
        /\ Manifest(g, Retire(g, FALSE))' = Manifest(g, Retire(g, FALSE))
    BY <1>2, <2>1, SameComparison
  <2> QED BY <1>2, <2>1, <2>2 DEF HistoryInv, OfferIsTrue
<1>7. BaselineIsOlder'
  <2>1. CASE \E s \in Shape, b \in 0 .. NGens : CreateIntent(i, s, b)
    <3>1. PICK s \in Shape, b \in 0 .. NGens : CreateIntent(i, s, b)
      BY <2>1
    <3>2. intent' = [intent EXCEPT ![i] = [shape |-> s, base |-> b]] /\ UNCHANGED <<gstate, gintent>>
      BY <3>1 DEF CreateIntent
    <3>3. \A h \in Intent : intent'[h] # None => intent'[h].base = 0 \/ gstate[intent'[h].base] # "none"
      BY <3>1, <3>2 DEF CreateIntent, HistoryInv, TypeOK, BaselineIsOlder
    <3>4. \A g \in Gen : gstate[g] # "none" => intent'[gintent[g]] # None /\ intent[i] = None
      BY <3>1, <3>2 DEF CreateIntent, HistoryInv, TypeOK, BaselineIsOlder
    <3> QED BY <1>1, <3>2, <3>3, <3>4 DEF HistoryInv, BaselineIsOlder
  <2>2. CASE \E g \in Gen : Submit(g, i)
    <3>1. PICK g \in Gen : Submit(g, i)
      BY <2>2
    <3>2. /\ intent[i] # None /\ gstate[g] = "none" /\ intent' = intent
          /\ gintent' = [gintent EXCEPT ![g] = i] /\ gstate' = [gstate EXCEPT ![g] = "candidate"]
          /\ \A h \in Gen : h < g => gstate[h] # "none"
      BY <3>1 DEF Submit
    <3>3. intent[i].base \in 0 .. NGens /\ (intent[i].base # 0 => gstate[intent[i].base] # "none")
      BY <3>2 DEF HistoryInv, TypeOK, BaselineIsOlder
    <3>4. intent[i].base < g
      BY <3>2, <3>3, GenerationsAssumption DEF HistoryInv, BaselineIsOlder, Gen
    <3>5. Base(g)' < g /\ gintent'[g] = i
      BY <3>2, <3>4 DEF Base, HistoryInv, TypeOK
    <3>6. \A h \in Gen : h # g => gstate'[h] = gstate[h] /\ gintent'[h] = gintent[h]
      BY <3>2 DEF HistoryInv, TypeOK
    <3>7. \A h \in Gen : gstate'[h] # "none" =>
            gintent'[h] \in Intent /\ intent'[gintent'[h]] # None /\ Base(h)' < h
      BY <1>1, <3>2, <3>5, <3>6 DEF HistoryInv, BaselineIsOlder
    <3>8. \A h, k \in Gen : k < h /\ gstate'[h] # "none" => gstate'[k] # "none"
      BY <3>2, <3>6 DEF HistoryInv, BaselineIsOlder, Gen, TypeOK
    <3>9. \A h \in Intent : intent'[h] # None => intent'[h].base = 0 \/ gstate'[intent'[h].base] # "none"
      BY <3>2 DEF HistoryInv, BaselineIsOlder, TypeOK
    <3> QED BY <3>7, <3>8, <3>9 DEF BaselineIsOlder
  <2> QED BY <2>1, <2>2
<1> QED BY <1>4, <1>5, <1>6, <1>7

\* A step on existing generations that neither publishes nor offers one for
\* publication, and changes none that is offered.
LEMMA QuietStep ==
  ASSUME HistoryInv, UNCHANGED <<intent, gintent, current, fleet, audit>>,
         \A g \in Gen : \/ gstate'[g] = gstate[g]
                        \/ gstate[g] # "none" /\ gstate'[g] \in {"candidate", "abandoned"},
         \A g \in Gen : gstate'[g] = "publishable" =>
           members'[g] = members[g] /\ parsed'[g] = parsed[g] /\ fx'[g] = fx[g]
  PROVE  (LinearHistory /\ BaselineIsOlder /\ AuditIsTrue /\ OfferIsTrue /\ RowsAreWhole
            /\ OnlyCurrentIsPublished /\ FleetIsAudited)'
<1>1. \A g \in Gen : Shp(g)' = Shp(g) /\ Base(g)' = Base(g)
  BY DEF Shp, Base
<1>2. \A g \in Gen : gstate'[g] # "none" <=> gstate[g] # "none"
  OBVIOUS
<1>3. (LinearHistory /\ AuditIsTrue /\ RowsAreWhole /\ FleetIsAudited)'
  BY <1>1, <1>2, HistoryKept
<1>4. BaselineIsOlder'
  BY <1>1, <1>2, SMTT(20) DEF HistoryInv, BaselineIsOlder, TypeOK, Gen
<1>5. OnlyCurrentIsPublished'
  BY DEF HistoryInv, OnlyCurrentIsPublished
<1>6. OfferIsTrue'
  <2> SUFFICES ASSUME NEW g \in Gen, gstate'[g] = "publishable"
               PROVE  (/\ parsed[g] \in Outcome
                       /\ Shp(g).mode = "full_snapshot" => parsed[g] = "complete"
                       /\ Base(g) <= current
                       /\ Base(g) = current =>
                            fx[g] = [retire |-> Retire(g, FALSE), manifest |-> Manifest(g, Retire(g, FALSE))])'
    BY DEF OfferIsTrue
  <2>1. gstate[g] = "publishable"
    OBVIOUS
  <2>2. /\ Retire(g, FALSE)' = Retire(g, FALSE)
        /\ Manifest(g, Retire(g, FALSE))' = Manifest(g, Retire(g, FALSE))
    BY <1>1, SameComparison
  <2> QED BY <1>1, <2>1, <2>2 DEF HistoryInv, OfferIsTrue
<1> QED BY <1>3, <1>4, <1>5, <1>6

\* A finished comparison: what it records is what it compared.
LEMMA FinishStep ==
  ASSUME HistoryInv, NEW g \in Gen, NEW feedBlocked \in BOOLEAN, FinishJob(g, feedBlocked)
  PROVE  (LinearHistory /\ BaselineIsOlder /\ AuditIsTrue /\ OfferIsTrue /\ RowsAreWhole
            /\ OnlyCurrentIsPublished /\ FleetIsAudited)'
<1> DEFINE e(b) == [retire |-> Retire(g, b), manifest |-> Manifest(g, Retire(g, b))]
           blocked == GatesBlock(g, feedBlocked) \/ OverLimit(g, Retire(g, feedBlocked))
<1>1. /\ gstate[g] # "none" /\ parsed[g] \in Outcome
      /\ fx' = [fx EXCEPT ![g] = e(feedBlocked)]
      /\ gstate' = [gstate EXCEPT ![g] = IF blocked THEN "candidate" ELSE "publishable"]
      /\ UNCHANGED <<intent, gintent, members, parsed, ended, current, fleet, audit>>
  BY DEF FinishJob
<1>2. ~blocked => ~feedBlocked /\ ~GatesBlock(g, FALSE)
  BY DEF GatesBlock
<1>3. CASE blocked
  <2>1. \A h \in Gen : \/ gstate'[h] = gstate[h]
                       \/ gstate[h] # "none" /\ gstate'[h] \in {"candidate", "abandoned"}
    BY <1>1, <1>3 DEF HistoryInv, TypeOK
  <2>2. \A h \in Gen : gstate'[h] = "publishable" => h # g
    BY <1>1, <1>3 DEF HistoryInv, TypeOK
  <2>3. \A h \in Gen : gstate'[h] = "publishable" =>
          members'[h] = members[h] /\ parsed'[h] = parsed[h] /\ fx'[h] = fx[h]
    BY <1>1, <2>2 DEF HistoryInv, TypeOK
  <2> QED BY <1>1, <2>1, <2>3, QuietStep
<1>4. CASE ~blocked
  <2>1. /\ gstate' = [gstate EXCEPT ![g] = "publishable"]
        /\ fx'[g] = e(FALSE) /\ ~GatesBlock(g, FALSE)
    BY <1>1, <1>2, <1>4 DEF HistoryInv, TypeOK
  <2> HIDE DEF blocked
  <2>2. \A h \in Gen : h # g => gstate'[h] = gstate[h] /\ fx'[h] = fx[h]
    BY <1>1, <2>1 DEF HistoryInv, TypeOK
  <2>3. \A h \in Gen : Shp(h)' = Shp(h) /\ Base(h)' = Base(h)
    BY <1>1 DEF Shp, Base
  <2>4. \A h \in Gen : gstate'[h] # "none" <=> gstate[h] # "none"
    BY <1>1, <2>1 DEF HistoryInv, TypeOK
  <2>5. (LinearHistory /\ AuditIsTrue /\ RowsAreWhole /\ FleetIsAudited)'
    BY <1>1, <2>3, <2>4, HistoryKept
  <2>6. BaselineIsOlder'
    <3>1. UNCHANGED <<intent, gintent>>
      BY <1>1
    <3>2. \A h \in Gen : gstate'[h] # "none" => gstate[h] # "none"
      BY <2>4
    <3>3. \A i \in Intent : intent[i] # None /\ intent[i].base # 0 => gstate'[intent[i].base] # "none"
      BY <2>4, <3>1 DEF HistoryInv, BaselineIsOlder, TypeOK, Gen
    <3> QED BY <2>3, <2>4, <3>1, <3>2, <3>3 DEF HistoryInv, BaselineIsOlder
  <2>7. OnlyCurrentIsPublished'
    BY <1>1, <2>1 DEF HistoryInv, OnlyCurrentIsPublished, TypeOK
  <2>8. OfferIsTrue'
    <3> SUFFICES ASSUME NEW h \in Gen, gstate'[h] = "publishable"
                 PROVE  (/\ parsed[h] \in Outcome
                         /\ Shp(h).mode = "full_snapshot" => parsed[h] = "complete"
                         /\ Base(h) <= current
                         /\ Base(h) = current =>
                              fx[h] = [retire |-> Retire(h, FALSE), manifest |-> Manifest(h, Retire(h, FALSE))])'
      BY DEF OfferIsTrue
    <3>1. /\ Retire(h, FALSE)' = Retire(h, FALSE)
          /\ Manifest(h, Retire(h, FALSE))' = Manifest(h, Retire(h, FALSE))
      BY <1>1, <2>3, SameComparison
    <3>2. CASE h = g
      <4>1. Base(g) = current /\ current \in Nat
                 /\ (Shp(g).mode = "full_snapshot" => parsed[g] = "complete")
        <5>1. current \in Nat
          BY GenerationsAssumption DEF HistoryInv, TypeOK
        <5> QED BY <2>1, <5>1 DEF GatesBlock
      <4>2. Base(g)' <= current' /\ Base(g)' = current'
        BY <1>1, <2>3, <4>1
      <4>3. /\ parsed'[g] \in Outcome
            /\ Shp(g)'.mode = "full_snapshot" => parsed'[g] = "complete"
        BY <1>1, <2>3, <4>1
      <4>4. fx'[g] = [retire |-> Retire(g, FALSE)', manifest |-> Manifest(g, Retire(g, FALSE))']
        BY <2>1, <3>1, <3>2
      <4> QED BY <3>2, <4>2, <4>3, <4>4
    <3>3. CASE h # g
      BY <1>1, <2>2, <2>3, <3>1, <3>3 DEF HistoryInv, OfferIsTrue
    <3> QED BY <3>2, <3>3
  <2> QED BY <2>5, <2>6, <2>7, <2>8
<1> QED BY <1>3, <1>4

\* A publication keeps a row, drops it, or writes it in its own name.
LEMMA RowsAfter ==
  ASSUME NEW g \in Gen, NEW k \in Key
  PROVE  \/ FleetAfter(g)[k] = fleet[k]
         \/ FleetAfter(g)[k] = NoRow
         \/ /\ FleetAfter(g)[k] = [attrs |-> members[g][k], gen |-> g, scope |-> Shp(g).scope]
            /\ members[g][k] # None
BY DEF FleetAfter, Candidate

\* The publications before this one are of older generations.
LEMMA PublishedAreOlder ==
  ASSUME HistoryInv
  PROVE  \A n \in DOMAIN audit : audit[n].gen <= current
<1>1. Len(audit) \in Nat /\ DOMAIN audit = 1 .. Len(audit)
      /\ \A n \in DOMAIN audit : audit[n].gen \in Gen
  BY AuditType DEF HistoryInv
<1> SUFFICES ASSUME NEW n \in DOMAIN audit PROVE audit[n].gen <= current
  OBVIOUS
<1>2. audit # <<>> /\ Len(audit) \in DOMAIN audit /\ n <= Len(audit)
  BY <1>1
<1>3. current = audit[Len(audit)].gen
  BY <1>2 DEF HistoryInv, LinearHistory, LastGen
<1>4. CASE n = Len(audit)
  BY <1>1, <1>3, <1>4 DEF Gen
<1>5. CASE n < Len(audit)
  BY <1>1, <1>2, <1>3, <1>5 DEF HistoryInv, LinearHistory, Gen
<1> QED BY <1>1, <1>2, <1>4, <1>5

\* What a publication leaves behind in the audit trail.
LEMMA PublishAppends ==
  ASSUME HistoryInv, NEW g \in Gen, NEW op \in Op \cup {None}, Publish(g, op)
  PROVE  /\ Base(g) = current /\ current < g /\ current \in Nat /\ current' = g
         /\ Len(audit) \in Nat /\ Len(audit') = Len(audit) + 1
         /\ DOMAIN audit = 1 .. Len(audit) /\ DOMAIN audit' = 1 .. Len(audit) + 1
         /\ \A n \in DOMAIN audit : audit'[n] = audit[n]
         /\ audit'[Len(audit) + 1] = [gen |-> g, op |-> op, base |-> current]
<1>1. Base(g) = current /\ current' = g /\ gstate[g] # "none"
      /\ audit' = Append(audit, [gen |-> g, op |-> op, base |-> current])
  BY DEF Publish, Offered, Admitted, StatesAfter
<1>2. current < g /\ current \in Nat
  BY <1>1, GenerationsAssumption DEF HistoryInv, BaselineIsOlder, TypeOK
<1>3. Len(audit) \in Nat /\ DOMAIN audit = 1 .. Len(audit)
  BY AuditType DEF HistoryInv
<1>4. ASSUME NEW S, audit \in Seq(S), NEW e
      PROVE  /\ Len(Append(audit, e)) = Len(audit) + 1
             /\ DOMAIN Append(audit, e) = 1 .. Len(audit) + 1
             /\ \A n \in 1 .. Len(audit) : Append(audit, e)[n] = audit[n]
             /\ Append(audit, e)[Len(audit) + 1] = e
  BY <1>3, <1>4
<1>5. audit \in Seq([gen : Gen, op : Op \cup {None}, base : 0 .. NGens])
  BY DEF HistoryInv, TypeOK
<1> QED BY <1>1, <1>2, <1>3, <1>4, <1>5

\* A publication extends the line by one generation newer than all before it.
LEMMA PublishStep ==
  ASSUME HistoryInv, NEW g \in Gen, NEW op \in Op \cup {None}, Publish(g, op)
  PROVE  (LinearHistory /\ BaselineIsOlder /\ AuditIsTrue /\ OfferIsTrue /\ RowsAreWhole
            /\ OnlyCurrentIsPublished /\ FleetIsAudited)'
<1> DEFINE last == Len(audit) + 1
<1>1. /\ Base(g) = current /\ current < g /\ current \in Nat /\ current' = g
      /\ Len(audit) \in Nat /\ Len(audit') = last
      /\ DOMAIN audit = 1 .. Len(audit) /\ DOMAIN audit' = 1 .. last
      /\ \A n \in DOMAIN audit : audit'[n] = audit[n]
      /\ audit'[last] = [gen |-> g, op |-> op, base |-> current]
  BY PublishAppends
<1>2. /\ gstate[g] = "publishable" /\ fleet' = FleetAfter(g)
      /\ UNCHANGED <<intent, gintent, members, parsed, ended, fx>>
      /\ gstate' = [h \in Gen |-> CASE h = g -> "published"
                                    [] h # g /\ h = current /\ gstate[h] = "published" -> "superseded"
                                    [] OTHER -> gstate[h]]
  BY DEF Publish, Offered, Admitted, StatesAfter
<1>3. \A h \in Gen : Shp(h)' = Shp(h) /\ Base(h)' = Base(h)
  BY <1>2 DEF Shp, Base
<1>4. \A h \in Gen : gstate'[h] # "none" <=> gstate[h] # "none"
  BY <1>2
<1>5. \A n \in DOMAIN audit' : n \in DOMAIN audit \/ n = last
  BY <1>1
<1>6. LinearHistory'
  <2>1. audit' # <<>> /\ current' = audit'[Len(audit')].gen
    BY <1>1
  <2>2. \A n \in DOMAIN audit' : audit'[n].base = IF n = 1 THEN 0 ELSE audit'[n - 1].gen
    <3> SUFFICES ASSUME NEW n \in DOMAIN audit'
                 PROVE  audit'[n].base = IF n = 1 THEN 0 ELSE audit'[n - 1].gen
      OBVIOUS
    <3>1. CASE n \in DOMAIN audit
      BY <1>1, <3>1 DEF HistoryInv, LinearHistory
    <3>2. CASE n = last /\ Len(audit) = 0
      BY <1>1, <3>2 DEF HistoryInv, LinearHistory, LastGen
    <3>3. CASE n = last /\ Len(audit) # 0
      <4>1. audit # <<>> /\ n # 1 /\ n - 1 = Len(audit) /\ n - 1 \in DOMAIN audit
        BY <1>1, <3>3
      <4>2. current = audit[n - 1].gen
        BY <4>1 DEF HistoryInv, LinearHistory, LastGen
      <4> QED BY <1>1, <3>3, <4>1, <4>2
    <3> QED BY <1>5, <3>1, <3>2, <3>3
  <2>3. \A m, n \in DOMAIN audit' : m < n => audit'[m].gen < audit'[n].gen
    <3> SUFFICES ASSUME NEW m \in DOMAIN audit', NEW n \in DOMAIN audit', m < n
                 PROVE  audit'[m].gen < audit'[n].gen
      OBVIOUS
    <3>1. m \in DOMAIN audit
      BY <1>1
    <3>2. CASE n \in DOMAIN audit
      BY <1>1, <3>1, <3>2 DEF HistoryInv, LinearHistory
    <3>3. CASE n = last
      <4>1. audit[m].gen <= current /\ audit[m].gen \in Gen
        BY <3>1, PublishedAreOlder, AuditType DEF HistoryInv
      <4> QED BY <1>1, <3>1, <3>3, <4>1 DEF Gen
    <3> QED BY <1>5, <3>2, <3>3
  <2> QED BY <2>1, <2>2, <2>3 DEF LinearHistory, LastGen
<1>7. BaselineIsOlder'
  BY <1>2, <1>3, <1>4 DEF HistoryInv, BaselineIsOlder, TypeOK, Gen
<1>8. AuditIsTrue'
  <2> SUFFICES ASSUME NEW n \in DOMAIN audit'
               PROVE  (gstate[audit[n].gen] # "none" /\ audit[n].base = Base(audit[n].gen))'
    BY DEF AuditIsTrue
  <2>1. CASE n \in DOMAIN audit
    <3>1. audit'[n] = audit[n] /\ audit[n].gen \in Gen
      BY <1>1, <2>1, AuditType DEF HistoryInv
    <3>2. gstate[audit[n].gen] # "none" /\ audit[n].base = Base(audit[n].gen)
      BY <2>1 DEF HistoryInv, AuditIsTrue
    <3> QED BY <1>2, <1>4, <3>1, <3>2 DEF Base
  <2>2. CASE n = last
    <3>1. audit'[n].gen = g /\ audit'[n].base = current
      BY <1>1, <2>2
    <3> QED BY <1>1, <1>2, <1>4, <3>1 DEF Base
  <2> QED BY <1>5, <2>1, <2>2
<1>9. OfferIsTrue'
  <2> SUFFICES ASSUME NEW h \in Gen, gstate'[h] = "publishable"
               PROVE  (/\ parsed[h] \in Outcome
                       /\ Shp(h).mode = "full_snapshot" => parsed[h] = "complete"
                       /\ Base(h) <= current /\ Base(h) # current)'
    BY DEF OfferIsTrue
  <2>1. gstate[h] = "publishable"
    BY <1>2
  <2>2. Base(h) <= current /\ Base(h) \in 0 .. NGens
    BY <2>1, ShapeOfGen DEF HistoryInv, OfferIsTrue
  <2>3. Base(h)' <= current' /\ Base(h)' # current'
    BY <1>1, <1>3, <2>2, GenerationsAssumption DEF Gen
  <2> QED BY <1>2, <1>3, <2>1, <2>3 DEF HistoryInv, OfferIsTrue
<1>10. RowsAreWhole'
  <2> SUFFICES ASSUME NEW k \in Key, fleet'[k].attrs = None PROVE fleet'[k] = NoRow
    BY DEF RowsAreWhole
  <2>1. CASE fleet'[k] = fleet[k]
    BY <2>1 DEF HistoryInv, RowsAreWhole
  <2>2. \/ fleet'[k] = fleet[k] \/ fleet'[k] = NoRow
        \/ /\ fleet'[k] = [attrs |-> members[g][k], gen |-> g, scope |-> Shp(g).scope]
           /\ members[g][k] # None
    BY <1>2, RowsAfter
  <2> QED BY <2>1, <2>2
<1>11. OnlyCurrentIsPublished'
  BY <1>1, <1>2 DEF HistoryInv, OnlyCurrentIsPublished
<1>12. FleetIsAudited'
  <2> SUFFICES ASSUME NEW k \in Key, fleet'[k].attrs # None
               PROVE  \E n \in DOMAIN audit' : audit'[n].gen = fleet'[k].gen
    BY DEF FleetIsAudited
  <2>1. CASE fleet'[k] = fleet[k]
    <3>1. PICK n \in DOMAIN audit : audit[n].gen = fleet[k].gen
      BY <2>1 DEF HistoryInv, FleetIsAudited
    <3> QED BY <1>1, <2>1, <3>1
  <2>2. CASE fleet'[k].gen = g
    BY <1>1, <2>2
  <2>3. CASE fleet'[k] = NoRow
    BY <2>3 DEF NoRow
  <2>4. \/ fleet'[k] = fleet[k] \/ fleet'[k] = NoRow
        \/ fleet'[k] = [attrs |-> members[g][k], gen |-> g, scope |-> Shp(g).scope]
    BY <1>2, RowsAfter
  <2> QED BY <2>1, <2>2, <2>3, <2>4
<1> QED BY <1>6, <1>7, <1>8, <1>9, <1>10, <1>11, <1>12

\* Every step keeps the invariant, whoever takes it and whenever.
LEMMA InvStep == ASSUME HistoryInv, [Next]_vars PROVE HistoryInv'
<1> DEFINE Rest == LinearHistory /\ BaselineIsOlder /\ AuditIsTrue /\ OfferIsTrue /\ RowsAreWhole
                     /\ OnlyCurrentIsPublished /\ FleetIsAudited
<1>1. TypeOK'
  BY TypeStep DEF HistoryInv
<1>2. ASSUME Request PROVE Rest'
  <2>1. ASSUME NEW i \in Intent, NEW s \in Shape, NEW b \in 0 .. NGens, CreateIntent(i, s, b)
        PROVE  Rest'
    BY <2>1, NewStep
  <2>2. ASSUME NEW g \in Gen, NEW i \in Intent, Submit(g, i) PROVE Rest'
    BY <2>2, NewStep
  <2>3. ASSUME NEW g \in Gen, NEW op \in Op \cup {None}, Publish(g, op) PROVE Rest'
    BY <2>3, PublishStep
  <2>4. ASSUME NEW g \in Gen, Abandon(g) \/ Purge(g) \/ JobMoves(g) PROVE Rest'
    <3>1. UNCHANGED <<intent, gintent, current, fleet, audit>>
      BY <2>4 DEF Abandon, Purge, JobMoves
    <3>2. \A h \in Gen : \/ gstate'[h] = gstate[h]
                         \/ gstate[h] # "none" /\ gstate'[h] \in {"candidate", "abandoned"}
      BY <2>4 DEF Abandon, Purge, JobMoves, HistoryInv, TypeOK
    <3>3. \A h \in Gen : gstate'[h] = "publishable" =>
            members'[h] = members[h] /\ parsed'[h] = parsed[h] /\ fx'[h] = fx[h]
      BY <2>4 DEF Abandon, Purge, JobMoves, HistoryInv, TypeOK
    <3> QED BY <3>1, <3>2, <3>3, QuietStep
  <2> QED BY <1>2, <2>1, <2>2, <2>3, <2>4 DEF Request
<1>3. ASSUME NEW g \in Gen, Analyse(g) PROVE Rest'
  <2>1. ASSUME NEW listed \in Listing, NEW p \in {"open"} \cup Outcome, Stage(g, listed, p)
        PROVE  Rest'
    <3>1. UNCHANGED <<intent, gintent, gstate, fx, current, fleet, audit>>
      BY <2>1 DEF Stage
    <3>2. gstate[g] # "publishable"
      BY <2>1 DEF Stage, Outcome, HistoryInv, OfferIsTrue
    <3>3. \A h \in Gen : gstate'[h] = "publishable" =>
            members'[h] = members[h] /\ parsed'[h] = parsed[h] /\ fx'[h] = fx[h]
      BY <2>1, <3>1, <3>2 DEF Stage, HistoryInv, TypeOK
    <3> QED BY <3>1, <3>3, QuietStep
  <2>2. ASSUME NEW listed \in Listing, NEW p \in Outcome, Restage(g, listed, p) PROVE Rest'
    <3>1. UNCHANGED <<intent, gintent, fx, current, fleet, audit>>
      BY <2>2 DEF Restage
    <3>2. \A h \in Gen : \/ gstate'[h] = gstate[h]
                         \/ gstate[h] # "none" /\ gstate'[h] \in {"candidate", "abandoned"}
      BY <2>2 DEF Restage, HistoryInv, TypeOK
    <3>3. \A h \in Gen : gstate'[h] = "publishable" =>
            members'[h] = members[h] /\ parsed'[h] = parsed[h] /\ fx'[h] = fx[h]
      BY <2>2 DEF Restage, HistoryInv, TypeOK
    <3> QED BY <3>1, <3>2, <3>3, QuietStep
  <2>3. ASSUME NEW feedBlocked \in BOOLEAN, FinishJob(g, feedBlocked) PROVE Rest'
    BY <2>3, FinishStep
  <2> QED BY <1>3, <2>1, <2>2, <2>3 DEF Analyse
<1>4. ASSUME UNCHANGED vars PROVE Rest'
  <2>1. UNCHANGED <<intent, gintent, gstate, members, parsed, fx, current, fleet, audit>>
    BY <1>4 DEF vars
  <2> QED BY <2>1, QuietStep
<1> QED BY <1>1, <1>2, <1>3, <1>4 DEF Next, HistoryInv

\* The invariant holds in every state.
THEOREM HistoryIsSound == Spec => []HistoryInv
<1> QED BY InitInv, InvStep, PTL DEF Spec

-----------------------------------------------------------------------------
(* What follows from it.                                                   *)

\* Publications form one line, each built on the one before it (reconcile.py:
\* two publishers racing on the same baseline cannot both succeed).
THEOREM OneLine == Spec => []LinearHistory
<1>1. HistoryInv => LinearHistory
  BY DEF HistoryInv
<1> QED BY <1>1, HistoryIsSound, PTL

\* No import intent reaches the fleet twice, whatever jobs it was given: its
\* baseline would have to be current twice.
THEOREM OneApplication == Spec => []IntentAppliedOnce
<1>1. HistoryInv => IntentAppliedOnce
  <2> SUFFICES ASSUME HistoryInv, NEW m \in DOMAIN audit, NEW n \in DOMAIN audit,
                      gintent[audit[m].gen] = gintent[audit[n].gen]
               PROVE  m = n
    BY DEF IntentAppliedOnce
  <2>1. DOMAIN audit = 1 .. Len(audit) /\ Len(audit) \in Nat
        /\ \A l \in DOMAIN audit : audit[l].gen \in Gen
    BY AuditType DEF HistoryInv
  <2>2. audit[m].base = audit[n].base
    BY DEF HistoryInv, AuditIsTrue, Base
  <2>3. ASSUME NEW k \in DOMAIN audit, NEW l \in DOMAIN audit, k < l
        PROVE  audit[k].base # audit[l].base
    <3>1. l # 1 /\ l - 1 \in DOMAIN audit /\ (k # 1 => k - 1 \in DOMAIN audit /\ k - 1 < l - 1)
      BY <2>1, <2>3
    <3>2. audit[l].base = audit[l - 1].gen /\ audit[l - 1].gen \in Gen
      BY <2>1, <3>1 DEF HistoryInv, LinearHistory
    <3>3. CASE k = 1
      BY <3>2, <3>3 DEF HistoryInv, LinearHistory, Gen
    <3>4. CASE k # 1
      <4>1. audit[k].base = audit[k - 1].gen /\ audit[k - 1].gen \in Gen
        BY <2>1, <3>1, <3>4 DEF HistoryInv, LinearHistory
      <4>2. audit[k - 1].gen < audit[l - 1].gen
        BY <3>1, <3>4 DEF HistoryInv, LinearHistory
      <4> QED BY <3>2, <4>1, <4>2 DEF Gen
    <3> QED BY <3>3, <3>4
  <2> QED BY <2>1, <2>2, <2>3
<1> QED BY <1>1, HistoryIsSound, PTL

\* At most the current generation is marked published.
THEOREM OnePublished == Spec => []OnlyCurrentIsPublished
<1>1. HistoryInv => OnlyCurrentIsPublished
  BY DEF HistoryInv
<1> QED BY <1>1, HistoryIsSound, PTL

\* Every row of the fleet comes from a publication on record.
THEOREM EveryRowIsAudited == Spec => []FleetIsAudited
<1>1. HistoryInv => FleetIsAudited
  BY DEF HistoryInv
<1> QED BY <1>1, HistoryIsSound, PTL

\* What is offered for publication still does what was compared and recorded.
LEMMA PublishedAsCompared ==
  ASSUME HistoryInv, NEW g \in Gen, NEW op \in Op \cup {None}, Publish(g, op)
  PROVE  /\ fleet' = FleetAfter(g) /\ current' = g
         /\ fx[g].retire = Retire(g, FALSE) /\ fx[g].manifest = Manifest(g, Retire(g, FALSE))
         /\ Shp(g).mode = "full_snapshot" => parsed[g] = "complete"
         /\ Shp(g).scope # None /\ Shp(g).mode \in Mode
         /\ UNCHANGED <<intent, gintent, members, parsed, fx>>
<1>1. /\ gstate[g] = "publishable" /\ Base(g) = current /\ fleet' = FleetAfter(g) /\ current' = g
      /\ UNCHANGED <<intent, gintent, members, parsed, fx>>
  BY DEF Publish, Offered, Admitted, StatesAfter
<1>2. Shp(g) \in IntentShape
  BY <1>1, ShapeOfGen DEF HistoryInv
<1>3. fx[g] = [retire |-> Retire(g, FALSE), manifest |-> Manifest(g, Retire(g, FALSE))]
      /\ (Shp(g).mode = "full_snapshot" => parsed[g] = "complete")
  BY <1>1 DEF HistoryInv, OfferIsTrue
<1> QED BY <1>1, <1>2, <1>3, GenerationsAssumption DEF IntentShape

\* Only publish adds to the audit trail.
LEMMA OnlyPublishAppends ==
  ASSUME HistoryInv, [Next]_vars, Publication
  PROVE  \E g \in Gen, op \in Op \cup {None} : Publish(g, op)
<1>1. audit' # audit
  BY AuditType DEF HistoryInv, Publication
<1> QED BY <1>1 DEF Next, Request, Analyse, CreateIntent, Submit, Abandon, Purge, JobMoves,
          Stage, FinishJob, Restage, vars

\* reconcile.py: retirement is only applied for a complete full snapshot and
\* within its scope, or to what an explicit removal lists.
THEOREM RetirementHasCause == Spec => RetirementIsJustified
<1> DEFINE Cause(k) ==
      \/ /\ Shp(current').mode = "full_snapshot"
         /\ parsed[current'] = "complete"
         /\ fleet[k].scope = Shp(current').scope
         /\ k \notin Candidate(current')
      \/ Shp(current').mode = "explicit_removal" /\ k \in Candidate(current')
<1>1. ASSUME HistoryInv, [Next]_vars, Publication,
             NEW k \in Key, fleet[k].attrs # None, fleet'[k].attrs = None
      PROVE  Cause(k)
  <2>1. PICK g \in Gen, op \in Op \cup {None} : Publish(g, op)
    BY <1>1, OnlyPublishAppends
  <2>2. /\ fleet' = FleetAfter(g) /\ current' = g
        /\ (Shp(g).mode = "full_snapshot" => parsed[g] = "complete")
    BY <1>1, <2>1, PublishedAsCompared
  <2> QED BY <1>1, <2>2 DEF FleetAfter, Candidate
<1>2. HistoryInv /\ [Next]_vars =>
        [Publication => \A k \in Key : fleet[k].attrs # None /\ fleet'[k].attrs = None => Cause(k)]_vars
  BY <1>1
<1> QED BY <1>2, HistoryIsSound, PTL DEF Spec, RetirementIsJustified

\* The keys a recorded manifest names.
LEMMA ManifestKeys ==
  ASSUME NEW g \in Gen, NEW retire, fx[g].manifest = Manifest(g, retire)
  PROVE  TouchedBy(g) = Added(g) \cup Changed(g)
                          \cup IF Shp(g).mode = "full_snapshot" /\ retire # {} THEN Removed(g) ELSE {}
<1>1. ASSUME NEW ks, NEW e, NEW row
      PROVE  \A k : k \in ks <=> \E r \in EffectsOn(ks, e, row) : r.key = k
  <2>1. ASSUME NEW k \in ks PROVE \E r \in EffectsOn(ks, e, row) : r.key = k
    <3> DEFINE r == [key |-> k, effect |-> e, attrs |-> row[k]]
    <3>1. r \in EffectsOn(ks, e, row) /\ r.key = k
      BY DEF EffectsOn
    <3> QED BY <3>1
  <2>2. ASSUME NEW r \in EffectsOn(ks, e, row) PROVE r.key \in ks
    BY DEF EffectsOn
  <2> QED BY <2>1, <2>2
<1> DEFINE dropped == IF Shp(g).mode = "full_snapshot" /\ retire # {}
                      THEN EffectsOn(Removed(g), "removed", [k \in Key |-> fleet[k].attrs]) ELSE {}
<1>2. fx[g].manifest = (EffectsOn(Added(g), "added", members[g])
                          \cup EffectsOn(Changed(g), "changed", members[g])) \cup dropped
  BY DEF Manifest
<1>3. \A k : k \in (IF Shp(g).mode = "full_snapshot" /\ retire # {} THEN Removed(g) ELSE {})
               <=> \E r \in dropped : r.key = k
  <2>1. CASE Shp(g).mode = "full_snapshot" /\ retire # {}
    <3> DEFINE row == [k \in Key |-> fleet[k].attrs]
    <3>1. dropped = EffectsOn(Removed(g), "removed", row)
      BY <2>1
    <3>2. (IF Shp(g).mode = "full_snapshot" /\ retire # {} THEN Removed(g) ELSE {}) = Removed(g)
      BY <2>1
    <3> HIDE DEF dropped, row
    <3>3. \A k : k \in Removed(g) <=> \E r \in EffectsOn(Removed(g), "removed", row) : r.key = k
      BY <1>1
    <3> QED BY <3>1, <3>2, <3>3
  <2>2. CASE ~(Shp(g).mode = "full_snapshot" /\ retire # {})
    BY <2>2
  <2> QED BY <2>1, <2>2
<1> HIDE DEF dropped
<1>4. \A k : k \in TouchedBy(g) <=> \E r \in fx[g].manifest : r.key = k
  BY DEF TouchedBy
<1>5. \A k : k \in TouchedBy(g) <=>
               \/ \E r \in EffectsOn(Added(g), "added", members[g]) : r.key = k
               \/ \E r \in EffectsOn(Changed(g), "changed", members[g]) : r.key = k
               \/ \E r \in dropped : r.key = k
  BY <1>2, <1>4
<1> QED BY <1>1, <1>3, <1>5

\* A publication changes exactly the keys finish_job put in the manifest.
THEOREM ManifestIsKept == Spec => ManifestHonoured
<1>1. ASSUME HistoryInv, [Next]_vars, Publication, Shp(current').mode # "explicit_removal"
      PROVE  {k \in Key : fleet'[k] # fleet[k]} = TouchedBy(current')
  <2>1. PICK g \in Gen, op \in Op \cup {None} : Publish(g, op)
    BY <1>1, OnlyPublishAppends
  <2>2. /\ fleet' = FleetAfter(g) /\ current' = g
        /\ fx[g].retire = Retire(g, FALSE) /\ fx[g].manifest = Manifest(g, fx[g].retire)
        /\ Shp(g).scope # None /\ Shp(g).mode \in Mode
    BY <1>1, <2>1, PublishedAsCompared
  <2> DEFINE drops == Shp(g).mode = "full_snapshot" /\ fx[g].retire # {}
  <2>3. TouchedBy(g) = Added(g) \cup Changed(g) \cup IF drops THEN Removed(g) ELSE {}
    BY <2>2, ManifestKeys
  <2>4. ASSUME NEW k \in Key
        PROVE  fleet'[k] # fleet[k] <=> k \in TouchedBy(g)
    <3>1. /\ fleet[k].attrs = None => fleet[k] = NoRow
          /\ g # 0 /\ NoRow.attrs = None /\ NoRow.scope = None
      BY <1>1 DEF HistoryInv, RowsAreWhole, NoRow, Gen
    <3>2. CASE members[g][k] # None
      <4>1. FleetAfter(g)[k] = IF fleet[k].attrs = None \/ Differs(g, k)
                               THEN [attrs |-> members[g][k], gen |-> g, scope |-> Shp(g).scope]
                               ELSE fleet[k]
        BY <1>1, <2>2, <3>2 DEF FleetAfter, Candidate
      <4>2. k \in TouchedBy(g) <=> fleet[k].attrs = None \/ Differs(g, k)
        BY <2>3, <3>2 DEF Added, Changed, Removed, Candidate, InFleet
      <4>3. fleet[k].attrs = None \/ Differs(g, k) =>
              fleet[k] # [attrs |-> members[g][k], gen |-> g, scope |-> Shp(g).scope]
        BY <3>2 DEF Differs
      <4> QED BY <2>2, <4>1, <4>2, <4>3
    <3>3. CASE members[g][k] = None
      <4>1. FleetAfter(g)[k] = IF drops /\ fleet[k].scope = Shp(g).scope THEN NoRow ELSE fleet[k]
        BY <1>1, <2>2, <3>3 DEF FleetAfter, Candidate
      <4>2. k \in TouchedBy(g) <=> drops /\ fleet[k].attrs # None /\ fleet[k].scope = Shp(g).scope
        BY <2>3, <3>3 DEF Added, Changed, Removed, Candidate, InFleet
      <4> HIDE DEF drops
      <4> QED BY <2>2, <3>1, <4>1, <4>2
    <3> QED BY <3>2, <3>3
  <2> QED BY <2>2, <2>4, <2>3 DEF Added, Changed, Removed, Candidate, InFleet
<1>2. HistoryInv /\ [Next]_vars =>
        [Publication /\ Shp(current').mode # "explicit_removal" =>
           {k \in Key : fleet'[k] # fleet[k]} = TouchedBy(current')]_vars
  BY <1>1
<1> QED BY <1>2, HistoryIsSound, PTL DEF Spec, ManifestHonoured

-----------------------------------------------------------------------------
(* Refinement.                                                             *)

\* The tables implement one line of fleet versions.
THEOREM TablesRefineHistory == Spec => ImplementsFleetHistory
<1>1. Init => Line!Init
  BY DEF Init, Line!Init, History
<1>2. HistoryInv /\ [Next]_vars => [Line!Next]_<<History, fleet>>
  <2> SUFFICES ASSUME HistoryInv, [Next]_vars PROVE [Line!Next]_<<History, fleet>>
    OBVIOUS
  <2>1. ASSUME NEW g \in Gen, NEW op \in Op \cup {None}, Publish(g, op)
        PROVE  Line!Publish(g)
    <3>1. /\ current < g
          /\ Len(audit) \in Nat /\ DOMAIN audit = 1 .. Len(audit) /\ DOMAIN audit' = 1 .. Len(audit) + 1
          /\ \A n \in DOMAIN audit : audit'[n] = audit[n]
          /\ audit'[Len(audit) + 1] = [gen |-> g, op |-> op, base |-> current]
      BY <2>1, PublishAppends
    <3>2. \A n \in DOMAIN History : History[n] < g
      <4>1. \A n \in DOMAIN audit : audit[n].gen <= current /\ audit[n].gen \in Gen /\ current \in Nat
        BY PublishedAreOlder, AuditType, GenerationsAssumption, SMTT(20) DEF HistoryInv, TypeOK
      <4> QED BY <3>1, <4>1 DEF History, Gen
    <3>3. History' = Append(History, g)
      <4> DEFINE n == Len(audit)
      <4>1. /\ n \in Nat /\ History = [i \in 1 .. n |-> audit[i].gen]
            /\ History' = [i \in 1 .. n + 1 |-> audit'[i].gen]
        BY <3>1 DEF History
      <4>2. /\ \A i \in 1 .. n : audit'[i].gen = audit[i].gen
            /\ audit'[n + 1].gen = g
        BY <3>1
      <4> HIDE DEF n
      <4> QED BY <4>1, <4>2, SMTT(30)
    <3>4. fleet' = FleetAfter(g)
      BY <2>1 DEF Publish, Offered, Admitted, StatesAfter
    <3>5. fleet' = [k \in Key |-> fleet'[k]]
      BY <3>4 DEF FleetAfter
    <3>6. ASSUME NEW k \in Key
          PROVE  fleet'[k] = fleet[k] \/ fleet'[k] = NoRow \/ fleet'[k].gen = g
      <4>1. \/ fleet'[k] = fleet[k] \/ fleet'[k] = NoRow
            \/ fleet'[k] = [attrs |-> members[g][k], gen |-> g, scope |-> Shp(g).scope]
        BY <3>4, RowsAfter
      <4> QED BY <4>1
    <3> QED BY <3>2, <3>3, <3>5, <3>6 DEF Line!Publish
  <2>2. (\E g \in Gen, op \in Op \cup {None} : Publish(g, op)) \/ UNCHANGED <<audit, fleet>>
    BY DEF Next, Request, Analyse, CreateIntent, Submit, Abandon, Purge, JobMoves,
           Stage, FinishJob, Restage, vars
  <2>3. UNCHANGED <<audit, fleet>> => UNCHANGED <<History, fleet>>
    BY DEF History
  <2> QED BY <2>1, <2>2, <2>3 DEF Line!Next, Gen
<1> QED BY <1>1, <1>2, HistoryIsSound, PTL DEF Spec, ImplementsFleetHistory, Line!Spec
=============================================================================
