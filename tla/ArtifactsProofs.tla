-------------------------- MODULE ArtifactsProofs ---------------------------
(***************************************************************************)
(* Proofs about Review and Artifacts, for any clients, observations,       *)
(* analyses and selections, and any number of requests at the same time.   *)
(***************************************************************************)
EXTENDS Artifacts, WellFoundedInduction, TLAPS

-----------------------------------------------------------------------------
(* Types.                                                                  *)

Row     == [state : {"none", "recorded", "stale"}, decision : Decisions \cup {None},
            fp : Proposals \cup {None}, op : Op \cup {None},
            members : UNION {[S -> Nat] : S \in SUBSET Ordinal},
            shown : Proposals \cup {None}, era : 0 .. NAnalyses]

Ver     == 0 .. NAnalyses
Idle    == [request : {"none"}]
Asking  == [request : {"decide"}, op : Op \cup {None}, ver : Ver, fp : Proposals \cup {None},
            next : {"decide"}]
Redoing == [request : {"reanalyze"}, result : Analysis, at : Ordinal \cup {None},
            seen : ObsRow \cup {<<>>}, since : Ver, ver : Ver, fp : Proposals \cup {None},
            next : {"idle"}]
Making  == [request : {"build"}, key : Key, approval : Approval \cup {None}, existing : BOOLEAN,
            stale : BOOLEAN, agreed : Proposals \cup {None}, edits : SUBSET Edit, ver : Ver,
            fp : Proposals \cup {None}, next : {"begin", "drift"}]
Selecting == {l \in Making : l.next = "drift" /\ l.approval \in Approval}
Memory  == Idle \cup Asking \cup Redoing \cup Making

Ensuring  == {"version", "lookup", "fingerprint", "insert"}
Rewriting == {"stale", "bump", "read", "write"}
Building  == {"check", "drift", "linked", "begin", "edits", "rename", "publish", "failing"}

\* What a request remembers fits the place where it stands.
Fits(place, l) ==
  /\ place = "idle" => l \in Idle
  /\ place \in Ensuring => l \in Asking \cup Redoing \cup Making
  /\ place \in Ensuring \ {"version"} => l.ver \in Version
  /\ place = "insert" => l.fp \in Proposals
  /\ place = "decide" => l \in Asking
  /\ place \in Rewriting => l \in Redoing
  /\ place = "write" => l.at \in Ordinal /\ l.seen \in ObsRow
  /\ place \in Building => l \in Making
  /\ place \in {"check", "drift", "linked"} => l \in Selecting
  /\ place \in Ensuring /\ l.next = "drift" => l \in Selecting

TablesOK ==
  /\ analysis \in Version
  /\ obs \in [Ordinal -> ObsRow]
  /\ cs \in [Version -> Proposals \cup {None}]
  /\ apr \in [Approval -> Row]

PlacesOK ==
  /\ pc \in [Client -> Places] /\ loc \in [Client -> Memory]
  /\ \A c \in Client : Fits(pc[c], loc[c])

FilesOK ==
  /\ job \in {"awaiting_review", "exporting", "completed"}
  /\ art \in [Key -> ArtRow]
  /\ disk \in [Key -> {None, Mixed} \cup SUBSET Edit]
  /\ part \in [Key -> SUBSET Client]

Typed == TablesOK /\ PlacesOK /\ FilesOK

\* Every nonempty set of numbers has a least one.
LEMMA Least == ASSUME NEW S \in SUBSET Nat, S # {} PROVE \E m \in S : \A k \in S : m <= k
<1> DEFINE R == OpToRel(<, Nat)
<1>1. IsWellFoundedOn(R, Nat)
  BY NatLessThanWellFounded
<1> HIDE DEF R
<1>2. PICK m \in S : \A k \in S : <<k, m>> \notin R
  BY <1>1, WFMin
<1>3. \A k \in S : k < m => <<k, m>> \in R
  BY DEF R, OpToRel
<1>4. \A k \in S : ~(k < m)
  BY <1>2, <1>3, Zenon
<1> QED BY <1>4

\* A client goes to a place with a memory that fits it.
LEMMA GotoOK == ASSUME PlacesOK, NEW c \in Client, NEW place \in Places, NEW l \in Memory,
                       Goto(c, place, l), Fits(place, l)
                PROVE  PlacesOK'
<1>1. Blank \in Memory /\ Fits("idle", Blank)
  BY DEF Blank, Memory, Idle, Fits, Ensuring, Rewriting, Building
<1>2. pc' \in [Client -> Places] /\ loc' \in [Client -> Memory]
  BY <1>1 DEF Goto, PlacesOK
<1>3. ASSUME NEW d \in Client PROVE Fits(pc'[d], loc'[d])
  <2>1. CASE d # c
    BY <2>1 DEF Goto, PlacesOK
  <2>2. CASE d = c /\ place = "idle"
    BY <2>2, <1>1 DEF Goto, PlacesOK
  <2>3. CASE d = c /\ place # "idle"
    BY <2>3 DEF Goto, PlacesOK
  <2> QED BY <2>1, <2>2, <2>3
<1> QED BY <1>2, <1>3 DEF PlacesOK

\* A client at rest remembers nothing that could be wrong.
LEMMA GoIdle == ASSUME PlacesOK, NEW c \in Client, NEW l, Goto(c, "idle", l) PROVE PlacesOK'
<1>1. Goto(c, "idle", Blank)
  BY DEF Goto
<1>2. Blank \in Memory /\ Fits("idle", Blank) /\ "idle" \in Places
  BY DEF Blank, Memory, Idle, Fits, Ensuring, Rewriting, Building, Places
<1> QED BY <1>1, <1>2, GotoOK

\* What ensure_change_set writes into the memory of a request of any kind.
LEMMA Remembers == ASSUME NEW l \in Asking \cup Redoing \cup Making, NEW v \in Ver,
                          NEW f \in Proposals \cup {None}
                   PROVE  /\ [l EXCEPT !.ver = v] \in Asking \cup Redoing \cup Making
                          /\ [l EXCEPT !.fp = f] \in Asking \cup Redoing \cup Making
                          /\ [l EXCEPT !.fp = f, !.ver = v] \in Asking \cup Redoing \cup Making
                          /\ [l EXCEPT !.ver = v].ver = v /\ [l EXCEPT !.ver = v].fp = l.fp
                          /\ [l EXCEPT !.fp = f].fp = f /\ [l EXCEPT !.fp = f].ver = l.ver
<1>1. CASE l \in Asking
  BY <1>1 DEF Asking
<1>2. CASE l \in Redoing
  BY <1>2 DEF Redoing
<1>3. CASE l \in Making
  BY <1>3 DEF Making
<1> QED BY <1>1, <1>2, <1>3

\* What a request remembers stays what it was when it notes version and fingerprint.
LEMMA Remains == ASSUME NEW l \in Asking \cup Redoing \cup Making, NEW v \in Ver,
                        NEW f \in Proposals \cup {None},
                        NEW m \in {[l EXCEPT !.ver = v], [l EXCEPT !.fp = f],
                                   [l EXCEPT !.fp = f, !.ver = v]}
                 PROVE  /\ m.next = l.next
                        /\ l.next \in {"decide", "idle", "begin", "drift"}
                        /\ l.next = "decide" => m \in Asking
                        /\ l.next \in {"begin", "drift"} => m \in Making
                        /\ l \in Selecting => m \in Selecting
<1>1. CASE l \in Asking
  BY <1>1 DEF Asking, Selecting, Making
<1>2. CASE l \in Redoing
  BY <1>2 DEF Redoing, Selecting, Making
<1>3. CASE l \in Making
  BY <1>3, ZenonT(30) DEF Making, Selecting
<1> QED BY <1>1, <1>2, <1>3

\* A request keeps its kind and where it is heading while it ensures the
\* change set.
LEMMA EnsureTypes == ASSUME Typed, NEW c \in Client, EnsureChangeSet(c) PROVE TablesOK' /\ PlacesOK'
<1> DEFINE Any == Asking \cup Redoing \cup Making
<1> USE DEF reviewVars
<1>1. loc[c] \in Any /\ pc[c] \in Ensuring /\ Any \subseteq Memory /\ Ensuring \subseteq Places
  BY DEF EnsureChangeSet, ReadVersion, FindChangeSet, TakeFingerprint, InsertChangeSet, Typed, PlacesOK,
     Fits, Ensuring, Memory, Places
<1>2. 0 \in Ver /\ Version \subseteq Ver /\ analysis \in Version
  BY ReviewAssumption DEF Ver, Version, Typed, TablesOK
<1>3. loc[c].next = "drift" => loc[c] \in Selecting
  BY <1>1 DEF Typed, PlacesOK, Fits
<1>4. CASE ReadVersion(c)
  <2> DEFINE m == [loc[c] EXCEPT !.ver = analysis]
  <2>1. Goto(c, "lookup", m) /\ TablesOK'
    BY <1>4 DEF ReadVersion, Typed, TablesOK
  <2>2. m \in Any /\ m.ver \in Version
    BY <1>1, <1>2, Remembers
  <2>3. m.next = "drift" => m \in Selecting
    BY <1>1, <1>2, <1>3, Remains
  <2>4. Fits("lookup", m) /\ "lookup" \in Places
    BY <1>1, <2>2, <2>3 DEF Fits, Ensuring, Rewriting, Building
  <2> QED BY <1>1, <2>1, <2>2, <2>4, GotoOK DEF Typed
<1>5. CASE FindChangeSet(c)
  <2> DEFINE m == [loc[c] EXCEPT !.fp = cs[loc[c].ver], !.ver = 0]
  <2>1. TablesOK' /\ loc[c].ver \in Version /\ cs[loc[c].ver] \in Proposals \cup {None}
    BY <1>5 DEF FindChangeSet, Typed, TablesOK, PlacesOK, Fits, Ensuring
  <2>2. CASE Goto(c, "fingerprint", loc[c])
    <3>1. Fits("fingerprint", loc[c]) /\ "fingerprint" \in Places
      BY <1>1, <1>3, <2>1 DEF Fits, Ensuring, Rewriting, Building
    <3> QED BY <1>1, <2>1, <2>2, <3>1, GotoOK DEF Typed
  <2>3. CASE Goto(c, loc[c].next, m)
    <3>1. m \in Any
      BY <1>1, <1>2, <2>1, Remembers
    <3>2. /\ m.next = loc[c].next /\ loc[c].next \in {"decide", "idle", "begin", "drift"}
          /\ loc[c].next = "decide" => m \in Asking
          /\ loc[c].next \in {"begin", "drift"} => m \in Making
          /\ loc[c].next = "drift" => m \in Selecting
      BY <1>1, <1>2, <1>3, <2>1, Remains
    <3> HIDE DEF m
    <3>3. CASE loc[c].next = "idle"
      BY <2>1, <2>3, <3>3, GoIdle DEF Typed
    <3>4. CASE loc[c].next # "idle"
      <4>1. Fits(loc[c].next, m) /\ loc[c].next \in Places
        BY <3>2, <3>4 DEF Fits, Ensuring, Rewriting, Building, Places
      <4> QED BY <1>1, <2>1, <2>3, <3>1, <4>1, GotoOK DEF Typed
    <3> QED BY <3>3, <3>4
  <2> QED BY <1>5, <2>2, <2>3 DEF FindChangeSet
<1>6. CASE TakeFingerprint(c)
  <2> DEFINE m == [loc[c] EXCEPT !.fp = Fingerprint]
  <2>1. Goto(c, "insert", m) /\ TablesOK' /\ loc[c].ver \in Version
    BY <1>6 DEF TakeFingerprint, Typed, TablesOK, PlacesOK, Fits, Ensuring
  <2>2. Fingerprint \in Proposals
    BY DEF Fingerprint, Proposals, Typed, TablesOK, ObsRow
  <2>3. m \in Any /\ m.ver \in Version /\ m.fp \in Proposals
    <3>1. Fingerprint \in Proposals \cup {None} /\ 0 \in Ver
      BY <1>2, <2>2
    <3>2. m \in Any /\ m.fp = Fingerprint /\ m.ver = loc[c].ver
      BY <1>1, <3>1, Remembers, ZenonT(30)
    <3> QED BY <2>1, <2>2, <3>2
  <2>4. m.next = "drift" => m \in Selecting
    BY <1>1, <1>2, <1>3, <2>2, Remains
  <2>5. Fits("insert", m) /\ "insert" \in Places
    BY <1>1, <2>3, <2>4 DEF Fits, Ensuring, Rewriting, Building
  <2> QED BY <1>1, <2>1, <2>3, <2>5, GotoOK DEF Typed
<1>7. CASE InsertChangeSet(c)
  <2> DEFINE m == [loc[c] EXCEPT !.ver = 0]
  <2>1. Goto(c, loc[c].next, m)
    BY <1>7 DEF InsertChangeSet
  <2>2. TablesOK'
    <3>1. loc[c].ver \in Version /\ loc[c].fp \in Proposals
      BY <1>7 DEF InsertChangeSet, Typed, PlacesOK, Fits, Ensuring
    <3> QED BY <1>7, <3>1 DEF InsertChangeSet, Typed, TablesOK
  <2>3. m \in Any
    BY <1>1, <1>2, Remembers
  <2>4. /\ loc[c].next \in {"decide", "idle", "begin", "drift"}
        /\ loc[c].next = "decide" => m \in Asking
        /\ loc[c].next \in {"begin", "drift"} => m \in Making
        /\ loc[c].next = "drift" => m \in Selecting
    BY <1>1, <1>2, <1>3, Remains
  <2> HIDE DEF m
  <2>5. CASE loc[c].next = "idle"
    BY <2>1, <2>2, <2>5, GoIdle DEF Typed
  <2>6. CASE loc[c].next # "idle"
    <3>1. Fits(loc[c].next, m) /\ loc[c].next \in Places
      BY <2>4, <2>6 DEF Fits, Ensuring, Rewriting, Building, Places
    <3> QED BY <1>1, <2>1, <2>2, <2>3, <3>1, GotoOK DEF Typed
  <2> QED BY <2>5, <2>6
<1> QED BY <1>4, <1>5, <1>6, <1>7 DEF EnsureChangeSet

\* The row of a decision: what it froze is typed.
LEMMA DecidedRow ==
  ASSUME Typed, NEW c \in Client, pc[c] = "decide", NEW d \in Decisions, NEW selected \in SUBSET Ordinal
  PROVE  [state |-> "recorded", decision |-> d, fp |-> loc[c].fp, op |-> loc[c].op,
          members |-> [o \in selected |-> obs[o].version + 1],
          shown |-> Fingerprint, era |-> analysis] \in Row
<1>1. loc[c].fp \in Proposals \cup {None} /\ loc[c].op \in Op \cup {None}
  BY DEF Typed, PlacesOK, Fits, Asking
<1>2. Fingerprint \in Proposals /\ analysis \in 0 .. NAnalyses
  BY ReviewAssumption DEF Fingerprint, Proposals, Typed, TablesOK, ObsRow, Version
<1>3. [o \in selected |-> obs[o].version + 1] \in [selected -> Nat]
  BY DEF Typed, TablesOK, ObsRow
<1>4. [o \in selected |-> obs[o].version + 1] \in UNION {[S -> Nat] : S \in SUBSET Ordinal}
  BY <1>3
<1> HIDE DEF Fingerprint
<1> QED BY <1>1, <1>2, <1>4 DEF Row

\* A decision keeps the observations typed.
LEMMA BumpedTypes == ASSUME TablesOK, NEW selected \in SUBSET Ordinal, NEW d \in Decisions
                     PROVE  Bumped(selected, d) \in [Ordinal -> ObsRow]
<1>1. ASSUME NEW o \in Ordinal
      PROVE  [obs[o] EXCEPT !.decision = d, !.version = obs[o].version + 1] \in ObsRow
  <2> DEFINE decided == [obs[o] EXCEPT !.decision = d]
  <2>1. decided \in ObsRow /\ obs[o].version + 1 \in Nat \ {0}
    BY <1>1 DEF TablesOK, ObsRow
  <2>2. [obs[o] EXCEPT !.decision = d, !.version = obs[o].version + 1]
        = [decided EXCEPT !.version = obs[o].version + 1]
    OBVIOUS
  <2> HIDE DEF decided
  <2>3. [decided EXCEPT !.version = obs[o].version + 1] \in ObsRow
    BY <2>1 DEF ObsRow
  <2> QED BY <2>2, <2>3
<1> QED BY <1>1 DEF Bumped, TablesOK

\* The steps of requests keep the types of tables and places.
LEMMA ReviewTypes == ASSUME Typed, NEW c \in Client, Request(c) PROVE TablesOK' /\ PlacesOK'
<1> USE DEF reviewVars
<1>0. 0 \in Ver /\ Version \subseteq Ver /\ None \in Op \cup {None} /\ None \in Proposals \cup {None}
  BY ReviewAssumption DEF Ver, Version
<1>1. CASE GiveUp(c)
  BY <1>1, GoIdle DEF GiveUp, Typed, TablesOK
<1>2. CASE EnsureChangeSet(c)
  BY <1>2, EnsureTypes
<1>3. ASSUME NEW op \in Op \cup {None}, BeginDecide(c, op) PROVE TablesOK' /\ PlacesOK'
  <2> DEFINE l == [request |-> "decide", op |-> op, ver |-> 0, fp |-> None, next |-> "decide"]
  <2>1. l \in Asking /\ l.next = "decide"
    BY <1>0 DEF Asking
  <2>2. Goto(c, "version", l) /\ TablesOK'
    BY <1>3 DEF BeginDecide, Typed, TablesOK
  <2> HIDE DEF l
  <2>3. Fits("version", l) /\ "version" \in Places /\ l \in Memory
    BY <2>1 DEF Fits, Ensuring, Rewriting, Building, Places, Memory
  <2> QED BY <2>2, <2>3, GotoOK DEF Typed
<1>4. ASSUME NEW filter \in SUBSET Ordinal, NEW population \in Populations, NEW d \in Decisions,
             Decide(c, filter, population, d)
      PROVE  TablesOK' /\ PlacesOK'
  <2> DEFINE selected == Selection(filter, population)
  <2>1. selected \in SUBSET Ordinal
    BY DEF Selection
  <2>2. PICK a \in Approval : apr' = [apr EXCEPT ![a] =
                 [state |-> "recorded", decision |-> d, fp |-> loc[c].fp, op |-> loc[c].op,
                  members |-> [o \in selected |-> obs[o].version + 1],
                  shown |-> Fingerprint, era |-> analysis]]
    BY <1>4 DEF Decide
  <2>3. pc[c] = "decide" /\ obs' = Bumped(selected, d) /\ Goto(c, "idle", Blank) /\ UNCHANGED <<job, analysis, cs>>
    BY <1>4 DEF Decide
  <2> HIDE DEF selected
  <2>4. apr' \in [Approval -> Row]
    BY <2>1, <2>2, <2>3, DecidedRow DEF Typed, TablesOK
  <2>5. obs' \in [Ordinal -> ObsRow]
    BY <2>1, <2>3, BumpedTypes DEF Typed
  <2> QED BY <2>3, <2>4, <2>5, GoIdle DEF Typed, TablesOK
<1>5. ASSUME NEW result \in Analysis, BeginReanalysis(c, result) PROVE TablesOK' /\ PlacesOK'
  <2> DEFINE l == [request |-> "reanalyze", result |-> result, at |-> None, seen |-> <<>>,
                   since |-> 0, ver |-> 0, fp |-> None, next |-> "idle"]
  <2>1. l \in Redoing
    BY <1>0 DEF Redoing
  <2>2. Goto(c, "stale", l) /\ TablesOK'
    BY <1>5 DEF BeginReanalysis, Typed, TablesOK
  <2> HIDE DEF l
  <2>3. Fits("stale", l) /\ "stale" \in Places /\ l \in Memory
    BY <2>1 DEF Fits, Ensuring, Rewriting, Building, Places, Memory
  <2> QED BY <2>2, <2>3, GotoOK DEF Typed
<1>6. ASSUME pc[c] \in Rewriting
      PROVE  /\ loc[c] \in Redoing
             /\ \A l \in Redoing : /\ l \in Memory
                                   /\ \A p \in {"bump", "read"} : Fits(p, l) /\ p \in Places
                                   /\ l.at \in Ordinal /\ l.seen \in ObsRow => Fits("write", l)
                                   /\ Fits("version", l)
  <2>1. \A l \in Redoing : l.next = "idle"
    BY DEF Redoing
  <2> QED BY <1>6, <2>1 DEF Typed, PlacesOK, Fits, Ensuring, Rewriting, Building, Places, Memory
<1>7. CASE MarkStale(c)
  <2>1. apr' \in [Approval -> Row]
    <3>1. ASSUME NEW a \in Approval PROVE [apr[a] EXCEPT !.state = "stale"] \in Row
      BY <3>1 DEF Typed, TablesOK, Row
    <3> QED BY <1>7, <3>1 DEF MarkStale, Typed, TablesOK
  <2> QED BY <1>6, <1>7, <2>1, GotoOK DEF MarkStale, Typed, TablesOK, Rewriting
<1>8. CASE BumpAnalysis(c)
  <2>1. analysis + 1 \in Version /\ analysis + 1 \in Ver
    BY <1>8, ReviewAssumption DEF BumpAnalysis, Typed, TablesOK, Version, Ver
  <2>2. pc[c] \in Rewriting
    BY <1>8 DEF BumpAnalysis, Rewriting
  <2>3. [loc[c] EXCEPT !.since = analysis + 1] \in Redoing
    BY <1>6, <2>1, <2>2 DEF Redoing
  <2> QED BY <1>6, <1>8, <2>1, <2>2, <2>3, GotoOK DEF BumpAnalysis, Typed, TablesOK
<1>9. CASE ReadBatch(c)
  <2>1. pc[c] \in Rewriting /\ TablesOK' /\ "version" \in Places /\ "write" \in Places
    BY <1>9 DEF ReadBatch, Rewriting, Typed, TablesOK, Places
  <2>2. CASE Goto(c, "version", loc[c])
    BY <1>6, <2>1, <2>2, GotoOK DEF Typed
  <2>3. CASE Rest(c) # {}
    <3> DEFINE o == CHOOSE o \in Rest(c) : \A p \in Rest(c) : o <= p
               l == [loc[c] EXCEPT !.at = o, !.seen = obs[o]]
    <3>1. Rest(c) \in SUBSET Nat /\ Rest(c) \subseteq Ordinal
      BY ReviewAssumption DEF Rest
    <3>2. o \in Ordinal
      BY <2>3, <3>1, Least
    <3>3. Goto(c, "write", l)
      BY <1>9, <2>3 DEF ReadBatch
    <3> HIDE DEF o
    <3>4. obs[o] \in ObsRow
      BY <3>2 DEF Typed, TablesOK
    <3>5. l \in Redoing /\ l.at = o /\ l.seen = obs[o]
      BY <1>6, <2>1, <3>2, <3>4 DEF Redoing
    <3> HIDE DEF l
    <3> QED BY <1>6, <2>1, <3>2, <3>3, <3>4, <3>5, GotoOK DEF Typed
  <2> QED BY <1>9, <2>2, <2>3 DEF ReadBatch
<1>10. CASE WriteBatch(c)
  <2>1. pc[c] \in Rewriting /\ loc[c].at \in Ordinal
    BY <1>10 DEF WriteBatch, Rewriting, Typed, PlacesOK, Fits
  <2>2. loc[c].result[loc[c].at] \in Cand \cup {None}
    BY <1>6, <2>1, ReviewAssumption, ZenonT(30) DEF Redoing
  <2>3. obs' \in [Ordinal -> ObsRow]
    <3> DEFINE o == loc[c].at
               new == [cand |-> loc[c].result[o], decision |-> "proposed", version |-> obs[o].version + 1]
    <3>1. new \in ObsRow
      BY <2>1, <2>2 DEF ObsRow, Typed, TablesOK
    <3>2. obs' = [obs EXCEPT ![o] = new] \/ obs' = obs
      BY <1>10 DEF WriteBatch
    <3> HIDE DEF new
    <3> QED BY <2>1, <3>1, <3>2 DEF Typed, TablesOK
  <2>4. [loc[c] EXCEPT !.seen = <<>>] \in Redoing
    BY <1>6, <2>1 DEF Redoing
  <2>5. Goto(c, "read", [loc[c] EXCEPT !.seen = <<>>]) /\ UNCHANGED <<job, analysis, cs, apr>>
    BY <1>10 DEF WriteBatch
  <2> QED BY <1>6, <2>1, <2>3, <2>4, <2>5, GotoOK DEF Typed, TablesOK
<1> QED BY <1>1, <1>2, <1>3, <1>4, <1>5, <1>7, <1>8, <1>9, <1>10 DEF Request

\* What a build writes into its memory.
LEMMA BuildRemembers ==
  ASSUME NEW l \in Making, NEW b \in BOOLEAN, NEW f \in Proposals \cup {None}, NEW E \in SUBSET Edit
  PROVE  /\ [l EXCEPT !.stale = b, !.agreed = f] \in Making
         /\ [l EXCEPT !.agreed = f, !.fp = f] \in Making
         /\ [l EXCEPT !.existing = b, !.fp = f] \in Making
         /\ [l EXCEPT !.next = "begin"] \in Making /\ [l EXCEPT !.next = "begin"].next = "begin"
         /\ [l EXCEPT !.edits = E] \in Making
         /\ l \in Selecting => /\ [l EXCEPT !.stale = b, !.agreed = f] \in Selecting
                               /\ [l EXCEPT !.agreed = f, !.fp = f] \in Selecting
BY DEF Making, Selecting

\* The steps of builds keep the types of tables and places.
LEMMA BuildTypes == ASSUME Typed, NEW c \in Client, Build(c) PROVE TablesOK' /\ PlacesOK'
<1> USE DEF reviewVars
<1>0. /\ 0 \in Ver /\ None \in Proposals \cup {None} /\ {} \in SUBSET Edit
      /\ Making \subseteq Memory /\ Selecting \subseteq Making
      /\ Building \cup Ensuring \subseteq Places
  BY ReviewAssumption DEF Ver, Memory, Selecting, Ensuring, Building, Places
<1>11. ASSUME NEW l \in Making
       PROVE  /\ Fits("edits", l) /\ Fits("rename", l) /\ Fits("publish", l) /\ Fits("failing", l)
              /\ l.next = "begin" => Fits("version", l)
  BY <1>11 DEF Fits, Ensuring, Rewriting, Building
<1>12. ASSUME NEW l \in Selecting
       PROVE  Fits("version", l) /\ Fits("check", l) /\ Fits("drift", l) /\ Fits("linked", l)
  BY <1>12 DEF Fits, Ensuring, Rewriting, Building, Selecting
<1>13. /\ "version" \in Places /\ "check" \in Places /\ "linked" \in Places /\ "edits" \in Places
       /\ "rename" \in Places /\ "publish" \in Places /\ "failing" \in Places
  BY DEF Places
<1>1. TablesOK'
  BY DEF Build, BeginBuild, CheckApproval, CheckDrift, CheckLinked, BeginWriting, ReadEdits, Rename,
     MakeReady, StartFailing, FailBuild, CrashBuild, Typed, TablesOK
<1> SUFFICES PlacesOK'
  BY <1>1
<1>10. ASSUME NEW p \in Places, NEW l \in Making, Goto(c, p, l), Fits(p, l) PROVE PlacesOK'
  BY <1>0, <1>10, GotoOK DEF Typed
<1>2. ASSUME NEW k \in Key, NEW a \in Approval \cup {None}, BeginBuild(c, k, a) PROVE PlacesOK'
  <2> DEFINE l == [request |-> "build", key |-> k, approval |-> a, existing |-> art[k].state # "none",
                   stale |-> FALSE, agreed |-> None, edits |-> {}, ver |-> 0, fp |-> None,
                   next |-> IF a = None THEN "begin" ELSE "drift"]
  <2>1. l \in Making /\ (a = None => l.next = "begin") /\ (a # None => l \in Selecting)
    BY <1>0 DEF Making, Selecting
  <2>2. Goto(c, IF a = None THEN "version" ELSE "check", l)
    BY <1>2 DEF BeginBuild
  <2> HIDE DEF l
  <2>3. CASE a = None
    <3>1. Goto(c, "version", l)
      BY <2>2, <2>3
    <3> QED BY <2>1, <2>3, <3>1, <1>10, <1>11, <1>13
  <2>4. CASE a # None
    <3>1. Goto(c, "check", l)
      BY <2>2, <2>4
    <3> QED BY <1>0, <2>1, <2>4, <3>1, <1>10, <1>12, <1>13
  <2> QED BY <2>3, <2>4
<1>3. CASE CheckApproval(c)
  <2> DEFINE b == apr[loc[c].approval].state = "stale"
             f == apr[loc[c].approval].fp
  <2>1. loc[c] \in Selecting /\ Goto(c, "version", [loc[c] EXCEPT !.stale = b, !.agreed = f])
    BY <1>3 DEF CheckApproval, Typed, PlacesOK, Fits
  <2>2. f \in Proposals \cup {None} /\ b \in BOOLEAN
    BY <2>1 DEF Selecting, Typed, TablesOK, Row
  <2> HIDE DEF b, f
  <2>3. [loc[c] EXCEPT !.stale = b, !.agreed = f] \in Selecting
    BY <1>0, <2>1, <2>2, BuildRemembers
  <2> QED BY <1>0, <2>1, <2>3, <1>10, <1>12, <1>13
<1>4. CASE CheckDrift(c)
  <2>1. loc[c] \in Selecting /\ Goto(c, "linked", [loc[c] EXCEPT !.agreed = None, !.fp = None])
    BY <1>4 DEF CheckDrift, Typed, PlacesOK, Fits
  <2>2. [loc[c] EXCEPT !.agreed = None, !.fp = None] \in Selecting
    BY <1>0, <2>1, BuildRemembers
  <2> QED BY <1>0, <2>1, <2>2, <1>10, <1>12, <1>13
<1>5. CASE CheckLinked(c)
  <2>1. loc[c] \in Making /\ Goto(c, "version", [loc[c] EXCEPT !.next = "begin"])
    BY <1>5 DEF CheckLinked, Typed, PlacesOK, Fits, Building
  <2>2. [loc[c] EXCEPT !.next = "begin"] \in Making /\ [loc[c] EXCEPT !.next = "begin"].next = "begin"
    BY <1>0, <2>1, BuildRemembers
  <2> QED BY <2>1, <2>2, <1>10, <1>11, <1>13
<1>6. CASE BeginWriting(c)
  <2>1. loc[c] \in Making /\ Goto(c, "edits", [loc[c] EXCEPT !.existing = FALSE, !.fp = None])
    BY <1>6 DEF BeginWriting, Typed, PlacesOK, Fits, Building
  <2>2. [loc[c] EXCEPT !.existing = FALSE, !.fp = None] \in Making
    BY <1>0, <2>1, BuildRemembers
  <2> QED BY <2>1, <2>2, <1>10, <1>11, <1>13
<1>7. CASE ReadEdits(c)
  <2> DEFINE E == IF loc[c].approval = None THEN {} ELSE {<<o, obs[o].cand>> : o \in Covered(loc[c].approval)}
  <2>1. loc[c] \in Making /\ Goto(c, "rename", [loc[c] EXCEPT !.edits = E])
    BY <1>7 DEF ReadEdits, Typed, PlacesOK, Fits, Building
  <2>2. E \in SUBSET Edit
    <3>1. ASSUME NEW o \in Covered(loc[c].approval), loc[c].approval # None
          PROVE  <<o, obs[o].cand>> \in Edit
      <4>1. loc[c].approval \in Approval
        BY <2>1, <3>1 DEF Making
      <4>2. DOMAIN apr[loc[c].approval].members \subseteq Ordinal
        BY <4>1 DEF Typed, TablesOK, Row
      <4>3. o \in Ordinal /\ obs[o].cand # None
        BY <3>1, <4>2 DEF Covered
      <4> QED BY <4>3 DEF Typed, TablesOK, ObsRow, Edit
    <3> QED BY <3>1
  <2> HIDE DEF E
  <2>3. [loc[c] EXCEPT !.edits = E] \in Making
    BY <1>0, <2>1, <2>2, BuildRemembers
  <2> QED BY <2>1, <2>3, <1>10, <1>11, <1>13
<1>8. CASE Rename(c) \/ StartFailing(c)
  <2>1. loc[c] \in Making /\ \E p \in {"failing", "publish"} : Goto(c, p, loc[c])
    BY <1>8 DEF Rename, StartFailing, Typed, PlacesOK, Fits, Building
  <2> QED BY <2>1, <1>10, <1>11, <1>13
<1>9. CASE MakeReady(c) \/ FailBuild(c) \/ CrashBuild(c)
  BY <1>9, GoIdle DEF MakeReady, FailBuild, CrashBuild, Typed
<1> QED BY <1>2, <1>3, <1>4, <1>5, <1>6, <1>7, <1>8, <1>9 DEF Build

\* The steps of builds keep the types of artifacts and files.
LEMMA FileTypes == ASSUME Typed, NEW c \in Client, Build(c) PROVE FilesOK'
<1> USE DEF reviewVars
<1>1. pc[c] \in Building => loc[c].key \in Key /\ loc[c].approval \in Approval \cup {None} /\ loc[c].edits \subseteq Edit
  BY DEF Typed, PlacesOK, Fits, Making
<1>2. CASE \E k \in Key, a \in Approval \cup {None} : BeginBuild(c, k, a)
  BY <1>2 DEF BeginBuild, buildVars, Typed, FilesOK
<1>3. CASE CheckApproval(c) \/ CheckDrift(c) \/ CheckLinked(c)
  BY <1>3 DEF CheckApproval, CheckDrift, CheckLinked, buildVars, Typed, FilesOK
<1>4. CASE BeginWriting(c)
  <2> DEFINE k == loc[c].key
             r == [art[k] EXCEPT !.state = "building",
                                 !.approval = IF loc[c].existing THEN art[k].approval ELSE loc[c].approval]
  <2>1. k \in Key /\ art[k] \in ArtRow /\ loc[c].approval \in Approval \cup {None}
    BY <1>1, <1>4 DEF BeginWriting, Building, Typed, FilesOK
  <2>2. r \in ArtRow
    <3> DEFINE q == [art[k] EXCEPT !.state = "building"]
               a == IF loc[c].existing THEN art[k].approval ELSE loc[c].approval
    <3>1. q \in ArtRow /\ a \in Approval \cup {None}
      BY <2>1 DEF ArtRow
    <3>2. r = [q EXCEPT !.approval = a]
      OBVIOUS
    <3> HIDE DEF q, a, r
    <3>3. [q EXCEPT !.approval = a] \in ArtRow
      BY <3>1 DEF ArtRow
    <3> QED BY <3>2, <3>3
  <2>3. art' = [art EXCEPT ![k] = r]
    BY <1>4, <2>1 DEF BeginWriting, Typed, FilesOK
  <2> HIDE DEF r
  <2>4. art' \in [Key -> ArtRow]
    BY <2>1, <2>2, <2>3 DEF Typed, FilesOK
  <2> QED BY <1>4, <2>4 DEF BeginWriting, Typed, FilesOK
<1>5. CASE ReadEdits(c) \/ StartFailing(c)
  <2>1. loc[c].key \in Key
    BY <1>1, <1>5 DEF ReadEdits, StartFailing, Building
  <2> QED BY <1>5, <2>1 DEF ReadEdits, StartFailing, Typed, FilesOK
<1>6. CASE Rename(c)
  <2>1. loc[c].key \in Key /\ loc[c].edits \in SUBSET Edit
    BY <1>1, <1>6 DEF Rename, Building
  <2> QED BY <1>6, <2>1 DEF Rename, Typed, FilesOK, Mixed
<1>7. CASE MakeReady(c)
  <2> DEFINE k == loc[c].key
             r == [art[k] EXCEPT !.state = "ready", !.by = loc[c].approval, !.edits = loc[c].edits]
  <2>1. k \in Key /\ art[k] \in ArtRow /\ loc[c].approval \in Approval \cup {None} /\ loc[c].edits \subseteq Edit
    BY <1>1, <1>7 DEF MakeReady, Building, Typed, FilesOK
  <2>2. r \in ArtRow
    BY <2>1 DEF ArtRow
  <2>3. \A i \in Key : [art[i] EXCEPT !.state = "superseded"] \in ArtRow
    BY DEF ArtRow, Typed, FilesOK
  <2>4. art' = Superseding(k, r)
    BY <1>7 DEF MakeReady
  <2> HIDE DEF r
  <2>5. art' \in [Key -> ArtRow]
    BY <2>2, <2>3, <2>4 DEF Superseding, Typed, FilesOK
  <2> QED BY <1>7, <2>5 DEF MakeReady, Typed, FilesOK
<1>8. CASE FailBuild(c)
  <2>1. loc[c].key \in Key
    BY <1>1, <1>8 DEF FailBuild, Building
  <2>2. art' \in [Key -> ArtRow]
    BY <1>8, <2>1, SMTT(20) DEF FailBuild, Typed, FilesOK, ArtRow
  <2> QED BY <1>8, <2>2 DEF FailBuild, Typed, FilesOK
<1>9. CASE CrashBuild(c)
  BY <1>9 DEF CrashBuild, Typed, FilesOK
<1> QED BY <1>2, <1>3, <1>4, <1>5, <1>6, <1>7, <1>8, <1>9 DEF Build

\* Every step keeps the types.
LEMMA TypedStep == ASSUME Typed, [Next]_vars PROVE Typed'
<1>1. ASSUME NEW c \in Client, Build(c) PROVE Typed'
  BY <1>1, BuildTypes, FileTypes DEF Typed
<1>2. ASSUME NEW c \in Client, Request(c), UNCHANGED buildVars PROVE Typed'
  <2>1. job' = job
    BY <1>2 DEF Request, GiveUp, EnsureChangeSet, ReadVersion, FindChangeSet, TakeFingerprint, InsertChangeSet,
       BeginDecide, Decide, BeginReanalysis, MarkStale, BumpAnalysis, ReadBatch, WriteBatch, reviewVars
  <2> QED BY <1>2, <2>1, ReviewTypes DEF Typed, FilesOK, buildVars
<1>3. CASE WorkerPresents \/ UNCHANGED vars
  BY <1>3 DEF WorkerPresents, vars, reviewVars, clientVars, buildVars, Typed, TablesOK, PlacesOK, FilesOK
<1> QED BY <1>1, <1>2, <1>3 DEF Next

\* They hold at first.
LEMMA TypedInit == ASSUME InitArtifacts PROVE Typed
<1> USE DEF InitArtifacts, Init
<1>1. NoApproval \in Row
  <2>1. <<>> \in [{} -> Nat]
    OBVIOUS
  <2>2. <<>> \in UNION {[S -> Nat] : S \in SUBSET Ordinal}
    BY <2>1
  <2>3. 0 \in 0 .. NAnalyses /\ "none" \in {"none", "recorded", "stale"}
    BY ReviewAssumption
  <2> DEFINE empty == <<>>
  <2>4. NoApproval = [state |-> "none", decision |-> None, fp |-> None, op |-> None,
                      members |-> empty, shown |-> None, era |-> 0]
    BY DEF NoApproval
  <2> HIDE DEF empty
  <2>5. empty \in UNION {[S -> Nat] : S \in SUBSET Ordinal}
    BY <2>2 DEF empty
  <2> QED BY <2>3, <2>4, <2>5 DEF Row
<1>2. TablesOK
  BY <1>1, ReviewAssumption DEF TablesOK, ObsRow, Version, Proposals
<1>3. PlacesOK
  BY DEF PlacesOK, Places, Memory, Idle, Blank, Fits, Ensuring, Rewriting, Building
<1>4. FilesOK
  BY DEF FilesOK, ArtRow, NoArtifact
<1> QED BY <1>2, <1>3, <1>4 DEF Typed

-----------------------------------------------------------------------------
(* Decisions.                                                              *)

UnusedAreEmpty == \A a \in Approval : apr[a].state = "none" => DOMAIN apr[a].members = {}

OnlyProposalsAreDecided == \A o \in Ordinal : obs[o].decision # "proposed" => obs[o].cand # None

Ledger == UnusedAreEmpty /\ OnlyProposalsAreDecided /\ DecisionIsRecorded

\* Which actions touch the observations or the approvals.
LEMMA Writers ==
  ASSUME [Next]_vars
  PROVE  \/ UNCHANGED <<obs, apr>>
         \/ \E c \in Client : MarkStale(c) \/ WriteBatch(c)
         \/ \E c \in Client, filter \in SUBSET Ordinal, population \in Populations, d \in Decisions :
              Decide(c, filter, population, d)
<1>1. ASSUME NEW c \in Client, Build(c) PROVE UNCHANGED <<obs, apr>>
  BY <1>1 DEF Build, BeginBuild, CheckApproval, CheckDrift, CheckLinked, BeginWriting, ReadEdits, Rename,
     MakeReady, StartFailing, FailBuild, CrashBuild, reviewVars
<1>2. ASSUME NEW c \in Client,
             \/ GiveUp(c) \/ EnsureChangeSet(c) \/ BumpAnalysis(c) \/ ReadBatch(c)
             \/ \E op \in Op \cup {None} : BeginDecide(c, op)
             \/ \E result \in Analysis : BeginReanalysis(c, result)
      PROVE  UNCHANGED <<obs, apr>>
  BY <1>2 DEF GiveUp, EnsureChangeSet, ReadVersion, FindChangeSet, TakeFingerprint, InsertChangeSet,
     BumpAnalysis, ReadBatch, BeginDecide, BeginReanalysis, reviewVars
<1>3. CASE WorkerPresents \/ UNCHANGED vars
  BY <1>3 DEF WorkerPresents, vars, reviewVars
<1> QED BY <1>1, <1>2, <1>3 DEF Next, Request

\* A fresh approval a holds the next version of what it selected.
Froze(a, selected, d) ==
  /\ apr[a].state = "none" /\ apr'[a].state = "recorded" /\ apr'[a].decision = d
  /\ DOMAIN apr'[a].members = selected /\ DOMAIN apr[a].members = {}
  /\ \A o \in selected : /\ apr'[a].members[o] = obs[o].version + 1
                         /\ apr'[a].shown[o] = obs[o].cand /\ obs[o].cand # None
                         /\ obs'[o].cand = obs[o].cand /\ obs'[o].decision = d
                         /\ obs'[o].version = obs[o].version + 1
  /\ apr'[a].era = analysis
  /\ \A b \in Approval \ {a} : apr'[b] = apr[b]
  /\ \A o \in Ordinal \ selected : obs'[o] = obs[o]

\* What a decision does: a fresh approval holds the next version of what it
\* selected, and nothing else changes.
LEMMA DecideDoes ==
  ASSUME Typed, Ledger, NEW c \in Client, NEW filter \in SUBSET Ordinal, NEW population \in Populations,
         NEW d \in Decisions, Decide(c, filter, population, d)
  PROVE  \E a \in Approval, selected \in SUBSET Ordinal : Froze(a, selected, d)
<1> DEFINE selected == Selection(filter, population)
<1>1. selected \in SUBSET Ordinal /\ \A o \in selected : obs[o].cand # None
  BY DEF Selection
<1>2. PICK a \in Approval :
        /\ apr[a].state = "none"
        /\ apr' = [apr EXCEPT ![a] =
             [state |-> "recorded", decision |-> d, fp |-> loc[c].fp, op |-> loc[c].op,
              members |-> [o \in selected |-> obs[o].version + 1],
              shown |-> Fingerprint, era |-> analysis]]
  BY DEF Decide
<1>3. obs' = Bumped(selected, d)
  BY DEF Decide
<1> HIDE DEF selected
<1>4. /\ apr'[a].state = "recorded" /\ apr'[a].decision = d /\ apr'[a].era = analysis
      /\ apr'[a].members = [o \in selected |-> obs[o].version + 1] /\ apr'[a].shown = Fingerprint
      /\ \A b \in Approval \ {a} : apr'[b] = apr[b]
  BY <1>2 DEF Typed, TablesOK
<1>5. \A o \in Ordinal : Fingerprint[o] = obs[o].cand
  BY DEF Fingerprint
<1>6. /\ \A o \in selected : /\ obs'[o].cand = obs[o].cand /\ obs'[o].decision = d
                             /\ obs'[o].version = obs[o].version + 1
      /\ \A o \in Ordinal \ selected : obs'[o] = obs[o]
  BY <1>1, <1>3 DEF Bumped, Typed, TablesOK, ObsRow
<1>7. DOMAIN apr[a].members = {}
  BY <1>2 DEF Ledger, UnusedAreEmpty
<1>8. DOMAIN apr'[a].members = selected /\ \A o \in selected : apr'[a].members[o] = obs[o].version + 1
  BY <1>4
<1>9. \A o \in selected : apr'[a].shown[o] = obs[o].cand
  BY <1>1, <1>4, <1>5
<1>10. Froze(a, selected, d)
  BY <1>1, <1>2, <1>4, <1>6, <1>7, <1>8, <1>9 DEF Froze
<1> QED BY <1>1, <1>10

\* Marking approvals stale changes their state only.
LEMMA MarkStaleDoes ==
  ASSUME Typed, NEW c \in Client, MarkStale(c)
  PROVE  /\ obs' = obs
         /\ \A a \in Approval : /\ apr'[a].state = "none" <=> apr[a].state = "none"
                                /\ apr'[a].decision = apr[a].decision /\ apr'[a].members = apr[a].members
                                /\ apr'[a].shown = apr[a].shown /\ apr'[a].era = apr[a].era
BY DEF MarkStale, Typed, TablesOK, Row

\* A batch of a re-analysis rewrites observations, undecided and under new versions.
LEMMA WriteBatchDoes ==
  ASSUME Typed, NEW c \in Client, WriteBatch(c)
  PROVE  /\ apr' = apr
         /\ \A o \in Ordinal : obs'[o] # obs[o] =>
              obs'[o].decision = "proposed" /\ obs'[o].version = obs[o].version + 1
BY DEF WriteBatch, Typed, TablesOK, ObsRow

\* Every step keeps the ledger of decisions.
LEMMA LedgerStep == ASSUME Typed, Typed', Ledger, [Next]_vars PROVE Ledger'
<1>0. /\ \A o \in Ordinal : obs[o].version \in Nat
      /\ \A a \in Approval : /\ DOMAIN apr[a].members \subseteq Ordinal
                             /\ \A o \in DOMAIN apr[a].members : apr[a].members[o] \in Nat
      /\ "proposed" \notin Decisions
  <2>1. \A a \in Approval : \E S \in SUBSET Ordinal : apr[a].members \in [S -> Nat]
    <3> SUFFICES ASSUME NEW a \in Approval
                 PROVE  \E S \in SUBSET Ordinal : apr[a].members \in [S -> Nat]
      OBVIOUS
    <3>1. apr[a].members \in UNION {[S -> Nat] : S \in SUBSET Ordinal}
      BY DEF Typed, TablesOK, Row
    <3> QED BY <3>1
  <2>2. \A o \in Ordinal : obs[o].version \in Nat
    BY DEF Typed, TablesOK, ObsRow
  <2>3. "proposed" \notin Decisions
    BY ReviewAssumption
  <2>4. ASSUME NEW a \in Approval
        PROVE  /\ DOMAIN apr[a].members \subseteq Ordinal
               /\ \A o \in DOMAIN apr[a].members : apr[a].members[o] \in Nat
    <3>1. PICK S \in SUBSET Ordinal : apr[a].members \in [S -> Nat]
      BY <2>1
    <3> QED BY <3>1
  <2> QED BY <2>2, <2>3, <2>4
<1>1. CASE UNCHANGED <<obs, apr>>
  BY <1>1 DEF Ledger, UnusedAreEmpty, OnlyProposalsAreDecided, DecisionIsRecorded
<1>2. ASSUME NEW c \in Client, MarkStale(c) PROVE Ledger'
  <2>1. UnusedAreEmpty' /\ OnlyProposalsAreDecided'
    BY <1>2, MarkStaleDoes DEF Ledger, UnusedAreEmpty, OnlyProposalsAreDecided
  <2>2. DecisionIsRecorded'
    BY <1>2, MarkStaleDoes DEF Ledger, DecisionIsRecorded
  <2> QED BY <2>1, <2>2 DEF Ledger
<1>3. ASSUME NEW c \in Client, WriteBatch(c) PROVE Ledger'
  <2>1. UnusedAreEmpty' /\ OnlyProposalsAreDecided'
    BY <1>3, WriteBatchDoes DEF Ledger, UnusedAreEmpty, OnlyProposalsAreDecided
  <2>2. \A o \in Ordinal : obs'[o].version >= obs[o].version
    BY <1>0, <1>3, WriteBatchDoes
  <2>3. DecisionIsRecorded'
    <3> SUFFICES ASSUME NEW o \in Ordinal
                 PROVE  /\ \A a \in Approval : o \in DOMAIN apr'[a].members => apr'[a].members[o] <= obs'[o].version
                        /\ \A a, b \in Approval :
                             /\ o \in DOMAIN apr'[a].members \cap DOMAIN apr'[b].members
                             /\ apr'[a].members[o] = apr'[b].members[o]
                             => a = b
                        /\ obs'[o].decision # "proposed" =>
                             \E a \in Approval : /\ o \in DOMAIN apr'[a].members
                                                 /\ apr'[a].members[o] = obs'[o].version
                                                 /\ apr'[a].decision = obs'[o].decision
                                                 /\ apr'[a].shown[o] = obs'[o].cand
      BY DEF DecisionIsRecorded
    <3>1. apr' = apr /\ (obs'[o].decision # "proposed" => obs'[o] = obs[o])
      BY <1>3, WriteBatchDoes
    <3>2. \A a \in Approval : o \in DOMAIN apr'[a].members => apr'[a].members[o] <= obs'[o].version
      <4> SUFFICES ASSUME NEW a \in Approval, o \in DOMAIN apr[a].members
                   PROVE  apr[a].members[o] <= obs'[o].version
        BY <3>1
      <4>1. apr[a].members[o] <= obs[o].version /\ apr[a].members[o] \in Nat /\ obs[o].version \in Nat
        BY <1>0 DEF Ledger, DecisionIsRecorded
      <4>2. obs'[o].version \in Nat
        BY DEF Typed, TablesOK, ObsRow
      <4> QED BY <2>2, <4>1, <4>2
    <3> QED BY <3>1, <3>2 DEF Ledger, DecisionIsRecorded
  <2> QED BY <2>1, <2>3 DEF Ledger
<1>4. ASSUME NEW c \in Client, NEW filter \in SUBSET Ordinal, NEW population \in Populations,
             NEW d \in Decisions, Decide(c, filter, population, d)
      PROVE  Ledger'
  <2>1. PICK a \in Approval, selected \in SUBSET Ordinal : Froze(a, selected, d)
    BY <1>4, DecideDoes
  <2> USE DEF Froze
  <2>2. UnusedAreEmpty' /\ OnlyProposalsAreDecided'
    BY <2>1 DEF Ledger, UnusedAreEmpty, OnlyProposalsAreDecided
  <2>3. ASSUME NEW o \in Ordinal, NEW b \in Approval \ {a}, o \in DOMAIN apr'[b].members
        PROVE  /\ o \in DOMAIN apr[b].members /\ apr'[b].members[o] = apr[b].members[o]
               /\ apr[b].members[o] <= obs[o].version /\ apr[b].members[o] \in Nat
    BY <1>0, <2>1, <2>3 DEF Ledger, DecisionIsRecorded
  <2>4. ASSUME NEW o \in Ordinal, NEW b \in Approval, o \in DOMAIN apr'[b].members
        PROVE  apr'[b].members[o] <= obs'[o].version
    BY <1>0, <2>1, <2>3, <2>4
  <2>5. ASSUME NEW o \in Ordinal, NEW b \in Approval, NEW e \in Approval,
               o \in DOMAIN apr'[b].members, o \in DOMAIN apr'[e].members,
               apr'[b].members[o] = apr'[e].members[o]
        PROVE  b = e
    <3>1. CASE b # a /\ e # a
      BY <2>3, <2>5, <3>1 DEF Ledger, DecisionIsRecorded
    <3>2. CASE b = a /\ e # a
      BY <1>0, <2>1, <2>3, <2>5, <3>2
    <3>3. CASE b # a /\ e = a
      BY <1>0, <2>1, <2>3, <2>5, <3>3
    <3> QED BY <3>1, <3>2, <3>3
  <2>6. ASSUME NEW o \in Ordinal, obs'[o].decision # "proposed"
        PROVE  \E b \in Approval : /\ o \in DOMAIN apr'[b].members
                                   /\ apr'[b].members[o] = obs'[o].version
                                   /\ apr'[b].decision = obs'[o].decision
                                   /\ apr'[b].shown[o] = obs'[o].cand
    <3>1. CASE o \in selected
      BY <2>1, <3>1
    <3>2. CASE o \notin selected
      <4>1. PICK b \in Approval : /\ o \in DOMAIN apr[b].members
                                 /\ apr[b].members[o] = obs[o].version
                                 /\ apr[b].decision = obs[o].decision
                                 /\ apr[b].shown[o] = obs[o].cand
        BY <2>1, <2>6, <3>2 DEF Ledger, DecisionIsRecorded
      <4>2. b # a
        BY <2>1, <4>1
      <4> QED BY <2>1, <3>2, <4>1, <4>2
    <3> QED BY <3>1, <3>2
  <2>7. DecisionIsRecorded'
    BY <2>4, <2>5, <2>6 DEF DecisionIsRecorded
  <2> QED BY <2>2, <2>7 DEF Ledger
<1> QED BY <1>1, <1>2, <1>3, <1>4, Writers

\* It holds at first.
LEMMA LedgerInit == ASSUME InitArtifacts PROVE Ledger
<1>1. \A a \in Approval : DOMAIN apr[a].members = {}
  BY DEF InitArtifacts, Init, NoApproval
<1>2. \A o \in Ordinal : obs[o].decision = "proposed"
  BY DEF InitArtifacts, Init
<1> QED BY <1>1, <1>2 DEF Ledger, UnusedAreEmpty, OnlyProposalsAreDecided, DecisionIsRecorded

-----------------------------------------------------------------------------
(* What a re-analysis has passed.                                          *)

InForce(a, o) == o \in DOMAIN apr[a].members /\ apr[a].members[o] = obs[o].version

\* No decision from before that analysis is in force on the observation.
Fresh(o, since) ==
  obs[o].decision # "proposed" => \A a \in Approval : InForce(a, o) => apr[a].era >= since

Passed(c, o) ==
  /\ pc[c] # "write" => loc[c].at # None /\ o <= loc[c].at
  /\ pc[c] = "write" => o < loc[c].at

\* The row a re-analysis writes is the one it read, or was decided since.
Rewrites(c) ==
  loc[c].request = "reanalyze" =>
    /\ loc[c].since \in 0 .. analysis
    /\ pc[c] \in {"stale", "bump"} => loc[c].at = None
    /\ pc[c] = "write" => obs[loc[c].at] = loc[c].seen \/ Fresh(loc[c].at, loc[c].since)
    /\ loc[c].since > 0 => \A o \in Ordinal : Passed(c, o) => Fresh(o, loc[c].since)

\* What every re-analysis keeps is the property.
LEMMA RewritesIsResets == (\A c \in Client : Rewrites(c)) => ResetsDecisions
BY DEF Rewrites, Fresh, InForce, Passed, ResetsDecisions

\* The same of the state after a step.
InForceAfter(a, o) == o \in DOMAIN apr'[a].members /\ apr'[a].members[o] = obs'[o].version
FreshAfter(o, since) ==
  obs'[o].decision # "proposed" => \A a \in Approval : InForceAfter(a, o) => apr'[a].era >= since

\* What is fresh stays so, and what anybody writes is fresh: a decision belongs
\* to the analysis that is under way.
LEMMA FreshStays ==
  ASSUME Typed, Ledger, [Next]_vars, NEW o \in Ordinal, NEW since \in 0 .. analysis,
         Fresh(o, since) \/ obs'[o] # obs[o]
  PROVE  FreshAfter(o, since)
<1>1. CASE UNCHANGED <<obs, apr>>
  BY <1>1 DEF Fresh, InForce, FreshAfter, InForceAfter
<1>2. ASSUME NEW c \in Client, MarkStale(c) PROVE FreshAfter(o, since)
  BY <1>2, MarkStaleDoes DEF Fresh, InForce, FreshAfter, InForceAfter
<1>3. ASSUME NEW c \in Client, WriteBatch(c) PROVE FreshAfter(o, since)
  BY <1>3, WriteBatchDoes DEF Fresh, InForce, FreshAfter, InForceAfter
<1>4. ASSUME NEW c \in Client, NEW filter \in SUBSET Ordinal, NEW population \in Populations,
             NEW d \in Decisions, Decide(c, filter, population, d)
      PROVE  FreshAfter(o, since)
  <2>1. PICK a \in Approval, selected \in SUBSET Ordinal : Froze(a, selected, d)
    BY <1>4, DecideDoes
  <2>2. analysis \in Nat /\ obs[o].version \in Nat
    BY ReviewAssumption DEF Typed, TablesOK, Version, ObsRow
  <2>3. CASE o \in selected
    <3>1. ASSUME NEW b \in Approval, InForceAfter(b, o) PROVE apr'[b].era >= since
      <4>1. CASE b = a
        BY <2>1, <2>2, <4>1 DEF Froze
      <4>2. CASE b # a
        <5>1. o \in DOMAIN apr[b].members /\ apr[b].members[o] = obs[o].version + 1
          BY <2>1, <2>3, <3>1, <4>2 DEF Froze, InForceAfter
        <5>2. apr[b].members[o] <= obs[o].version
          BY <5>1 DEF Ledger, DecisionIsRecorded
        <5> QED BY <2>2, <5>1, <5>2
      <4> QED BY <4>1, <4>2
    <3> QED BY <3>1 DEF FreshAfter
  <2>4. CASE o \notin selected
    BY <2>1, <2>4 DEF Fresh, InForce, FreshAfter, InForceAfter, Froze
  <2> QED BY <2>3, <2>4
<1> QED BY <1>1, <1>2, <1>3, <1>4, Writers

\* Analysis versions only grow.
LEMMA AnalysisGrows == ASSUME Typed, [Next]_vars PROVE analysis \in Nat /\ analysis' \in Nat /\ analysis <= analysis'
<1>1. analysis' = analysis \/ analysis' = analysis + 1
  BY ZenonT(30) DEF Next, Build, BeginBuild, CheckApproval, CheckDrift, CheckLinked, BeginWriting, ReadEdits, Rename,
     MakeReady, StartFailing, FailBuild, CrashBuild, Request, GiveUp, EnsureChangeSet, ReadVersion,
     FindChangeSet, TakeFingerprint, InsertChangeSet, BeginDecide, Decide, BeginReanalysis, MarkStale,
     BumpAnalysis, ReadBatch, WriteBatch, WorkerPresents, vars, reviewVars
<1> QED BY <1>1, ReviewAssumption DEF Typed, TablesOK, Version

\* What is left to show of a step: the two facts about the freshness, for the
\* place and the memory after it.
LEMMA RewritesAfter ==
  ASSUME NEW c \in Client,
         loc'[c].request = "reanalyze" =>
           /\ loc'[c].since \in 0 .. analysis'
           /\ pc'[c] \in {"stale", "bump"} => loc'[c].at = None
           /\ pc'[c] = "write" => obs'[loc'[c].at] = loc'[c].seen \/ FreshAfter(loc'[c].at, loc'[c].since)
           /\ loc'[c].since > 0 => \A o \in Ordinal :
                (/\ pc'[c] # "write" => loc'[c].at # None /\ o <= loc'[c].at
                 /\ pc'[c] = "write" => o < loc'[c].at)
                => FreshAfter(o, loc'[c].since)
  PROVE  Rewrites(c)'
BY DEF Rewrites, Passed, Fresh, InForce, FreshAfter, InForceAfter

\* A re-analysis that does not move.
LEMMA StandsStill ==
  ASSUME Typed, Typed', Ledger, [Next]_vars, NEW c \in Client, Rewrites(c),
         pc'[c] = pc[c] /\ loc'[c] = loc[c]
  PROVE  Rewrites(c)'
<1>1. CASE loc[c].request # "reanalyze"
  BY <1>1, RewritesAfter
<1>2. CASE loc[c].request = "reanalyze"
  <2>1. loc[c].since \in 0 .. analysis /\ loc[c].since \in 0 .. analysis'
    BY <1>2, AnalysisGrows DEF Rewrites
  <2>2. ASSUME pc[c] = "write"
        PROVE  obs'[loc[c].at] = loc[c].seen \/ FreshAfter(loc[c].at, loc[c].since)
    <3>1. loc[c].at \in Ordinal
      BY <2>2 DEF Typed, PlacesOK, Fits
    <3> QED BY <1>2, <2>1, <2>2, <3>1, FreshStays DEF Rewrites
  <2>3. ASSUME loc[c].since > 0, NEW o \in Ordinal, Passed(c, o) PROVE FreshAfter(o, loc[c].since)
    BY <1>2, <2>1, <2>3, FreshStays DEF Rewrites
  <2>4. pc[c] \in {"stale", "bump"} => loc[c].at = None
    BY <1>2 DEF Rewrites
  <2> QED BY <2>1, <2>2, <2>3, <2>4, RewritesAfter DEF Passed
<1> QED BY <1>1, <1>2

\* A build and a decision are no re-analysis.
LEMMA OthersStay ==
  ASSUME Typed, NEW c \in Client, Build(c) \/ (loc[c].request # "reanalyze" /\ EnsureChangeSet(c))
  PROVE  loc'[c].request # "reanalyze"
<1>1. /\ pc[c] \in Building => loc[c] \in Making
      /\ pc[c] \in Ensuring /\ loc[c].request # "reanalyze" => loc[c] \in Asking \cup Making
  BY DEF Typed, PlacesOK, Fits, Redoing
<1>2. \A l \in Making : l.request = "build"
  BY DEF Making
<1>3. \A l \in Asking : l.request = "decide"
  BY DEF Asking
<1>4. Blank.request = "none"
  BY DEF Blank
<1>5. ASSUME NEW place, NEW l, Goto(c, place, l), l.request # "reanalyze" PROVE loc'[c].request # "reanalyze"
  BY <1>4, <1>5 DEF Goto, Typed, PlacesOK
<1>6. CASE \E k \in Key, a \in Approval \cup {None} : BeginBuild(c, k, a)
  BY <1>5, <1>6 DEF BeginBuild
<1>7. CASE CheckApproval(c) \/ CheckDrift(c) \/ CheckLinked(c) \/ BeginWriting(c) \/ ReadEdits(c)
  <2>1. pc[c] \in Building
    BY <1>7 DEF CheckApproval, CheckDrift, CheckLinked, BeginWriting, ReadEdits, Building
  <2>2. loc[c] \in Making
    BY <1>1, <2>1
  <2>3. \A a, b : [loc[c] EXCEPT !.stale = a, !.agreed = b].request = "build"
    BY <2>2 DEF Making
  <2>4. \A a, b : [loc[c] EXCEPT !.agreed = a, !.fp = b].request = "build"
    BY <2>2 DEF Making
  <2>5. \A a, b : [loc[c] EXCEPT !.existing = a, !.fp = b].request = "build"
    BY <2>2 DEF Making
  <2>6. \A a : [loc[c] EXCEPT !.next = a].request = "build" /\ [loc[c] EXCEPT !.edits = a].request = "build"
    BY <2>2 DEF Making
  <2>7. CASE CheckApproval(c)
    BY <1>5, <2>3, <2>7 DEF CheckApproval
  <2>8. CASE CheckDrift(c)
    BY <1>5, <2>4, <2>8 DEF CheckDrift
  <2>9. CASE CheckLinked(c)
    BY <1>5, <2>6, <2>9 DEF CheckLinked
  <2>10. CASE BeginWriting(c)
    BY <1>5, <2>5, <2>10 DEF BeginWriting
  <2>11. CASE ReadEdits(c)
    BY <1>5, <2>6, <2>11 DEF ReadEdits
  <2> QED BY <1>7, <2>7, <2>8, <2>9, <2>10, <2>11
<1>8. CASE Rename(c) \/ MakeReady(c) \/ StartFailing(c) \/ FailBuild(c) \/ CrashBuild(c)
  <2>1. \/ Goto(c, "idle", Blank)
        \/ pc[c] \in Building /\ \E place : Goto(c, place, loc[c])
    BY <1>8 DEF Rename, MakeReady, StartFailing, FailBuild, CrashBuild, Building
  <2> QED BY <1>1, <1>2, <1>4, <1>5, <2>1
<1>9. CASE loc[c].request # "reanalyze" /\ EnsureChangeSet(c)
  <2>1. loc[c] \in Asking \cup Making
    BY <1>1, <1>9 DEF EnsureChangeSet, ReadVersion, FindChangeSet, TakeFingerprint, InsertChangeSet, Ensuring
  <2>2. \A a : /\ [loc[c] EXCEPT !.ver = a].request = loc[c].request
               /\ [loc[c] EXCEPT !.fp = a].request = loc[c].request
    BY <2>1 DEF Asking, Making
  <2>3. \A a, b : [loc[c] EXCEPT !.fp = a, !.ver = b].request = loc[c].request
    BY <2>1 DEF Asking, Making
  <2>4. CASE ReadVersion(c) \/ TakeFingerprint(c) \/ InsertChangeSet(c)
    BY <1>5, <1>9, <2>2, <2>4 DEF ReadVersion, TakeFingerprint, InsertChangeSet
  <2>5. CASE FindChangeSet(c)
    <3>1. \/ Goto(c, "fingerprint", loc[c])
          \/ Goto(c, loc[c].next, [loc[c] EXCEPT !.fp = cs[loc[c].ver], !.ver = 0])
      BY <2>5 DEF FindChangeSet
    <3>2. [loc[c] EXCEPT !.fp = cs[loc[c].ver], !.ver = 0].request # "reanalyze"
      BY <1>9, <2>3
    <3>3. CASE Goto(c, "fingerprint", loc[c])
      BY <1>5, <1>9, <3>3
    <3>4. CASE Goto(c, loc[c].next, [loc[c] EXCEPT !.fp = cs[loc[c].ver], !.ver = 0])
      BY <1>5, <3>2, <3>4
    <3> QED BY <3>1, <3>3, <3>4
  <2> QED BY <1>9, <2>4, <2>5 DEF EnsureChangeSet
<1> QED BY <1>6, <1>7, <1>8, <1>9 DEF Build

\* A re-analysis that ensures its change set keeps what it has passed.
LEMMA EnsureKeeps ==
  ASSUME Typed, Ledger, [Next]_vars, NEW c \in Client, Rewrites(c), loc[c].request = "reanalyze",
         EnsureChangeSet(c)
  PROVE  Rewrites(c)'
<1>1. pc[c] \in Ensuring /\ loc[c] \in Redoing
  BY DEF EnsureChangeSet, ReadVersion, FindChangeSet, TakeFingerprint, InsertChangeSet, Ensuring,
     Typed, PlacesOK, Fits, Asking, Making
<1>2. loc[c].next = "idle" /\ pc[c] # "write"
  BY <1>1 DEF Redoing, Ensuring
<1>3. \A a, b : LET m == [loc[c] EXCEPT !.fp = a, !.ver = b]
                IN  m.at = loc[c].at /\ m.since = loc[c].since
  BY <1>1 DEF Redoing
<1>4. \A a : LET m == [loc[c] EXCEPT !.fp = a] IN m.at = loc[c].at /\ m.since = loc[c].since
  BY <1>1 DEF Redoing
<1>5. \A a : LET m == [loc[c] EXCEPT !.ver = a] IN m.at = loc[c].at /\ m.since = loc[c].since
  BY <1>1 DEF Redoing
<1>6. \/ pc'[c] = "idle" /\ loc'[c] = Blank
      \/ pc'[c] \in Ensuring /\ loc'[c].at = loc[c].at /\ loc'[c].since = loc[c].since
  <2>1. CASE ReadVersion(c)
    BY <1>5, <2>1 DEF ReadVersion, Goto, Typed, PlacesOK, Ensuring
  <2>2. CASE FindChangeSet(c)
    <3>1. CASE Goto(c, "fingerprint", loc[c])
      BY <3>1 DEF Goto, Typed, PlacesOK, Ensuring
    <3>2. CASE Goto(c, "idle", [loc[c] EXCEPT !.fp = cs[loc[c].ver], !.ver = 0])
      BY <3>2 DEF Goto, Typed, PlacesOK
    <3> QED BY <1>2, <2>2, <3>1, <3>2 DEF FindChangeSet
  <2>3. CASE TakeFingerprint(c)
    BY <1>4, <2>3 DEF TakeFingerprint, Goto, Typed, PlacesOK, Ensuring
  <2>4. CASE InsertChangeSet(c)
    BY <1>2, <2>4 DEF InsertChangeSet, Goto, Typed, PlacesOK
  <2> QED BY <2>1, <2>2, <2>3, <2>4 DEF EnsureChangeSet
<1>7. CASE pc'[c] = "idle" /\ loc'[c] = Blank
  BY <1>7, RewritesAfter DEF Blank
<1>8. CASE pc'[c] \in Ensuring /\ loc'[c].at = loc[c].at /\ loc'[c].since = loc[c].since
  <2>1. loc[c].since \in 0 .. analysis /\ loc[c].since \in 0 .. analysis'
    BY AnalysisGrows DEF Rewrites
  <2>2. ASSUME loc[c].since > 0, NEW o \in Ordinal, loc[c].at # None /\ o <= loc[c].at
        PROVE  FreshAfter(o, loc[c].since)
    BY <1>2, <2>1, <2>2, FreshStays DEF Rewrites, Passed
  <2> QED BY <1>8, <2>1, <2>2, RewritesAfter DEF Ensuring
<1> QED BY <1>6, <1>7, <1>8

\* A re-analysis on its way through the observations.
LEMMA RewritingKeeps ==
  ASSUME Typed, Ledger, [Next]_vars, NEW c \in Client, Rewrites(c),
         MarkStale(c) \/ BumpAnalysis(c) \/ ReadBatch(c) \/ WriteBatch(c)
  PROVE  Rewrites(c)'
<1>1. pc[c] \in Rewriting /\ loc[c] \in Redoing /\ loc[c].request = "reanalyze"
  BY DEF MarkStale, BumpAnalysis, ReadBatch, WriteBatch, Rewriting, Typed, PlacesOK, Fits, Redoing
<1>2. loc[c].since \in 0 .. analysis /\ loc[c].since \in 0 .. analysis' /\ analysis' \in Nat /\ analysis \in Nat
  BY <1>1, AnalysisGrows DEF Rewrites
<1>7. Ordinal \subseteq Nat
  BY ReviewAssumption
<1>3. CASE MarkStale(c)
  <2>1. pc'[c] = "bump" /\ loc'[c] = loc[c] /\ pc[c] = "stale"
    BY <1>3 DEF MarkStale, Goto, Typed, PlacesOK
  <2>2. loc[c].at = None
    BY <1>1, <2>1 DEF Rewrites
  <2> QED BY <1>2, <2>1, <2>2, RewritesAfter
<1>4. CASE BumpAnalysis(c)
  <2>1. /\ pc'[c] = "read" /\ loc'[c] = [loc[c] EXCEPT !.since = analysis + 1] /\ pc[c] = "bump"
        /\ analysis' = analysis + 1
    BY <1>4 DEF BumpAnalysis, Goto, Typed, PlacesOK
  <2>2. loc[c].at = None
    BY <1>1, <2>1 DEF Rewrites
  <2>3. loc'[c].at = None /\ loc'[c].since = analysis + 1
    BY <1>1, <2>1, <2>2 DEF Redoing
  <2>4. loc'[c].since \in 0 .. analysis'
    BY <1>2, <2>1, <2>3
  <2> QED BY <2>1, <2>3, <2>4, RewritesAfter
<1>5. CASE ReadBatch(c)
  <2>1. pc[c] = "read" /\ obs' = obs
    BY <1>5 DEF ReadBatch, reviewVars
  <2>2. ASSUME loc[c].since > 0, NEW o \in Ordinal, o \notin Rest(c) PROVE FreshAfter(o, loc[c].since)
    <3>1. loc[c].at # None /\ o <= loc[c].at
      <4>1. loc[c].at # None /\ ~(o > loc[c].at)
        BY <2>2 DEF Rest
      <4>2. loc[c].at \in Ordinal
        BY <1>1, <4>1 DEF Redoing
      <4>3. o \in Nat /\ loc[c].at \in Nat
        BY <2>2, <4>2, <1>7
      <4> QED BY <4>1, <4>3
    <3>2. Fresh(o, loc[c].since)
      BY <1>1, <2>1, <2>2, <3>1 DEF Rewrites, Passed
    <3> QED BY <1>2, <3>2, FreshStays
  <2>3. CASE Rest(c) = {}
    <3>1. pc'[c] = "version" /\ loc'[c] = loc[c]
      BY <1>5, <2>3 DEF ReadBatch, Goto, Typed, PlacesOK
    <3>2. loc[c].since > 0 => \A o \in Ordinal : FreshAfter(o, loc[c].since)
      BY <2>2, <2>3
    <3> QED BY <1>2, <3>1, <3>2, RewritesAfter
  <2>4. CASE Rest(c) # {}
    <3> DEFINE o == CHOOSE o \in Rest(c) : \A p \in Rest(c) : o <= p
    <3>1. Rest(c) \in SUBSET Nat /\ Rest(c) \subseteq Ordinal /\ Ordinal \subseteq Nat
      BY ReviewAssumption DEF Rest
    <3>2. o \in Rest(c) /\ \A p \in Rest(c) : o <= p
      BY <2>4, <3>1, Least
    <3>3. pc'[c] = "write" /\ loc'[c] = [loc[c] EXCEPT !.at = o, !.seen = obs[o]]
      BY <1>5, <2>4 DEF ReadBatch, Goto, Typed, PlacesOK
    <3> HIDE DEF o
    <3>4. loc'[c].at = o /\ loc'[c].seen = obs[o] /\ loc'[c].since = loc[c].since
      BY <1>1, <3>3 DEF Redoing
    <3>5. ASSUME loc[c].since > 0, NEW p \in Ordinal, p < o PROVE FreshAfter(p, loc[c].since)
      <4>1. p \notin Rest(c)
        BY <3>1, <3>2, <3>5
      <4> QED BY <2>2, <3>5, <4>1
    <3> QED BY <1>2, <2>1, <3>3, <3>4, <3>5, RewritesAfter
  <2> QED BY <2>3, <2>4
<1>6. CASE WriteBatch(c)
  <2> DEFINE o == loc[c].at
  <2>1. pc[c] = "write" /\ o \in Ordinal /\ loc[c].seen \in ObsRow
    BY <1>6 DEF WriteBatch, Typed, PlacesOK, Fits
  <2>2. pc'[c] = "read" /\ loc'[c] = [loc[c] EXCEPT !.seen = <<>>]
    BY <1>6 DEF WriteBatch, Goto, Typed, PlacesOK
  <2>3. loc'[c].at = o /\ loc'[c].since = loc[c].since
    BY <1>1, <2>2 DEF Redoing
  <2>4. FreshAfter(o, loc[c].since)
    <3>1. CASE obs[o] = loc[c].seen
      <4>1. obs'[o].decision = "proposed"
        <5>1. CASE Rewritten(loc[c].seen, loc[c].result[o])
          BY <1>6, <2>1, <5>1 DEF WriteBatch, Typed, TablesOK
        <5>2. CASE ~Rewritten(loc[c].seen, loc[c].result[o])
          <6>1. obs' = obs
            BY <1>6, <5>2 DEF WriteBatch
          <6>2. obs[o].cand = None \/ obs[o].decision = "proposed"
            BY <3>1, <5>2 DEF Rewritten
          <6> QED BY <2>1, <6>1, <6>2 DEF Ledger, OnlyProposalsAreDecided
        <5> QED BY <5>1, <5>2
      <4> QED BY <4>1 DEF FreshAfter
    <3>2. CASE Fresh(o, loc[c].since)
      BY <1>2, <2>1, <3>2, FreshStays
    <3> QED BY <1>1, <2>1, <3>1, <3>2 DEF Rewrites
  <2>5. ASSUME loc[c].since > 0, NEW p \in Ordinal, p <= o PROVE FreshAfter(p, loc[c].since)
    <3>1. CASE p = o
      BY <2>4, <3>1
    <3>2. CASE p # o
      <4>1. p < o
        <5>1. p \in Nat /\ o \in Nat
          BY <2>1, <2>5, <1>7
        <5> HIDE DEF o
        <5> QED BY <2>5, <3>2, <5>1
      <4>2. Fresh(p, loc[c].since)
        BY <1>1, <2>1, <2>5, <4>1 DEF Rewrites, Passed
      <4> QED BY <1>2, <4>2, FreshStays
    <3> QED BY <3>1, <3>2
  <2> QED BY <1>2, <2>2, <2>3, <2>5, RewritesAfter
<1> QED BY <1>3, <1>4, <1>5, <1>6

\* Every step keeps what a re-analysis has reset.
LEMMA RewritesStep ==
  ASSUME Typed, Typed', Ledger, [Next]_vars, \A c \in Client : Rewrites(c), NEW c \in Client
  PROVE  Rewrites(c)'
<1>1. ASSUME NEW d \in Client, NEW place, NEW l, Goto(d, place, l), d # c PROVE pc'[c] = pc[c] /\ loc'[c] = loc[c]
  BY <1>1 DEF Goto, Typed, PlacesOK
<1>2. ASSUME NEW d \in Client, Build(d) \/ Request(d)
      PROVE  \E place, l : Goto(d, place, l)
  BY <1>2 DEF Build, BeginBuild, CheckApproval, CheckDrift, CheckLinked, BeginWriting, ReadEdits, Rename,
     MakeReady, StartFailing, FailBuild, CrashBuild, Request, GiveUp, EnsureChangeSet, ReadVersion,
     FindChangeSet, TakeFingerprint, InsertChangeSet, BeginDecide, Decide, BeginReanalysis, MarkStale,
     BumpAnalysis, ReadBatch, WriteBatch
<1>3. ASSUME NEW d \in Client, Build(d) \/ Request(d), d # c PROVE Rewrites(c)'
  BY <1>1, <1>2, <1>3, StandsStill
<1>4. CASE WorkerPresents \/ UNCHANGED vars
  BY <1>4, StandsStill DEF WorkerPresents, vars, clientVars
<1>5. CASE Build(c)
  BY <1>5, OthersStay, RewritesAfter
<1>6. CASE Request(c)
  <2>1. CASE GiveUp(c) \/ \E filter \in SUBSET Ordinal, population \in Populations, d \in Decisions :
                         Decide(c, filter, population, d)
    <3>1. loc'[c] = Blank
      BY <2>1 DEF GiveUp, Decide, Goto, Typed, PlacesOK
    <3> QED BY <3>1, RewritesAfter DEF Blank
  <2>2. CASE EnsureChangeSet(c)
    BY <2>2, OthersStay, EnsureKeeps, RewritesAfter
  <2>3. CASE \E op \in Op \cup {None} : BeginDecide(c, op)
    <3>1. loc'[c].request = "decide"
      BY <2>3 DEF BeginDecide, Goto, Typed, PlacesOK
    <3> QED BY <3>1, RewritesAfter
  <2>4. CASE \E result \in Analysis : BeginReanalysis(c, result)
    <3>1. pc'[c] = "stale" /\ loc'[c].since = 0 /\ loc'[c].at = None
      BY <2>4 DEF BeginReanalysis, Goto, Typed, PlacesOK
    <3> QED BY <3>1, AnalysisGrows, RewritesAfter
  <2>5. CASE MarkStale(c) \/ BumpAnalysis(c) \/ ReadBatch(c) \/ WriteBatch(c)
    BY <2>5, RewritingKeeps
  <2> QED BY <1>6, <2>1, <2>2, <2>3, <2>4, <2>5 DEF Request
<1> QED BY <1>3, <1>4, <1>5, <1>6 DEF Next

-----------------------------------------------------------------------------
(* The edits of a file.                                                    *)

\* Every edit was approved in the selection a, as the candidate shown there.
Approved(a, edits) ==
  \A e \in edits : /\ a # None
                  /\ apr[a].decision = "approved"
                  /\ e[1] \in DOMAIN apr[a].members
                  /\ apr[a].shown[e[1]] = e[2]

Gathered ==
  \A c \in Client : pc[c] \in {"rename", "publish"} => Approved(loc[c].approval, loc[c].edits)

ApprovedAfter(a, edits) ==
  \A e \in edits : /\ a # None
                  /\ apr'[a].decision = "approved"
                  /\ e[1] \in DOMAIN apr'[a].members
                  /\ apr'[a].shown[e[1]] = e[2]

\* An approval keeps its decision, its members and what was shown.
LEMMA ApprovalKeeps ==
  ASSUME Typed, Ledger, [Next]_vars, NEW a \in Approval \cup {None}, NEW edits, Approved(a, edits)
  PROVE  ApprovedAfter(a, edits)
<1> SUFFICES ASSUME NEW e \in edits PROVE ApprovedAfter(a, {e})
  BY DEF ApprovedAfter
<1>1. a \in Approval /\ DOMAIN apr[a].members # {} /\ apr[a].state # "none"
  BY DEF Approved, Ledger, UnusedAreEmpty
<1>2. CASE UNCHANGED <<obs, apr>>
  BY <1>2 DEF Approved, ApprovedAfter
<1>3. ASSUME NEW c \in Client, MarkStale(c) \/ WriteBatch(c) PROVE ApprovedAfter(a, {e})
  BY <1>1, <1>3, MarkStaleDoes, WriteBatchDoes DEF Approved, ApprovedAfter
<1>4. ASSUME NEW c \in Client, NEW filter \in SUBSET Ordinal, NEW population \in Populations,
             NEW d \in Decisions, Decide(c, filter, population, d)
      PROVE  ApprovedAfter(a, {e})
  <2>1. PICK b \in Approval, selected \in SUBSET Ordinal : Froze(b, selected, d)
    BY <1>4, DecideDoes
  <2> QED BY <1>1, <2>1 DEF Approved, ApprovedAfter, Froze
<1> QED BY <1>2, <1>3, <1>4, Writers

\* What a build reads is approved: the decision in force on a member in the
\* version it froze is the one of the selection.
LEMMA ReadEditsApproved ==
  ASSUME Typed, Ledger, NEW c \in Client, ReadEdits(c)
  PROVE  pc'[c] = "rename" /\ loc'[c].approval = loc[c].approval /\ Approved(loc[c].approval, loc'[c].edits)
<1> DEFINE a == loc[c].approval
           edits == IF a = None THEN {} ELSE {<<o, obs[o].cand>> : o \in Covered(a)}
<1>1. loc[c] \in Making /\ a \in Approval \cup {None}
  BY DEF ReadEdits, Typed, PlacesOK, Fits, Building, Making
<1>2. pc'[c] = "rename" /\ loc'[c] = [loc[c] EXCEPT !.edits = edits]
  BY DEF ReadEdits, Goto, Typed, PlacesOK
<1>3. Approved(a, edits)
  <2> SUFFICES ASSUME NEW o \in Covered(a), a # None
               PROVE  /\ apr[a].decision = "approved" /\ o \in DOMAIN apr[a].members
                      /\ apr[a].shown[o] = obs[o].cand
    BY DEF Approved
  <2>1. a \in Approval
    BY <1>1
  <2>2. DOMAIN apr[a].members \subseteq Ordinal
    BY <2>1 DEF Typed, TablesOK, Row
  <2>3. /\ o \in Ordinal /\ o \in DOMAIN apr[a].members /\ obs[o].decision = "approved"
        /\ apr[a].members[o] = obs[o].version
    BY <2>2 DEF Covered
  <2>4. PICK b \in Approval : /\ o \in DOMAIN apr[b].members
                             /\ apr[b].members[o] = obs[o].version
                             /\ apr[b].decision = obs[o].decision
                             /\ apr[b].shown[o] = obs[o].cand
    BY <2>3 DEF Ledger, DecisionIsRecorded
  <2>5. a = b
    BY <2>1, <2>3, <2>4 DEF Ledger, DecisionIsRecorded
  <2> QED BY <2>3, <2>4, <2>5
<1> HIDE DEF edits
<1>4. loc'[c].approval = a /\ loc'[c].edits = edits
  BY <1>1, <1>2 DEF Making
<1> QED BY <1>2, <1>3, <1>4

\* Every step keeps what builds have gathered, and what was applied as approved.
LEMMA GatheredStep ==
  ASSUME Typed, Typed', Ledger, Gathered, AppliedWasApproved, [Next]_vars
  PROVE  Gathered' /\ AppliedWasApproved'
<1>1. ASSUME NEW c \in Client, pc'[c] \in {"rename", "publish"}
      PROVE  /\ pc'[c] \in {"rename", "publish"} /\ loc'[c].approval \in Approval \cup {None}
             /\ Approved(loc'[c].approval, loc'[c].edits)
  <2>1. loc'[c].approval \in Approval \cup {None}
    BY <1>1 DEF Typed, PlacesOK, Fits, Building, Making
  <2>2. CASE pc'[c] = pc[c] /\ loc'[c] = loc[c]
    BY <1>1, <2>1, <2>2 DEF Gathered
  <2>3. CASE ReadEdits(c)
    BY <1>1, <2>1, <2>3, ReadEditsApproved
  <2>4. CASE Rename(c)
    <3>1. pc[c] = "rename" /\ loc'[c] = loc[c]
      BY <1>1, <2>4 DEF Rename, Goto, Typed, PlacesOK
    <3> QED BY <1>1, <2>1, <3>1 DEF Gathered
  <2>5. ASSUME NEW place \in Places \ {"rename", "publish"}, NEW l, Goto(c, place, l) PROVE FALSE
    BY <1>1, <2>5 DEF Goto, Typed, PlacesOK
  <2>6. ASSUME NEW d \in Client, NEW place, NEW l, Goto(d, place, l), d # c
        PROVE  pc'[c] = pc[c] /\ loc'[c] = loc[c]
    BY <2>6 DEF Goto, Typed, PlacesOK
  <2>7. ASSUME NEW d \in Client, Build(d) \/ Request(d) PROVE \E place, l : Goto(d, place, l)
    BY <2>7 DEF Build, BeginBuild, CheckApproval, CheckDrift, CheckLinked, BeginWriting, ReadEdits, Rename,
       MakeReady, StartFailing, FailBuild, CrashBuild, Request, GiveUp, EnsureChangeSet, ReadVersion,
       FindChangeSet, TakeFingerprint, InsertChangeSet, BeginDecide, Decide, BeginReanalysis, MarkStale,
       BumpAnalysis, ReadBatch, WriteBatch
  <2>8. ASSUME Build(c) \/ Request(c), ~ReadEdits(c), ~Rename(c)
        PROVE  \E place \in Places \ {"rename", "publish"} : \E l : Goto(c, place, l)
    <3>1. ASSUME EnsureChangeSet(c) PROVE \E place \in Places \ {"rename", "publish"} : \E l : Goto(c, place, l)
      <4>1. loc[c].next \in {"decide", "idle", "begin", "drift"}
        <5>1. loc[c] \in Asking \cup Redoing \cup Making
          BY <3>1 DEF EnsureChangeSet, ReadVersion, FindChangeSet, TakeFingerprint, InsertChangeSet, Ensuring,
             Typed, PlacesOK, Fits
        <5> QED BY <5>1 DEF Asking, Redoing, Making
      <4> QED BY <3>1, <4>1 DEF EnsureChangeSet, ReadVersion, FindChangeSet, TakeFingerprint, InsertChangeSet,
               Places
    <3>2. ASSUME Build(c) PROVE \E place \in Places \ {"rename", "publish"} : \E l : Goto(c, place, l)
      BY <2>8, <3>2 DEF Build, BeginBuild, CheckApproval, CheckDrift, CheckLinked, BeginWriting, MakeReady,
         StartFailing, FailBuild, CrashBuild, Places
    <3>3. ASSUME Request(c), ~EnsureChangeSet(c)
          PROVE  \E place \in Places \ {"rename", "publish"} : \E l : Goto(c, place, l)
      BY <3>3 DEF Request, GiveUp, BeginDecide, Decide, BeginReanalysis, MarkStale, BumpAnalysis, ReadBatch,
         WriteBatch, Places
    <3> QED BY <2>8, <3>1, <3>2, <3>3
  <2>9. \/ \E d \in Client : Build(d) \/ Request(d)
        \/ UNCHANGED clientVars
    BY DEF Next, WorkerPresents, vars
  <2> QED BY <2>2, <2>3, <2>4, <2>5, <2>6, <2>7, <2>8, <2>9, <1>1 DEF clientVars
<1>2. Gathered'
  <2>1. ASSUME NEW c \in Client, pc'[c] \in {"rename", "publish"}
        PROVE  ApprovedAfter(loc'[c].approval, loc'[c].edits)
    BY <1>1, <2>1, ApprovalKeeps
  <2> QED BY <2>1 DEF Gathered, Approved, ApprovedAfter
<1>3. ASSUME NEW k \in Key, art'[k].state \in {"ready", "superseded"}
      PROVE  ApprovedAfter(art'[k].by, art'[k].edits)
  <2>1. art'[k].by \in Approval \cup {None}
    BY DEF Typed, FilesOK, ArtRow
  <2>2. art[k].state \in {"ready", "superseded"} /\ art[k].by \in Approval \cup {None} => Approved(art[k].by, art[k].edits)
    BY DEF AppliedWasApproved, Built, Approved
  <2>3. CASE art[k].state \in {"ready", "superseded"} /\ art'[k].by = art[k].by /\ art'[k].edits = art[k].edits
    BY <2>1, <2>2, <2>3, ApprovalKeeps
  <2>4. ASSUME NEW c \in Client, MakeReady(c) PROVE ApprovedAfter(art'[k].by, art'[k].edits)
    <3>1. loc[c].approval \in Approval \cup {None} /\ Approved(loc[c].approval, loc[c].edits)
      BY <2>4 DEF MakeReady, Gathered, Typed, PlacesOK, Fits, Building, Making
    <3>2. \/ art'[k].by = loc[c].approval /\ art'[k].edits = loc[c].edits
          \/ art[k].state \in {"ready", "superseded"} /\ art'[k].by = art[k].by /\ art'[k].edits = art[k].edits
      <4>1. CASE k = loc[c].key
        BY <2>4, <4>1 DEF MakeReady, Superseding, Typed, FilesOK, ArtRow
      <4>2. CASE k # loc[c].key
        BY <1>3, <2>4, <4>2 DEF MakeReady, Superseding, Typed, FilesOK, ArtRow
      <4> QED BY <4>1, <4>2
    <3> QED BY <2>3, <3>1, <3>2, ApprovalKeeps
  <2>5. ASSUME NEW c \in Client, BeginWriting(c) \/ FailBuild(c)
        PROVE  art'[k] = art[k]
    BY <1>3, <2>5 DEF BeginWriting, FailBuild, Typed, FilesOK, ArtRow
  <2>6. \/ \E c \in Client : MakeReady(c) \/ BeginWriting(c) \/ FailBuild(c)
        \/ art' = art
    BY DEF Next, Build, BeginBuild, CheckApproval, CheckDrift, CheckLinked, ReadEdits, Rename,
       StartFailing, CrashBuild, WorkerPresents, vars, buildVars
  <2> QED BY <1>3, <2>3, <2>4, <2>5, <2>6
<1>4. AppliedWasApproved'
  BY <1>3 DEF AppliedWasApproved, Built, ApprovedAfter
<1> QED BY <1>2, <1>4

-----------------------------------------------------------------------------
(* The file of an artifact.                                                *)

\* A build that writes has taken the readiness from its row; it has its own file open until
\* it renames it, and then that file is the one in place.
Hands(c) ==
  loc[c].request = "build" =>
    /\ loc[c].key \in KeysOf[c]
    /\ pc[c] \in {"edits", "rename", "publish", "failing"} => art[loc[c].key].state # "ready"
    /\ pc[c] = "rename" => c \in part[loc[c].key]
    /\ pc[c] = "publish" => disk[loc[c].key] = loc[c].edits

\* Nobody else has it open.
OwnParts == \A k \in Key : \A c \in part[k] : k \in KeysOf[c]

FileInv == FileIsWhole /\ OwnParts /\ \A c \in Client : Hands(c)

\* A build that remembers a key remembers all a build does.
LEMMA MakingIsBuilding ==
  ASSUME Typed, NEW c \in Client
  PROVE  /\ loc[c].request = "build" <=> loc[c] \in Making
         /\ pc[c] = "idle" => loc[c].request = "none"
         /\ pc[c] \in Building => loc[c] \in Making
<1>1. loc[c] \in Idle \cup Asking \cup Redoing \cup Making /\ Fits(pc[c], loc[c])
  BY DEF Typed, PlacesOK, Memory
<1>2. loc[c].request = "build" <=> loc[c] \in Making
  BY <1>1 DEF Idle, Asking, Redoing, Making
<1>3. pc[c] = "idle" => loc[c] \in Idle
  BY <1>1 DEF Fits
<1>4. pc[c] \in Building => loc[c] \in Making
  BY <1>1 DEF Fits
<1> QED BY <1>2, <1>3, <1>4 DEF Idle

\* A build touches the files of its own key only; of the others it may supersede a row.
LEMMA FilesElsewhere ==
  ASSUME Typed, NEW d \in Client, Build(d), NEW k \in Key, k # loc[d].key
  PROVE  /\ part'[k] = part[k] /\ disk'[k] = disk[k]
         /\ art'[k] = art[k] \/ art'[k].state = "superseded"
<1>1. art \in [Key -> ArtRow] /\ DOMAIN part = Key /\ DOMAIN disk = Key
  BY DEF Typed, FilesOK
<1>2. CASE UNCHANGED <<art, disk>>
  BY <1>1, <1>2 DEF Build, BeginBuild, CheckApproval, CheckDrift, CheckLinked, BeginWriting, ReadEdits, Rename,
     MakeReady, StartFailing, FailBuild, CrashBuild, buildVars
<1>3. CASE BeginWriting(d) \/ FailBuild(d)
  BY <1>1, <1>3 DEF BeginWriting, FailBuild
<1>4. CASE Rename(d)
  BY <1>1, <1>4 DEF Rename
<1>5. CASE MakeReady(d)
  <2>1. art'[k] = art[k] \/ art'[k] = [art[k] EXCEPT !.state = "superseded"]
    BY <1>1, <1>5 DEF MakeReady, Superseding
  <2> QED BY <1>1, <1>5, <2>1 DEF MakeReady, ArtRow
<1> QED BY <1>2, <1>3, <1>4, <1>5 DEF Build, BeginBuild, CheckApproval, CheckDrift, CheckLinked, ReadEdits,
        StartFailing, CrashBuild, buildVars

\* What a client remembers of its build, and where it stands, changes by its own steps.
LEMMA OnlyItself ==
  ASSUME Typed, NEW c \in Client, NEW d \in Client, c # d, Build(d) \/ Request(d)
  PROVE  pc'[c] = pc[c] /\ loc'[c] = loc[c]
<1>1. PICK place, l : Goto(d, place, l)
  BY DEF Build, BeginBuild, CheckApproval, CheckDrift, CheckLinked, BeginWriting, ReadEdits, Rename,
     MakeReady, StartFailing, FailBuild, CrashBuild, Request, GiveUp, EnsureChangeSet, ReadVersion,
     FindChangeSet, TakeFingerprint, InsertChangeSet, BeginDecide, Decide, BeginReanalysis, MarkStale,
     BumpAnalysis, ReadBatch, WriteBatch
<1> QED BY <1>1 DEF Goto, Typed, PlacesOK

\* The step of a build keeps its own file.
LEMMA OwnFile ==
  ASSUME Typed, Typed', OneClientPerKey, FileInv, NEW c \in Client, Build(c)
  PROVE  /\ Hands(c)'
         /\ loc[c].request = "build" =>
              /\ part'[loc[c].key] \subseteq part[loc[c].key] \cup {c}
              /\ art'[loc[c].key].state = "ready" => disk'[loc[c].key] = art'[loc[c].key].edits
<1>1. art \in [Key -> ArtRow] /\ disk \in [Key -> {None, Mixed} \cup SUBSET Edit] /\ part \in [Key -> SUBSET Client]
  BY DEF Typed, FilesOK
<1>2. pc \in [Client -> Places] /\ loc \in [Client -> Memory]
  BY DEF Typed, PlacesOK
<1>b. Blank.request = "none"
  BY DEF Blank
<1>3. CASE \E k \in Key, a \in Approval \cup {None} : BeginBuild(c, k, a)
  <2>1. PICK k \in Key, a \in Approval \cup {None} : BeginBuild(c, k, a)
    BY <1>3
  <2>2. loc'[c].key = k /\ k \in KeysOf[c] /\ pc'[c] \in {"version", "check"}
    BY <1>2, <2>1 DEF BeginBuild, Goto
  <2>3. loc[c].request = "none"
    BY <2>1, MakingIsBuilding DEF BeginBuild
  <2> QED BY <2>2, <2>3 DEF Hands
<1> SUFFICES ASSUME ~ \E k \in Key, a \in Approval \cup {None} : BeginBuild(c, k, a)
             PROVE  Hands(c)'
                    /\ (loc[c].request = "build" =>
                          /\ part'[loc[c].key] \subseteq part[loc[c].key] \cup {c}
                          /\ art'[loc[c].key].state = "ready" => disk'[loc[c].key] = art'[loc[c].key].edits)
  BY <1>3
<1>4. loc[c].request = "build"
  BY MakingIsBuilding DEF Build, CheckApproval, CheckDrift, CheckLinked, BeginWriting, ReadEdits, Rename, MakeReady,
     StartFailing, FailBuild, CrashBuild, Building
<1> DEFINE k == loc[c].key
<1>5. /\ loc[c] \in Making /\ k \in Key /\ k \in KeysOf[c] /\ Hands(c)
      /\ art[k].state = "ready" => disk[k] = art[k].edits
  BY <1>4, MakingIsBuilding DEF FileInv, FileIsWhole, Hands, Making
<1>6. part[k] \subseteq {c}
  BY <1>1, <1>5 DEF FileInv, OwnParts, OneClientPerKey
<1> HIDE DEF k
<1>7. CASE CheckApproval(c) \/ CheckDrift(c) \/ CheckLinked(c)
  <2>1. UNCHANGED buildVars /\ pc'[c] \in {"version", "linked"}
    BY <1>2, <1>7 DEF CheckApproval, CheckDrift, CheckLinked, Goto
  <2>2. loc'[c].key = k
    <3>1. CASE CheckApproval(c)
      <4>1. loc'[c] = [loc[c] EXCEPT !.stale = apr[loc[c].approval].state = "stale",
                                     !.agreed = apr[loc[c].approval].fp]
        BY <1>2, <3>1 DEF CheckApproval, Goto
      <4> QED BY <1>5, <4>1 DEF Making, k
    <3>2. CASE CheckDrift(c)
      <4>1. loc'[c] = [loc[c] EXCEPT !.agreed = None, !.fp = None]
        BY <1>2, <3>2 DEF CheckDrift, Goto
      <4> QED BY <1>5, <4>1 DEF Making, k
    <3>3. CASE CheckLinked(c)
      <4>1. loc'[c] = [loc[c] EXCEPT !.next = "begin"]
        BY <1>2, <3>3 DEF CheckLinked, Goto
      <4> QED BY <1>5, <4>1 DEF Making, k
    <3> QED BY <1>7, <3>1, <3>2, <3>3
  <2> QED BY <1>5, <2>1, <2>2 DEF Hands, buildVars, k
<1>8. CASE BeginWriting(c)
  <2>1. pc'[c] = "edits" /\ loc'[c].key = k /\ UNCHANGED <<disk, part>>
    BY <1>2, <1>5, <1>8 DEF BeginWriting, Goto, Making, k
  <2>2. art'[k].state = "building"
    BY <1>1, <1>5, <1>8 DEF BeginWriting, ArtRow, k
  <2> QED BY <1>5, <2>1, <2>2 DEF Hands, k
<1>9. CASE ReadEdits(c)
  <2>1. pc[c] = "edits" /\ pc'[c] = "rename" /\ loc'[c].key = k /\ UNCHANGED <<disk, art>>
    BY <1>2, <1>5, <1>9 DEF ReadEdits, Goto, Making, k
  <2>2. part'[k] = part[k] \cup {c}
    BY <1>1, <1>5, <1>9 DEF ReadEdits, k
  <2> QED BY <1>4, <1>5, <2>1, <2>2 DEF Hands, k
<1>10. CASE Rename(c)
  <2>1. part[k] = {c} /\ pc[c] = "rename"
    BY <1>4, <1>5, <1>6, <1>10 DEF Rename, Hands, k
  <2>2. pc'[c] = "publish" /\ loc'[c] = loc[c] /\ art' = art
    BY <1>2, <1>10, <2>1 DEF Rename, Goto, k
  <2>3. disk'[k] = loc[c].edits /\ part'[k] = {}
    BY <1>1, <1>5, <1>10, <2>1 DEF Rename, k
  <2> QED BY <1>4, <1>5, <2>1, <2>2, <2>3 DEF Hands, k
<1>11. CASE MakeReady(c)
  <2>1. pc[c] = "publish" /\ loc'[c] = Blank /\ UNCHANGED <<disk, part>>
    BY <1>2, <1>11 DEF MakeReady, Goto
  <2>2. disk[k] = loc[c].edits
    BY <1>4, <1>5, <2>1 DEF Hands, k
  <2>3. art'[k] = [art[k] EXCEPT !.state = "ready", !.by = loc[c].approval, !.edits = loc[c].edits]
    BY <1>1, <1>5, <1>11 DEF MakeReady, Superseding, k
  <2>4. art'[k].edits = loc[c].edits
    BY <1>1, <1>5, <2>3 DEF ArtRow
  <2> QED BY <1>b, <2>1, <2>2, <2>4 DEF Hands, k
<1>12. CASE StartFailing(c)
  <2>1. pc[c] \in {"edits", "rename"} /\ pc'[c] = "failing" /\ loc'[c] = loc[c] /\ UNCHANGED <<art, disk>>
    BY <1>2, <1>12 DEF StartFailing, Goto
  <2>2. part'[k] = part[k] \ {c}
    BY <1>1, <1>5, <1>12 DEF StartFailing, k
  <2> QED BY <1>4, <1>5, <2>1, <2>2 DEF Hands, k
<1>13. CASE FailBuild(c)
  <2>1. loc'[c] = Blank /\ UNCHANGED <<disk, part>>
    BY <1>2, <1>13 DEF FailBuild, Goto
  <2>2. art'[k].state = "failed"
    BY <1>1, <1>5, <1>13 DEF FailBuild, ArtRow, k
  <2> QED BY <1>b, <2>1, <2>2 DEF Hands, k
<1>14. CASE CrashBuild(c)
  <2>1. loc'[c] = Blank /\ UNCHANGED <<disk, art>> /\ part'[k] = part[k] \ {c}
    BY <1>1, <1>2, <1>5, <1>14 DEF CrashBuild, Goto, k
  <2> QED BY <1>b, <1>5, <2>1 DEF Hands, k
<1> QED BY <1>7, <1>8, <1>9, <1>10, <1>11, <1>12, <1>13, <1>14 DEF Build

\* A request for a decision or a re-analysis takes no build anywhere near its file, and the
\* steps a build shares with them leave it its key.
LEMMA RequestKeepsHands ==
  ASSUME Typed, FileInv, NEW c \in Client, Request(c), UNCHANGED buildVars
  PROVE  Hands(c)'
<1>1. pc \in [Client -> Places] /\ loc \in [Client -> Memory]
  BY DEF Typed, PlacesOK
<1>2. CASE EnsureChangeSet(c) /\ loc[c] \in Making
  <2>1. /\ loc'[c].key = loc[c].key \/ loc'[c] = Blank
        /\ pc'[c] \in {"lookup", "fingerprint", "insert", "begin", "drift"}
    <3>1. loc[c].next \in {"begin", "drift"} /\ loc[c] \in Making
      BY <1>2 DEF Making
    <3>2. CASE ReadVersion(c)
      BY <1>1, <3>1, <3>2 DEF ReadVersion, Goto, Making
    <3>3. CASE FindChangeSet(c)
      BY <1>1, <3>1, <3>3 DEF FindChangeSet, Goto, Making
    <3>4. CASE TakeFingerprint(c)
      BY <1>1, <3>1, <3>4 DEF TakeFingerprint, Goto, Making
    <3>5. CASE InsertChangeSet(c)
      BY <1>1, <3>1, <3>5 DEF InsertChangeSet, Goto, Making
    <3> QED BY <1>2, <3>2, <3>3, <3>4, <3>5 DEF EnsureChangeSet
  <2>2. loc[c].key \in KeysOf[c]
    BY <1>2 DEF FileInv, Hands, Making
  <2> QED BY <2>1, <2>2 DEF Hands, Blank
<1>3. CASE EnsureChangeSet(c) /\ loc[c] \notin Making
  <2>1. loc[c].request # "build"
    BY <1>3, MakingIsBuilding
  <2>2. loc[c] \in Asking \cup Redoing
    BY <1>3 DEF EnsureChangeSet, ReadVersion, FindChangeSet, TakeFingerprint, InsertChangeSet, Ensuring,
       Typed, PlacesOK, Fits
  <2>3. loc'[c].request # "build"
    <3>1. loc[c].request \in {"decide", "reanalyze"} /\ "request" \in DOMAIN loc[c]
      BY <2>2 DEF Asking, Redoing
    <3>2. CASE ReadVersion(c)
      BY <1>1, <3>1, <3>2 DEF ReadVersion, Goto, Blank
    <3>3. CASE FindChangeSet(c)
      <4> DEFINE found == [loc[c] EXCEPT !.fp = cs[loc[c].ver], !.ver = 0]
      <4>1. found.request = loc[c].request
        BY <3>1
      <4>2. \/ \E p : Goto(c, p, loc[c])
            \/ \E p : Goto(c, p, found)
        BY <3>3 DEF FindChangeSet
      <4> HIDE DEF found
      <4>3. loc'[c] \in {loc[c], found, Blank}
        BY <1>1, <4>2 DEF Goto
      <4> QED BY <3>1, <4>1, <4>3 DEF Blank
    <3>4. CASE TakeFingerprint(c)
      BY <1>1, <3>1, <3>4 DEF TakeFingerprint, Goto, Blank
    <3>5. CASE InsertChangeSet(c)
      BY <1>1, <3>1, <3>5 DEF InsertChangeSet, Goto, Blank
    <3> QED BY <1>3, <3>2, <3>3, <3>4, <3>5 DEF EnsureChangeSet
  <2> QED BY <2>3 DEF Hands
<1>4. CASE \E op \in Op \cup {None} : BeginDecide(c, op)
  BY <1>1, <1>4 DEF BeginDecide, Goto, Hands
<1>5. CASE \E result \in Analysis : BeginReanalysis(c, result)
  BY <1>1, <1>5 DEF BeginReanalysis, Goto, Hands
<1>6. CASE \/ GiveUp(c)
           \/ \E filter \in SUBSET Ordinal, population \in Populations, d \in Decisions :
                Decide(c, filter, population, d)
  <2>1. loc'[c] = Blank
    BY <1>1, <1>6 DEF GiveUp, Decide, Goto
  <2> QED BY <2>1 DEF Hands, Blank
<1>7. CASE MarkStale(c) \/ BumpAnalysis(c) \/ ReadBatch(c) \/ WriteBatch(c)
  <2>1. loc[c] \in Redoing
    BY <1>7 DEF MarkStale, BumpAnalysis, ReadBatch, WriteBatch, Rewriting, Typed, PlacesOK, Fits
  <2>2. loc'[c].request # "build"
    <3>1. loc[c].request = "reanalyze" /\ "request" \in DOMAIN loc[c]
      BY <2>1 DEF Redoing
    <3>2. CASE MarkStale(c)
      BY <1>1, <3>1, <3>2 DEF MarkStale, Goto
    <3>3. CASE BumpAnalysis(c)
      BY <1>1, <3>1, <3>3 DEF BumpAnalysis, Goto
    <3>4. CASE ReadBatch(c)
      BY <1>1, <3>1, <3>4 DEF ReadBatch, Goto
    <3>5. CASE WriteBatch(c)
      BY <1>1, <3>1, <3>5 DEF WriteBatch, Goto
    <3> QED BY <1>7, <3>2, <3>3, <3>4, <3>5
  <2> QED BY <2>2 DEF Hands
<1> QED BY <1>2, <1>3, <1>4, <1>5, <1>6, <1>7 DEF Request

\* A step of one client keeps the hands of another.
LEMMA OthersKeepHands ==
  ASSUME Typed, OneClientPerKey, FileInv, NEW c \in Client, NEW d \in Client, c # d,
         Build(d) \/ (Request(d) /\ UNCHANGED buildVars)
  PROVE  Hands(c)'
<1>1. pc'[c] = pc[c] /\ loc'[c] = loc[c]
  BY OnlyItself
<1>2. CASE UNCHANGED buildVars
  BY <1>1, <1>2 DEF buildVars, FileInv, Hands
<1>3. CASE Build(d) /\ ~UNCHANGED buildVars /\ loc[c].request = "build"
  <2>1. loc[d].request = "build"
    BY <1>3, MakingIsBuilding DEF Build, BeginBuild, CheckApproval, CheckDrift, CheckLinked, BeginWriting, ReadEdits,
       Rename, MakeReady, StartFailing, FailBuild, CrashBuild, Building
  <2>2. loc[c].key \in KeysOf[c] /\ loc[d].key \in KeysOf[d]
    BY <1>3, <2>1 DEF FileInv, Hands
  <2>3. loc[c].key \in Key /\ loc[c].key # loc[d].key
    BY <1>3, <2>2, MakingIsBuilding DEF OneClientPerKey, Making
  <2>4. /\ part'[loc[c].key] = part[loc[c].key] /\ disk'[loc[c].key] = disk[loc[c].key]
        /\ art'[loc[c].key] = art[loc[c].key] \/ art'[loc[c].key].state = "superseded"
    BY <1>3, <2>3, FilesElsewhere
  <2> QED BY <1>1, <2>4 DEF FileInv, Hands
<1>4. CASE loc[c].request # "build"
  BY <1>1, <1>4 DEF Hands
<1> QED BY <1>2, <1>3, <1>4

LEMMA FileStep ==
  ASSUME Typed, Typed', OneClientPerKey, FileInv, [Next]_vars
  PROVE  FileInv'
<1>1. ASSUME NEW d \in Client, Build(d) PROVE FileInv'
  <2>1. ASSUME NEW c \in Client PROVE Hands(c)'
    BY <1>1, OwnFile, OthersKeepHands
  <2>2. ASSUME NEW k \in Key
        PROVE  /\ \A c \in part'[k] : k \in KeysOf[c]
               /\ art'[k].state = "ready" => disk'[k] = art'[k].edits
    <3>1. CASE UNCHANGED buildVars
      BY <3>1 DEF buildVars, FileInv, OwnParts, FileIsWhole
    <3>2. CASE k # loc[d].key
      BY <1>1, <3>2, FilesElsewhere DEF FileInv, OwnParts, FileIsWhole
    <3>3. CASE k = loc[d].key /\ ~UNCHANGED buildVars
      <4>1. loc[d].request = "build"
        BY <1>1, <3>3, MakingIsBuilding DEF Build, BeginBuild, CheckApproval, CheckDrift, CheckLinked, BeginWriting,
           ReadEdits, Rename, MakeReady, StartFailing, FailBuild, CrashBuild, Building
      <4>2. k \in KeysOf[d]
        BY <3>3, <4>1 DEF FileInv, Hands
      <4> QED BY <1>1, <3>3, <4>1, <4>2, OwnFile DEF FileInv, OwnParts
    <3> QED BY <3>1, <3>2, <3>3
  <2> QED BY <2>1, <2>2 DEF FileInv, OwnParts, FileIsWhole
<1>2. ASSUME NEW d \in Client, Request(d), UNCHANGED buildVars PROVE FileInv'
  <2>1. ASSUME NEW c \in Client PROVE Hands(c)'
    BY <1>2, RequestKeepsHands, OthersKeepHands
  <2> QED BY <1>2, <2>1 DEF FileInv, OwnParts, FileIsWhole, buildVars
<1>3. CASE WorkerPresents \/ UNCHANGED vars
  BY <1>3 DEF WorkerPresents, vars, clientVars, buildVars, FileInv, OwnParts, FileIsWhole, Hands
<1> QED BY <1>1, <1>2, <1>3 DEF Next

-----------------------------------------------------------------------------
(* The theorems.                                                           *)

Inv == /\ Typed /\ Ledger /\ Gathered /\ AppliedWasApproved
       /\ \A c \in Client : Rewrites(c)

\* The invariant that the properties below are conjuncts of holds in every
\* reachable state.
THEOREM ReviewIsSound == Spec => []Inv
<1>1. InitArtifacts => Inv
  <2> SUFFICES ASSUME InitArtifacts PROVE Inv
    OBVIOUS
  <2>1. Gathered /\ AppliedWasApproved
    BY DEF InitArtifacts, Init, Gathered, AppliedWasApproved, Built, NoArtifact
  <2>2. \A c \in Client : Rewrites(c)
    BY DEF InitArtifacts, Init, Rewrites, Blank
  <2> QED BY <2>1, <2>2, TypedInit, LedgerInit DEF Inv
<1>2. Inv /\ [Next]_vars => Inv'
  <2> SUFFICES ASSUME Inv, [Next]_vars PROVE Inv'
    OBVIOUS
  <2>1. Typed' /\ Ledger'
    BY TypedStep, LedgerStep DEF Inv
  <2>2. Gathered' /\ AppliedWasApproved'
    BY <2>1, GatheredStep DEF Inv
  <2>3. \A c \in Client : Rewrites(c)'
    BY <2>1, RewritesStep DEF Inv
  <2> QED BY <2>1, <2>2, <2>3 DEF Inv
<1> QED BY <1>1, <1>2, PTL DEF Spec

\* The tables, the places of the clients and the files have their types.
THEOREM TypeCorrect == Spec => []TypeOK
<1>1. ASSUME Typed PROVE TypeOK
  <2>1. ASSUME NEW a \in Approval PROVE AprRow(apr[a])
    <3>1. apr[a] \in Row
      BY <1>1 DEF Typed, TablesOK
    <3>2. PICK S \in SUBSET Ordinal : apr[a].members \in [S -> Nat]
      BY <3>1 DEF Row
    <3> QED BY <3>1, <3>2 DEF Row, AprRow
  <2>2. ASSUME NEW c \in Client PROVE loc[c].request \in {"none", "decide", "reanalyze", "build"}
    BY <1>1 DEF Typed, PlacesOK, Memory, Idle, Asking, Redoing, Making
  <2> QED BY <1>1, <2>1, <2>2 DEF Typed, TablesOK, PlacesOK, FilesOK, TypeOK
<1>2. Inv => TypeOK
  BY <1>1 DEF Inv
<1> QED BY <1>2, ReviewIsSound, PTL

\* A decision in force is the one of the approval that holds its version, for
\* any number of reviewers and analysts whose requests interleave.
THEOREM DecisionsAreRecorded == Spec => []DecisionIsRecorded
<1>1. Inv => DecisionIsRecorded
  BY DEF Inv, Ledger
<1> QED BY <1>1, ReviewIsSound, PTL

\* What a re-analysis has passed carries no decision from before it, although
\* it reads a batch in one step and writes it in another that looks at nothing.
THEOREM OldDecisionsAreReset == Spec => []ResetsDecisions
<1>1. Inv => ResetsDecisions
  BY RewritesIsResets DEF Inv
<1> QED BY <1>1, ReviewIsSound, PTL

\* Every edit of a corrected file was approved in the selection its manifest
\* names, as the candidate the reviewer was shown.
THEOREM OnlyApprovedIsApplied == Spec => []AppliedWasApproved
<1>1. Inv => AppliedWasApproved
  BY DEF Inv
<1> QED BY <1>1, ReviewIsSound, PTL

\* If no two clients give one key, an artifact that is ready is the file that was renamed into
\* place for it, whatever builds failed, died or were repeated before.
THEOREM ReadyIsOnDisk ==
  ASSUME OneClientPerKey
  PROVE  Spec => []ArtifactsAreWhole
<1>1. InitArtifacts => FileInv
  BY DEF InitArtifacts, Init, NoArtifact, Blank, FileInv, FileIsWhole, OwnParts, Hands
<1>2. Inv /\ Inv' /\ FileInv /\ [Next]_vars => FileInv'
  BY FileStep DEF Inv
<1>3. FileInv /\ TypeOK => ArtifactsAreWhole
  BY DEF FileInv, ArtifactsAreWhole
<1> QED BY <1>1, <1>2, <1>3, ReviewIsSound, TypeCorrect, PTL DEF Spec
=============================================================================
