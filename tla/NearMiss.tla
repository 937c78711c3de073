------------------------------ MODULE NearMiss -------------------------------
(***************************************************************************)
(* Proposals for a number that cannot be corrected: indexed probes of the  *)
(* containers seen before (db.candidate_neighbors), and the nearest of     *)
(* what they find (nearmiss.suggest, service.near_misses_for).             *)
(***************************************************************************)
EXTENDS Kernel

CONSTANTS
  Fleets,     \* the tables: a function from the numbers seen to how often
  Tokens,     \* the numbers that are flagged
  PerProbe    \* rows a probe returns at most

VARIABLES
  fleet,      \* the table
  token,      \* the number
  probe,      \* the next probe
  found,      \* the rows found so far
  cut,        \* the probes that left rows out
  proposals   \* the answer, best first

nearVars == <<fleet, token, probe, found, cut, proposals>>

Body(t) == SubSeq(t, 1, 10)

Init ==
  /\ fleet \in Fleets /\ token \in Tokens
  /\ probe = 1 /\ found = {} /\ cut = {} /\ proposals = None

(* ---- the probes ---- *)

Begins(row, prefix) == SubSeq(row, 1, Len(prefix)) = prefix

SwapAt(body, p) == [body EXCEPT ![p] = body[p + 1], ![p + 1] = body[p]]

\* Probe 1 is for the serial, 2 for the first five characters, 3 to 8 for a
\* substitution in the serial and 9 to 13 for two of its neighbours swapped.
HitsBefore(n, row) ==
  LET b == Body(token)
  IN  CASE n = 1 -> SubSeq(row, 5, 10) = SubSeq(b, 5, 10)
        [] n = 2 -> Begins(row, SubSeq(b, 1, 5))
        [] n \in 3..8 -> Begins(row, SubSeq(b, 1, n + 1)) /\ SubSeq(row, n + 3, 11) = SubSeq(token, n + 3, 11)
        [] n \in 9..13 -> SwapAt(b, n - 4) # b /\ Begins(row, SwapAt(b, n - 4))
Hits(n, row) ==
  LET b == Body(token)
  IN  CASE n = 1 -> SubSeq(row, 5, 10) = SubSeq(b, 5, 10)
        [] n = 2 -> Begins(row, SubSeq(b, 1, 5))
        [] n \in 3..8 -> Begins(row, SubSeq(b, 1, n + 1)) /\ SubSeq(row, n + 3, 10) = SubSeq(b, n + 3, 10)
        [] n \in 9..13 -> SwapAt(b, n - 4) # b /\ Begins(row, SwapAt(b, n - 4))

Probes == 13

\* The rows seen most often; which of equals is left open.
Probe ==
  /\ probe <= Probes
  /\ LET hits == {row \in DOMAIN fleet : Hits(probe, row)}
     IN  \E rows \in SUBSET hits :
           /\ Cardinality(rows) = IF Cardinality(hits) > PerProbe THEN PerProbe ELSE Cardinality(hits)
           /\ \A r \in rows, other \in hits \ rows : fleet[r] >= fleet[other]
           /\ found' = found \cup rows
           /\ cut' = IF rows = hits THEN cut ELSE cut \cup {probe}
  /\ probe' = probe + 1
  /\ UNCHANGED <<fleet, token, proposals>>

(* ---- how far apart two bodies are ---- *)

MaxDistance == 2
Limit       == 3

Least(S) == CHOOSE n \in S : \A m \in S : n <= m

\* One row of the table: row[j + 1] is the distance to the first j characters of b.
RowOf(a, b, i, prev, prev2) ==
  LET Cell(row, j) ==
        LET same == IF a[i] = b[j] THEN 0 ELSE 1
            swap == IF i > 1 /\ j > 1 /\ a[i] = b[j - 1] /\ a[i - 1] = b[j] THEN {prev2[j - 1] + 1} ELSE {}
        IN  Append(row, Least({prev[j + 1] + 1, row[j] + 1, prev[j] + same} \cup swap))
  IN  FoldLeft(Cell, <<i>>, [j \in 1..Len(b) |-> j])

\* Exact up to MaxDistance, and MaxDistance + 1 as soon as a whole row is beyond it.
OsaDistance(a, b) ==
  LET far == MaxDistance + 1
      Step(s, i) ==
        IF s.over THEN s
        ELSE LET row == RowOf(a, b, i, s.prev, s.prev2)
             IN  [prev |-> row, prev2 |-> s.prev, over |-> Least(Range(row)) > MaxDistance]
      last == FoldLeft(Step, [prev |-> [j \in 1..(Len(b) + 1) |-> j - 1], prev2 |-> <<>>, over |-> FALSE],
                       [i \in 1..Len(a) |-> i])
      d == last.prev[Len(b) + 1]
  IN  IF a = b THEN 0 ELSE IF last.over \/ d > MaxDistance THEN far ELSE d

(* ---- the proposals ---- *)

PoolCheckValid(row) == Char(Iso6346CheckDigit(Body(row))) = row[11]

Candidates == {row \in found : PoolCheckValid(row) /\ row # token}

Lower(r1, r2) == \E i \in 1..11 : Value(r1[i]) < Value(r2[i]) /\ \A k \in 1..(i - 1) : r1[k] = r2[k]

Better(s1, s2) ==
  \/ s1.distance < s2.distance
  \/ s1.distance = s2.distance /\ s1.seen > s2.seen
  \/ s1.distance = s2.distance /\ s1.seen = s2.seen /\ Lower(s1.eqid, s2.eqid)

Suggest ==
  /\ probe > Probes /\ proposals = None
  /\ LET near == {[eqid |-> r, distance |-> OsaDistance(Body(token), Body(r)), seen |-> fleet[r]] : r \in Candidates}
         close  == {s \in near : s.distance <= MaxDistance}
         ranked == [i \in 1..Cardinality(close) |->
                      CHOOSE s \in close : Cardinality({t \in close : Better(t, s)}) = i - 1]
     IN  proposals' = SubSeq(ranked, 1, IF Len(ranked) < Limit THEN Len(ranked) ELSE Limit)
  /\ UNCHANGED <<fleet, token, probe, found, cut>>

Next == Probe \/ Suggest

Spec == Init /\ [][Next]_nearVars

(* ---- types ---- *)

\* The numbers the service looks near: four letters and six digits (_RE_BODY10), seen or at hand.
BodyShaped(b) == Len(b) = 10 /\ AllIn(SubSeq(b, 1, 4), Letter) /\ AllIn(SubSeq(b, 5, 10), Digit)

\* What the theorem assumes of the constants.
NumbersAreShaped(alphabet) ==
  /\ \A t \in Tokens : t \in Seq(alphabet) /\ Len(t) >= 10 /\ BodyShaped(Body(t))
  /\ \A table \in Fleets : \A row \in DOMAIN table : row \in Seq(alphabet) /\ Len(row) = 11 /\ BodyShaped(Body(row))

(* ---- properties ---- *)

\* Where two bodies differ.
Apart(a, b) == {i \in DOMAIN a : a[i] # b[i]}

Swapped(a, b) == \E i \in 1..9 : Apart(a, b) = {i, i + 1} /\ b = SwapAt(a, i)

\* One misread character, or two neighbours swapped.
Slip(a, b) == Cardinality(Apart(a, b)) <= 1 \/ Swapped(a, b)

(* db.py:452-462: the probes together meet every number seen that is one   *)
(* slip away from the one at hand, unless one of them left rows out.       *)
SlipsAreMet ==
  probe > Probes /\ cut = {} =>
    \A row \in DOMAIN fleet : Slip(Body(token), Body(row)) => row \in found

(* db.py:452-462 and nearmiss.py:14-20: a sound number that was seen       *)
(* before, and that the number at hand is one slip away from, is proposed  *)
(* with its distance, unless a probe had more rows than it may return or   *)
(* better proposals fill the list; whatever is proposed is sound, is not   *)
(* the number itself, and comes in the order of its distance.              *)
NearMissFound ==
  /\ SlipsAreMet
  /\ proposals # None =>
    LET Named(row) == \E i \in DOMAIN proposals : proposals[i].eqid = row
    IN  /\ \A row \in DOMAIN fleet :
             Slip(Body(token), Body(row)) /\ PoolCheckValid(row) /\ row # token /\ cut = {} =>
               Named(row) \/ (Len(proposals) = Limit /\ proposals[Limit].distance <= 1)
        /\ \A i \in DOMAIN proposals :
             LET there == Apart(Body(token), Body(proposals[i].eqid))
             IN  /\ PoolCheckValid(proposals[i].eqid) /\ proposals[i].eqid # token
                 /\ (proposals[i].distance = 0) = (there = {})
                 /\ (proposals[i].distance = 1) = (there # {} /\ Slip(Body(token), Body(proposals[i].eqid)))
                 /\ \A k \in 1..(i - 1) : proposals[k].distance <= proposals[i].distance
=============================================================================
