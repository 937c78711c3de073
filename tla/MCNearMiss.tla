----------------------------- MODULE MCNearMiss ------------------------------
(* Small tables for NearMiss.                                              *)
EXTENDS NearMiss, TLC

Flagged == <<"L", "E", "A", "U", "1", "1", "5", "0", "1", "0">>
Sound(body) == body \o <<Char(Iso6346CheckDigit(body))>>
Unsound(body) == body \o <<Char((Iso6346CheckDigit(body) + 3) % 10)>>

At(body, i, ch) == [body EXCEPT ![i] = ch]

\* One slip away: in the letters, at either end of the serial, and swaps.
OneSlip == {At(Flagged, 1, "E"), SwapAt(Flagged, 2), At(Flagged, 4, "J"), At(Flagged, 5, "9"), At(Flagged, 7, "0"),
            At(Flagged, 10, "5"), SwapAt(Flagged, 6), SwapAt(Flagged, 9)}
\* Two slips away, some of which a probe meets, and three.
TwoSlips == {At(SwapAt(Flagged, 9), 7, "0"), At(At(Flagged, 1, "E"), 10, "5"), SwapAt(SwapAt(Flagged, 6), 8),
             SwapAt(SwapAt(Flagged, 7), 6), At(At(At(Flagged, 8, "1"), 9, "7"), 10, "7")}

Pool == {Sound(b) : b \in OneSlip \cup TwoSlips \cup {Flagged}} \cup {Unsound(Flagged), Unsound(At(Flagged, 10, "5"))}

\* Some are seen as often as others.
Counted(rows) == [r \in rows |-> 1 + (Value(r[11]) % 2)]

AllFleets == {Counted(rows) : rows \in UNION {kSubset(k, Pool) : k \in 1..3} \cup {Pool}}
AllTokens == {Unsound(Flagged), Unsound(At(Flagged, 7, "0"))}
=============================================================================
