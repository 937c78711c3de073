---------------------------- MODULE ServiceProofs ----------------------------
(***************************************************************************)
(* What the public service owes whoever calls it, for every file, every    *)
(* rule of the operator and every upload.  A corrected file differs from   *)
(* the one uploaded only in check digits the request allows to change, and *)
(* comes back unchanged when it is sent again under the same rules.        *)
(* The counters of a container add up, and the tables keep of the sources' *)
(* answers what their terms allow, once, however the background tasks      *)
(* interleave, fail or stop.  The probes for the number that was meant     *)
(* meet every number one slip away.                                        *)
(***************************************************************************)
EXTENDS Correction, Warehouse, FiniteSetTheorems, SequenceTheorems, WellFoundedInduction, TLAPS

(* ---- induction ---- *)

\* What holds at zero and passes from each number to the next holds up to N: the numbers where
\* it does not would have a smallest one.
LEMMA IntervalInduction ==
  ASSUME NEW N \in Nat, NEW S, 0 \in S, \A n \in 0 .. N - 1 : n \in S => n + 1 \in S
  PROVE  0 .. N \subseteq S
<1> SUFFICES ASSUME NEW b \in 0 .. N, b \notin S PROVE FALSE
  OBVIOUS
<1> DEFINE T == {0 .. n : n \in (0 .. N) \ S}
           W == FiniteSubsetsOf(0 .. N)
<1>1. IsWellFoundedOn(StrictSubsetOrdering(0 .. N), W)
  BY FS_StrictSubsetOrderingWellFounded
<1>2. T \subseteq W /\ T # {}
  <2>1. ASSUME NEW n \in (0 .. N) \ S PROVE 0 .. n \in W
    <3>1. IsFiniteSet(0 .. n) BY FS_Interval
    <3>2. 0 .. n \subseteq 0 .. N OBVIOUS
    <3> QED BY <3>1, <3>2 DEF FiniteSubsetsOf
  <2>2. 0 .. b \in T OBVIOUS
  <2> QED BY <2>1, <2>2
<1>3. \E x \in T : \A y \in T : ~ (<<y, x>> \in StrictSubsetOrdering(0 .. N))
  <2> HIDE DEF T, W
  <2> QED BY <1>1, <1>2, WFMin
<1>4. PICK m \in (0 .. N) \ S : \A y \in T : ~ (<<y, 0 .. m>> \in StrictSubsetOrdering(0 .. N))
  BY <1>3
<1>5. m # 0 /\ m - 1 \in 0 .. N - 1 /\ m - 1 + 1 = m
  BY <1>4
<1>6. m - 1 \in (0 .. N) \ S
  BY <1>4, <1>5
<1>7. 0 .. (m - 1) \in T
  BY <1>6
<1>8. <<0 .. (m - 1), 0 .. m>> \in StrictSubsetOrdering(0 .. N)
  BY <1>4, <1>5 DEF StrictSubsetOrdering
<1> QED BY <1>4, <1>7, <1>8

(* ---- recursive functions ---- *)

SelectingRec(g, t, S, n) ==
  g = [i \in 0 .. n |-> IF i = 0 THEN <<>> ELSE IF t[i] \in S THEN Append(g[i - 1], t[i]) ELSE g[i - 1]]

\* The recursive equation of a selection has a solution.
LEMMA SelectingExists ==
  ASSUME NEW t, NEW S, NEW N \in Nat
  PROVE  \E g : SelectingRec(g, t, S, N)
<1> DEFINE More(s, i) == IF t[i] \in S THEN Append(s, t[i]) ELSE s
           D == {n \in 0 .. N : \E g : SelectingRec(g, t, S, n)}
<1>1. 0 \in D
  <2> DEFINE g == [i \in 0 .. 0 |-> <<>>]
  <2>1. SelectingRec(g, t, S, 0)
    BY DEF SelectingRec
  <2> QED BY <2>1
<1>2. ASSUME NEW n \in 0 .. N - 1, n \in D PROVE n + 1 \in D
  <2>1. PICK h : SelectingRec(h, t, S, n)
    BY <1>2
  <2> DEFINE g == [i \in 0 .. n + 1 |-> IF i <= n THEN h[i] ELSE More(h[n], n + 1)]
  <2>2. \A i \in 0 .. n : h[i] = IF i = 0 THEN <<>> ELSE More(h[i - 1], i)
    BY <2>1 DEF SelectingRec
  <2> HIDE DEF More
  <2>3. ASSUME NEW i \in 0 .. n + 1
        PROVE  g[i] = IF i = 0 THEN <<>> ELSE More(g[i - 1], i)
    <3>1. CASE i = 0
      <4>1. g[i] = h[i] /\ i \in 0 .. n BY <3>1
      <4> QED BY <2>2, <3>1, <4>1
    <3>2. CASE i \in 1 .. n
      <4>1. g[i] = h[i] /\ g[i - 1] = h[i - 1] BY <3>2
      <4> QED BY <2>2, <3>2, <4>1
    <3>3. CASE i = n + 1
      <4>1. i - 1 = n /\ i # 0 /\ ~(i <= n) BY <3>3
      <4>2. g[n] = h[n] /\ g[i] = More(h[n], n + 1) BY <4>1
      <4> HIDE DEF g
      <4> QED BY <3>3, <4>1, <4>2
    <3> QED BY <3>1, <3>2, <3>3
  <2>4. SelectingRec(g, t, S, n + 1)
    <3>1. g = [i \in 0 .. n + 1 |-> g[i]] OBVIOUS
    <3> HIDE DEF g
    <3>2. [i \in 0 .. n + 1 |-> g[i]] = [i \in 0 .. n + 1 |-> IF i = 0 THEN <<>> ELSE More(g[i - 1], i)]
      BY <2>3
    <3> QED BY <3>1, <3>2 DEF SelectingRec, More
  <2> QED BY <2>4
<1>3. 0 .. N \subseteq D
  <2> HIDE DEF D
  <2> QED BY <1>1, <1>2, IntervalInduction
<1> QED BY <1>3

\* A selection is built one element after the other.
LEMMA SelectingIs ==
  ASSUME NEW t, NEW S, Len(t) \in Nat
  PROVE  /\ Selecting(t, S)[0] = <<>>
         /\ \A i \in 1 .. Len(t) :
              Selecting(t, S)[i] = IF t[i] \in S THEN Append(Selecting(t, S)[i - 1], t[i]) ELSE Selecting(t, S)[i - 1]
<1> DEFINE N == Len(t)
           h == CHOOSE h : h = [i \in 0 .. N |-> IF i = 0 THEN <<>> ELSE IF t[i] \in S THEN Append(h[i - 1], t[i]) ELSE h[i - 1]]
<1>1. N \in Nat
  OBVIOUS
<1>2. \E g : g = [i \in 0 .. N |-> IF i = 0 THEN <<>> ELSE IF t[i] \in S THEN Append(g[i - 1], t[i]) ELSE g[i - 1]]
  <2> HIDE DEF N, h
  <2>1. PICK g : SelectingRec(g, t, S, N)
    BY <1>1, SelectingExists
  <2> QED BY <2>1 DEF SelectingRec
<1>3. SelectingRec(h, t, S, N)
  BY <1>2 DEF SelectingRec
<1>4. Selecting(t, S) = h
  BY DEF Selecting
<1> HIDE DEF h, N
<1>5. \A i \in 0 .. N : h[i] = IF i = 0 THEN <<>> ELSE IF t[i] \in S THEN Append(h[i - 1], t[i]) ELSE h[i - 1]
  BY <1>3 DEF SelectingRec
<1>6. h[0] = <<>>
  <2>1. 0 \in 0 .. N BY DEF N
  <2> QED BY <1>5, <2>1, Zenon
<1>7. ASSUME NEW i \in 1 .. N PROVE h[i] = IF t[i] \in S THEN Append(h[i - 1], t[i]) ELSE h[i - 1]
  <2>1. i \in 0 .. N /\ i # 0 BY DEF N
  <2> QED BY <1>5, <2>1, Zenon
<1> QED BY <1>4, <1>6, <1>7 DEF N

\* What is selected are the elements in S, each as often as it stands there.
LEMMA OnlyIs ==
  ASSUME NEW T, NEW t \in Seq(T), NEW S
  PROVE  /\ Only(t, S) \in Seq(T \cap S)
         /\ \A p \in DOMAIN t : t[p] \in S => \E k \in DOMAIN Only(t, S) : Only(t, S)[k] = t[p]
         /\ \A k \in DOMAIN Only(t, S) : \E p \in DOMAIN t : Only(t, S)[k] = t[p] /\ t[p] \in S
<1> DEFINE N == Len(t)
           K == Selecting(t, S)
           D == {i \in 0 .. N : /\ K[i] \in Seq(T \cap S)
                                /\ \A p \in 1 .. i : t[p] \in S => \E k \in DOMAIN K[i] : K[i][k] = t[p]
                                /\ \A k \in DOMAIN K[i] : \E p \in 1 .. i : K[i][k] = t[p] /\ t[p] \in S}
<1>1. N \in Nat /\ DOMAIN t = 1 .. N /\ t \in [1 .. N -> T]
  BY LenProperties
<1>2. K[0] = <<>> /\ \A i \in 1 .. N : K[i] = IF t[i] \in S THEN Append(K[i - 1], t[i]) ELSE K[i - 1]
  BY <1>1, SelectingIs
<1> HIDE DEF N, K
<1>3. 0 \in D
  <2>1. K[0] \in Seq(T \cap S) /\ DOMAIN K[0] = {} /\ 1 .. 0 = {}
    BY <1>2, EmptySeq
  <2>2. 0 \in 0 .. N
    BY <1>1
  <2> QED BY <2>1, <2>2
<1>4. ASSUME NEW i \in 0 .. N - 1, i \in D PROVE i + 1 \in D
  <2>1. i + 1 \in 1 .. N /\ i + 1 - 1 = i /\ i + 1 \in 0 .. N
    BY <1>1
  <2> DEFINE x == t[i + 1]
             s == K[i]
  <2>2. K[i + 1] = IF x \in S THEN Append(s, x) ELSE s
    BY <1>2, <2>1
  <2>3. x \in T /\ s \in Seq(T \cap S)
    BY <1>1, <1>4, <2>1
  <2>4. \A p \in 1 .. i : t[p] \in S => \E k \in DOMAIN s : s[k] = t[p]
    BY <1>4
  <2>5. \A k \in DOMAIN s : \E p \in 1 .. i : s[k] = t[p] /\ t[p] \in S
    BY <1>4
  <2>6. \A p \in 1 .. i + 1 : p \in 1 .. i \/ p = i + 1
    BY <2>1
  <2>7. \A p \in 1 .. i : p \in 1 .. i + 1
    BY <2>1
  <2>8. i + 1 \in 1 .. i + 1
    BY <2>1
  <2>9. CASE x \in S
    <3> DEFINE a == Append(s, x)
    <3>1. /\ a \in Seq(T \cap S) /\ Len(a) = Len(s) + 1
          /\ \A k \in 1 .. Len(s) : a[k] = s[k]
          /\ a[Len(s) + 1] = x
      BY <2>3, <2>9, AppendProperties
    <3>2. DOMAIN a = 1 .. Len(s) + 1 /\ DOMAIN s = 1 .. Len(s) /\ Len(s) \in Nat
      BY <2>3, <3>1, LenProperties
    <3> HIDE DEF a
    <3>3. \A k \in DOMAIN a : k \in DOMAIN s \/ k = Len(s) + 1
      BY <3>2
    <3>4. Len(s) + 1 \in DOMAIN a /\ \A k \in DOMAIN s : k \in DOMAIN a /\ a[k] = s[k]
      BY <3>1, <3>2
    <3>5. ASSUME NEW p \in 1 .. i + 1, t[p] \in S PROVE \E k \in DOMAIN a : a[k] = t[p]
      <4>1. CASE p = i + 1 BY <3>1, <3>4, <4>1
      <4>2. CASE p \in 1 .. i BY <2>4, <3>4, <3>5, <4>2
      <4> QED BY <2>6, <4>1, <4>2
    <3>6. ASSUME NEW k \in DOMAIN a PROVE \E p \in 1 .. i + 1 : a[k] = t[p] /\ t[p] \in S
      <4>1. CASE k = Len(s) + 1 BY <2>8, <2>9, <3>1, <4>1
      <4>2. CASE k \in DOMAIN s BY <2>5, <2>7, <3>4, <4>2
      <4> QED BY <3>3, <4>1, <4>2
    <3>7. K[i + 1] = a BY <2>2, <2>9 DEF a
    <3> QED BY <2>1, <3>1, <3>5, <3>6, <3>7
  <2>10. CASE x \notin S
    <3>1. K[i + 1] = s BY <2>2, <2>10
    <3>2. ASSUME NEW p \in 1 .. i + 1, t[p] \in S PROVE \E k \in DOMAIN s : s[k] = t[p]
      BY <2>4, <2>6, <2>10, <3>2
    <3>3. \A k \in DOMAIN s : \E p \in 1 .. i + 1 : s[k] = t[p] /\ t[p] \in S
      BY <2>5, <2>7
    <3> HIDE DEF s
    <3> QED BY <2>1, <2>3, <3>1, <3>2, <3>3
  <2> QED BY <2>9, <2>10
<1>5. 0 .. N \subseteq D
  <2> HIDE DEF D
  <2> QED BY <1>1, <1>3, <1>4, IntervalInduction
<1>6. N \in D
  BY <1>1, <1>5
<1>7. Only(t, S) = K[N]
  BY DEF Only, K, N
<1> QED BY <1>1, <1>6, <1>7

AddingRec(g, terms, n) == g = [i \in 0 .. n |-> IF i = 0 THEN 0 ELSE g[i - 1] + terms[i]]

\* The recursive equation of a sum has a solution.
LEMMA AddingExists ==
  ASSUME NEW terms, NEW N \in Nat
  PROVE  \E g : AddingRec(g, terms, N)
<1> DEFINE More(s, i) == s + terms[i]
           D == {n \in 0 .. N : \E g : AddingRec(g, terms, n)}
<1>1. 0 \in D
  <2> DEFINE g == [i \in 0 .. 0 |-> 0]
  <2>1. AddingRec(g, terms, 0)
    BY DEF AddingRec
  <2> QED BY <2>1
<1>2. ASSUME NEW n \in 0 .. N - 1, n \in D PROVE n + 1 \in D
  <2>1. PICK h : AddingRec(h, terms, n)
    BY <1>2
  <2> DEFINE g == [i \in 0 .. n + 1 |-> IF i <= n THEN h[i] ELSE More(h[n], n + 1)]
  <2>2. \A i \in 0 .. n : h[i] = IF i = 0 THEN 0 ELSE More(h[i - 1], i)
    BY <2>1 DEF AddingRec
  <2> HIDE DEF More
  <2>3. ASSUME NEW i \in 0 .. n + 1
        PROVE  g[i] = IF i = 0 THEN 0 ELSE More(g[i - 1], i)
    <3>1. CASE i = 0
      <4>1. g[i] = h[i] /\ i \in 0 .. n BY <3>1
      <4> QED BY <2>2, <3>1, <4>1
    <3>2. CASE i \in 1 .. n
      <4>1. g[i] = h[i] /\ g[i - 1] = h[i - 1] BY <3>2
      <4> QED BY <2>2, <3>2, <4>1
    <3>3. CASE i = n + 1
      <4>1. i - 1 = n /\ i # 0 /\ ~(i <= n) BY <3>3
      <4>2. g[n] = h[n] /\ g[i] = More(h[n], n + 1) BY <4>1
      <4> HIDE DEF g
      <4> QED BY <3>3, <4>1, <4>2
    <3> QED BY <3>1, <3>2, <3>3
  <2>4. AddingRec(g, terms, n + 1)
    <3>1. g = [i \in 0 .. n + 1 |-> g[i]] OBVIOUS
    <3> HIDE DEF g
    <3>2. [i \in 0 .. n + 1 |-> g[i]] = [i \in 0 .. n + 1 |-> IF i = 0 THEN 0 ELSE More(g[i - 1], i)]
      BY <2>3
    <3> QED BY <3>1, <3>2 DEF AddingRec, More
  <2> QED BY <2>4
<1>3. 0 .. N \subseteq D
  <2> HIDE DEF D
  <2> QED BY <1>1, <1>2, IntervalInduction
<1> QED BY <1>3

\* A sum of numbers is a number.
LEMMA SumIsNumber ==
  ASSUME NEW terms \in Seq(Nat)
  PROVE  SumOf(terms) \in Nat
<1> DEFINE N == Len(terms)
           h == CHOOSE h : h = [i \in 0 .. N |-> IF i = 0 THEN 0 ELSE h[i - 1] + terms[i]]
           D == {i \in 0 .. N : h[i] \in Nat}
<1>1. N \in Nat /\ terms \in [1 .. N -> Nat]
  BY LenProperties
<1>2. \E g : g = [i \in 0 .. N |-> IF i = 0 THEN 0 ELSE g[i - 1] + terms[i]]
  <2> HIDE DEF N, h
  <2>1. PICK g : AddingRec(g, terms, N)
    BY <1>1, AddingExists
  <2> QED BY <2>1 DEF AddingRec
<1>3. AddingRec(h, terms, N)
  BY <1>2 DEF AddingRec
<1>4. SumOf(terms) = h[N]
  BY DEF SumOf, Adding
<1> HIDE DEF h, N
<1>5. \A i \in 0 .. N : h[i] = IF i = 0 THEN 0 ELSE h[i - 1] + terms[i]
  BY <1>3 DEF AddingRec
<1>6. 0 \in D
  BY <1>1, <1>5
<1>7. ASSUME NEW i \in 0 .. N - 1, i \in D PROVE i + 1 \in D
  <2>1. i + 1 \in 0 .. N /\ i + 1 # 0 /\ i + 1 - 1 = i /\ i + 1 \in 1 .. N
    BY <1>1
  <2>2. h[i + 1] = h[i] + terms[i + 1]
    BY <1>5, <2>1
  <2>3. terms[i + 1] \in Nat
    BY <1>1, <2>1
  <2> QED BY <1>7, <2>1, <2>2, <2>3
<1>8. 0 .. N \subseteq D
  <2> HIDE DEF D
  <2> QED BY <1>1, <1>6, <1>7, IntervalInduction
<1> QED BY <1>1, <1>4, <1>8

(* ---- the kernel ---- *)

\* The ten digits, by their value.
LEMMA DigitsAre == DOMAIN Digits = 1 .. 10 /\ \A n \in 0 .. 9 : Char(n) \in Digit
<1>1. DOMAIN Digits = 1 .. 10
  BY DEF Digits
<1>2. ASSUME NEW n \in 0 .. 9 PROVE Char(n) \in Digit
  <2>1. n + 1 \in DOMAIN Digits
    BY <1>1
  <2> QED BY <2>1 DEF Char, Digit, Range
<1> QED BY <1>1, <1>2

\* Every letter and every digit counts a number towards the check digit.
LEMMA ValuesAre == \A ch \in Letter \cup Digit : Value(ch) \in Nat
<1>1. \A ch \in Letter : LetterValue[ch] \in Nat
  BY DEF Letter, LetterValue
<1>2. ASSUME NEW ch \in Digit PROVE DigitValue[ch] \in Nat
  <2>1. PICK i \in 1 .. 10 : ch = Digits[i]
    BY <1>2, DigitsAre DEF Digit, Range
  <2>2. i - 1 \in 0 .. 9 /\ Digits[i - 1 + 1] = ch
    BY <2>1
  <2>3. (CHOOSE n \in 0 .. 9 : Digits[n + 1] = ch) \in 0 .. 9
    BY <2>2
  <2>4. DigitValue[ch] = CHOOSE n \in 0 .. 9 : Digits[n + 1] = ch
    BY <1>2 DEF DigitValue
  <2>5. \A x : x \in 0 .. 9 => x \in Nat
    OBVIOUS
  <2> QED BY <2>3, <2>4, <2>5, Zenon
<1> QED BY <1>1, <1>2 DEF Value

\* Ten letters and digits have a check digit.
LEMMA IsoDigit ==
  ASSUME NEW body, \A i \in 1 .. 10 : body[i] \in Letter \cup Digit
  PROVE  Char(Iso6346CheckDigit(body)) \in Digit
<1> DEFINE terms == [i \in 1 .. 10 |-> Value(body[i]) * Weight[i]]
<1>1. \A i \in 1 .. 10 : Weight[i] \in Nat
  BY DEF Weight
<1>2. \A i \in 1 .. 10 : Value(body[i]) \in Nat
  BY ValuesAre
<1>3. \A i \in 1 .. 10 : Value(body[i]) * Weight[i] \in Nat
  <2>1. \A a, b \in Nat : a * b \in Nat
    OBVIOUS
  <2> QED BY <1>1, <1>2, <2>1
<1>4. terms \in Seq(Nat)
  BY <1>3
<1>5. SumOf(terms) \in Nat
  BY <1>4, SumIsNumber
<1>6. SumOf(terms) % 11 \in 0 .. 10
  <2> HIDE DEF terms
  <2> QED BY <1>5
<1>7. Iso6346CheckDigit(body) \in 0 .. 9
  BY <1>6 DEF Iso6346CheckDigit
<1> QED BY <1>7, DigitsAre

\* The normal form of a text over an alphabet with the letters is one too.
LEMMA NormalizeIs ==
  ASSUME NEW C, Letter \subseteq C, NEW t \in Seq(C)
  PROVE  Normalize(t) \in Seq(C)
<1> DEFINE kept == Only(t, Range(t) \ Blank)
<1>1. kept \in Seq(C)
  <2>1. kept \in Seq(C \cap (Range(t) \ Blank))
    BY OnlyIs
  <2> QED BY <2>1, SeqMonotonic
<1>2. \A ch \in DOMAIN Upper : Upper[ch] \in C
  BY DEF Upper, Letter, LetterValue
<1>3. DOMAIN kept = 1 .. Len(kept) /\ Len(kept) \in Nat /\ \A i \in DOMAIN kept : kept[i] \in C
  BY <1>1, LenProperties
<1> HIDE DEF kept
<1>4. [i \in 1 .. Len(kept) |-> IF kept[i] \in DOMAIN Upper THEN Upper[kept[i]] ELSE kept[i]] \in Seq(C)
  BY <1>2, <1>3
<1> QED BY <1>3, <1>4 DEF Normalize, kept

(* ---- the operator's rules ---- *)

\* Owners are named by the keys that match, and by no others.
LEMMA MatchNames ==
  ASSUME NEW C, NEW keys \in SUBSET Seq(C), NEW owner \in Seq(C)
  PROVE  Named(keys, owner) <=> Match(owner, keys) # {}
<1> DEFINE Fits1(k) == k # <<>> /\ Last(k) = "*" /\ IsPrefix(Front(k), owner)
           wild == {k \in keys : Fits1(k)}
           N == Len(owner) + 2
           D == {n \in 0 .. N : \E k \in wild : n <= Len(k)}
<1>1. Len(owner) \in Nat /\ \A k \in keys : Len(k) \in Nat
  BY LenProperties
<1>2. ASSUME NEW k \in keys, k # <<>>
      PROVE  IsPrefix(Front(k), owner) <=> Len(k) <= Len(owner) + 1 /\ SubSeq(owner, 1, Len(k) - 1) = Front(k)
  <2>1. Len(k) \in Nat /\ Len(k) # 0 /\ k \in Seq(C)
    BY <1>2, LenProperties, EmptySeq
  <2>2. \A i \in 1 .. Len(k) - 1 : k[i] \in C
    BY <2>1, ElementOfSeq
  <2>3. Front(k) \in Seq(C) /\ Len(Front(k)) = Len(k) - 1
    <3>1. 1 \in Int /\ Len(k) - 1 \in Int
      BY <2>1
    <3>2. SubSeq(k, 1, Len(k) - 1) \in Seq(C)
      BY <2>2, <3>1, SubSeqProperties
    <3>3. Len(SubSeq(k, 1, Len(k) - 1)) = IF 1 <= Len(k) - 1 THEN Len(k) - 1 - 1 + 1 ELSE 0
      BY <2>2, <3>1, SubSeqProperties
    <3>4. \A n \in Nat : n # 0 => (IF 1 <= n - 1 THEN n - 1 - 1 + 1 ELSE 0) = n - 1
      OBVIOUS
    <3>5. Len(SubSeq(k, 1, Len(k) - 1)) = Len(k) - 1
      BY <2>1, <3>3, <3>4
    <3> QED BY <3>2, <3>5 DEF Front
  <2>4. SubSeq(Front(k), 1, Len(Front(k))) = Front(k)
    BY <2>3, SubSeqFull
  <2> QED BY <1>1, <2>1, <2>3, <2>4 DEF IsPrefix
<1>3. Named(keys, owner) <=> owner \in keys \/ wild # {}
  <2>1. \A k \in keys : Fits1(k) <=> k # <<>> /\ Last(k) = "*" /\ Len(k) <= Len(owner) + 1 /\ SubSeq(owner, 1, Len(k) - 1) = Front(k)
    BY <1>2
  <2> QED BY <2>1 DEF Named
<1>4. Match(owner, keys) = IF owner \in keys THEN {owner} ELSE {k \in wild : \A other \in wild : Len(other) <= Len(k)}
  BY DEF Match
<1>5. ASSUME wild # {} PROVE \E k \in wild : \A other \in wild : Len(other) <= Len(k)
  <2> SUFFICES ASSUME \A k \in wild : \E other \in wild : ~(Len(other) <= Len(k)) PROVE FALSE
    OBVIOUS
  <2>1. \A k \in wild : Len(k) \in Nat /\ Len(k) <= Len(owner) + 1
    BY <1>1, <1>2
  <2> HIDE DEF wild
  <2>2. 0 \in D
    BY <1>1, <1>5, <2>1
  <2>3. ASSUME NEW n \in 0 .. N - 1, n \in D PROVE n + 1 \in D
    <3>1. PICK k \in wild : n <= Len(k)
      BY <2>3
    <3>2. PICK other \in wild : ~(Len(other) <= Len(k))
      BY <3>1
    <3>3. n + 1 <= Len(other) /\ n + 1 \in 0 .. N
      <4>1. Len(k) \in Nat /\ Len(other) \in Nat /\ Len(other) <= Len(owner) + 1 /\ n \in 0 .. Len(owner) + 1
        BY <1>1, <2>1, <2>3
      <4>2. n <= Len(k) /\ ~(Len(other) <= Len(k))
        BY <3>1, <3>2
      <4>3. \A a, b, c, m \in Nat : m <= a /\ ~(b <= a) /\ b <= c + 1 /\ m \in 0 .. c + 1 =>
              m + 1 <= b /\ m + 1 \in 0 .. c + 2
        OBVIOUS
      <4>4. n \in Nat /\ Len(owner) \in Nat
        BY <1>1, <4>1
      <4> HIDE DEF wild
      <4> QED BY <4>1, <4>2, <4>3, <4>4
    <3> QED BY <3>2, <3>3
  <2>4. 0 .. N \subseteq D
    <3> HIDE DEF D
    <3>1. N \in Nat BY <1>1
    <3> HIDE DEF N
    <3> QED BY <2>2, <2>3, <3>1, IntervalInduction
  <2>5. N \in D
    BY <1>1, <2>4
  <2>6. PICK k \in wild : N <= Len(k)
    BY <2>5
  <2> QED BY <1>1, <2>1, <2>6
<1> HIDE DEF wild
<1> QED BY <1>3, <1>4, <1>5

\* What the rules say of an owner.
LEMMA ResolveIs ==
  ASSUME NEW policy, NEW owner
  PROVE  LET t == Resolve(policy, owner)
         IN  /\ ~t.forceFlag <=> Match(owner, policy.deny) = {}
             /\ t.corroborated => Match(owner, policy.allow) # {}
BY DEF Resolve, Treatment

\* ---- what a correction is ----

\* The token up to its check digit, and another digit.
WithDigit(norm, digit) == SubSeq(norm, 1, 10) \o <<digit>>

\* The fields of a result that recommends a correction.
LEMMA CorrectedResult ==
  ASSUME NEW type, type # "uic", NEW norm, NEW printed, NEW computed, NEW r,
         r = Result("corrected", type, norm, printed, computed)
  PROVE  r.norm = norm /\ r.computed = computed /\ r.corrected = WithDigit(norm, computed)
BY DEF Result, WithDigit

\* A number that is corrected has the shape of a container, keeps all but its last character and
\* gets the digit computed; text nobody vouches for only if the owner is known.
LEMMA EvaluateCorrects ==
  ASSUME NEW norm, NEW context \in {"free_text", "equipment_id"}, NEW known, NEW ownerPolicy,
         Evaluate(norm, context, known, ownerPolicy).status = "corrected"
  PROVE  LET r == Evaluate(norm, context, known, ownerPolicy)
         IN  /\ ContainerShaped(norm) /\ r.norm = norm /\ r.computed = Char(Iso6346CheckDigit(SubSeq(norm, 1, 10)))
             /\ r.corrected = WithDigit(norm, r.computed)
             /\ context = "free_text" => OwnerCode(norm) \in known
<1> DEFINE r == Evaluate(norm, context, known, ownerPolicy)
           computed == Char(Iso6346CheckDigit(SubSeq(norm, 1, 10)))
           type == Category(norm[4])
<1>1. type # "uic" /\ "iso6346" # "uic"
  BY DEF Category
<1>0. r.status = "corrected" /\ r = Evaluate(norm, context, known, ownerPolicy)
  OBVIOUS
<1> HIDE DEF r, type, computed
<1>2. CASE BicLike(norm)
  <2>1. r = DecideBic(norm, context, known)
    BY <1>0, <1>2 DEF Evaluate
  <2>2. ContainerShaped(norm)
    BY <1>2 DEF BicLike, ContainerShaped, Shaped, AllIn
  <2> DEFINE trusted == Declared(context) \/ (context = "free_text" /\ OwnerCode(norm) \in known)
  <2>3. r = Decide(trusted, type, norm, norm[11], computed)
    <3>1. CASE Category(norm[4]) = "unknown"
      <4>1. r = Result("flagged", "unknown", norm, norm[11], computed)
        BY <2>1, <3>1 DEF DecideBic, computed
      <4> QED BY <1>0, <4>1 DEF Result
    <3> QED BY <2>1, <3>1 DEF DecideBic, type, computed
  <2>4. r = Result("corrected", type, norm, norm[11], computed) /\ trusted
    <3>1. r = Result(IF norm[11] = computed THEN "valid" ELSE IF trusted THEN "corrected" ELSE "flagged",
                     type, norm, norm[11], computed)
      BY <2>3 DEF Decide
    <3>2. (IF norm[11] = computed THEN "valid" ELSE IF trusted THEN "corrected" ELSE "flagged") = "corrected"
      BY <1>0, <3>1 DEF Result
    <3>3. norm[11] # computed /\ trusted
      BY <3>2
    <3> QED BY <3>1, <3>3
  <2> HIDE DEF trusted
  <2>5. r.corrected = WithDigit(norm, computed) /\ r.norm = norm /\ r.computed = computed
    BY <1>1, <2>4, CorrectedResult
  <2> QED BY <1>0, <2>2, <2>4, <2>5 DEF Declared, computed, trusted
<1>3. CASE ~BicLike(norm) /\ ContainerShaped(norm)
  <2>1. r = DecidePseudo(norm, context, ownerPolicy)
    BY <1>0, <1>3 DEF Evaluate
  <2>2. Declared(context) /\ r = Decide(TRUE, "iso6346", norm, norm[11], computed)
    <3>1. CASE ~(ownerPolicy = "lenient" /\ Declared(context))
      <4>1. r = Result("flagged", "iso6346", norm, norm[11], computed)
        BY <2>1, <3>1 DEF DecidePseudo, computed
      <4> QED BY <1>0, <4>1 DEF Result
    <3> QED BY <2>1, <3>1 DEF DecidePseudo, computed
  <2>3. r = Result("corrected", "iso6346", norm, norm[11], computed)
    <3>1. r = Result(IF norm[11] = computed THEN "valid" ELSE "corrected", "iso6346", norm, norm[11], computed)
      BY <2>2 DEF Decide
    <3>2. norm[11] # computed
      BY <1>0, <3>1 DEF Result
    <3> QED BY <3>1, <3>2
  <2>4. r.corrected = WithDigit(norm, computed) /\ r.norm = norm /\ r.computed = computed
    BY <1>1, <2>3, CorrectedResult
  <2> QED BY <1>0, <1>3, <2>2, <2>4 DEF Declared, computed
<1>4. CASE ~BicLike(norm) /\ ~ContainerShaped(norm)
  <2>1. CASE UicLike(norm)
    <3>1. r = DecideUic(norm, context) /\ context # "rail_vehicle"
      BY <1>0, <1>4, <2>1 DEF Evaluate
    <3>2. r = Result("flagged", "uic", norm, norm[12], Char(UicCheckDigit(SubSeq(norm, 1, 11))))
      BY <3>1 DEF DecideUic
    <3> QED BY <1>0, <3>2 DEF Result
  <2>2. CASE ~UicLike(norm)
    <3>1. r = Result("invalid_structure", "unknown", norm, None, None)
      BY <1>0, <1>4, <2>2 DEF Evaluate
    <3> QED BY <1>0, <3>1 DEF Result
  <2> QED BY <2>1, <2>2
<1> QED BY <1>2, <1>3, <1>4

\* Whatever the verdict, it is a result.
LEMMA EvaluateIsResult ==
  ASSUME NEW norm, NEW context, NEW known, NEW ownerPolicy
  PROVE  \E s, ty, p, c : Evaluate(norm, context, known, ownerPolicy) = Result(s, ty, norm, p, c)
<1>1. CASE context = "size_type"
  BY <1>1 DEF Evaluate
<1>2. CASE context # "size_type" /\ BicLike(norm)
  BY <1>2 DEF Evaluate, DecideBic, Decide
<1>3. CASE context # "size_type" /\ ~BicLike(norm) /\ ContainerShaped(norm)
  BY <1>3 DEF Evaluate, DecidePseudo, Decide
<1>4. CASE context # "size_type" /\ ~BicLike(norm) /\ ~ContainerShaped(norm) /\ UicLike(norm)
  BY <1>4 DEF Evaluate, DecideUic, Decide
<1>5. CASE context # "size_type" /\ ~BicLike(norm) /\ ~ContainerShaped(norm) /\ ~UicLike(norm)
  BY <1>5 DEF Evaluate
<1> QED BY <1>1, <1>2, <1>3, <1>4, <1>5

\* A correction that the rules let stand was not forbidden.
LEMMA RuledIs ==
  ASSUME NEW t, NEW e, \E s, ty, n, p, c : e = Result(s, ty, n, p, c), Ruled(t, e).status = "corrected"
  PROVE  ~t.forceFlag /\ Ruled(t, e) = e
<1>1. PICK s, ty, n, p, c : e = Result(s, ty, n, p, c)
  OBVIOUS
<1>2. CASE t.forceFlag /\ e.status \in {"valid", "corrected", "flagged"}
  <2>1. Ruled(t, e) = [e EXCEPT !.status = "flagged", !.corrected = <<>>]
    BY <1>2 DEF Ruled
  <2>2. [Result(s, ty, n, p, c) EXCEPT !.status = "flagged", !.corrected = <<>>].status = "flagged"
    BY DEF Result
  <2> QED BY <1>1, <2>1, <2>2
<1>3. CASE ~(t.forceFlag /\ e.status \in {"valid", "corrected", "flagged"})
  BY <1>3 DEF Ruled
<1> QED BY <1>2, <1>3

\* What is left of a text shaped like a container number when its check digit is cut off.
LEMMA ShapedIs ==
  ASSUME NEW C, NEW t \in Seq(C), ContainerShaped(t)
  PROVE  /\ Len(t) = 11 /\ OwnerCode(t) = SubSeq(t, 1, 3)
         /\ \A i \in 1 .. 10 : SubSeq(t, 1, 10)[i] = t[i] /\ t[i] \in Letter \cup Digit
         /\ SubSeq(t, 1, 10) \in Seq(C) /\ Len(SubSeq(t, 1, 10)) = 10
<1>1. Len(t) = 11 /\ \A i \in 1 .. 11 : t[i] \in C
  BY LenProperties DEF ContainerShaped, Shaped
<1>2. /\ SubSeq(t, 1, 10) \in Seq(C) /\ Len(SubSeq(t, 1, 10)) = 10
      /\ \A i \in 1 .. 10 : SubSeq(t, 1, 10)[i] = t[i]
  <2>1. \A i \in 1 .. 10 : t[i] \in C BY <1>1
  <2>2. /\ SubSeq(t, 1, 10) \in Seq(C)
        /\ Len(SubSeq(t, 1, 10)) = IF 1 <= 10 THEN 10 - 1 + 1 ELSE 0
        /\ \A i \in 1 .. 10 - 1 + 1 : SubSeq(t, 1, 10)[i] = t[1 + i - 1]
    BY <2>1, SubSeqProperties
  <2>3. \A i \in 1 .. 10 : 1 + i - 1 = i /\ i \in 1 .. 10 - 1 + 1 OBVIOUS
  <2>4. (IF 1 <= 10 THEN 10 - 1 + 1 ELSE 0) = 10 OBVIOUS
  <2> QED BY <2>2, <2>3, <2>4
<1>3. \A i \in 1 .. 4 : t[i] \in Letter \cup Digit
  <2>1. \A i \in 1 .. 4 : t[i] \in C BY <1>1
  <2>2. /\ Len(SubSeq(t, 1, 4)) = IF 1 <= 4 THEN 4 - 1 + 1 ELSE 0
        /\ \A i \in 1 .. 4 - 1 + 1 : SubSeq(t, 1, 4)[i] = t[1 + i - 1]
        /\ SubSeq(t, 1, 4) \in Seq(C)
    BY <2>1, SubSeqProperties
  <2>3. DOMAIN SubSeq(t, 1, 4) = 1 .. 4 /\ \A i \in 1 .. 4 : SubSeq(t, 1, 4)[i] = t[i]
    BY <2>2, LenProperties
  <2> QED BY <2>3 DEF ContainerShaped, Shaped, AllIn
<1>4. \A i \in 5 .. 11 : t[i] \in Digit
  <2>1. \A i \in 5 .. 11 : t[i] \in C BY <1>1
  <2>2. /\ Len(SubSeq(t, 5, 11)) = IF 5 <= 11 THEN 11 - 5 + 1 ELSE 0
        /\ \A i \in 1 .. 11 - 5 + 1 : SubSeq(t, 5, 11)[i] = t[5 + i - 1]
        /\ SubSeq(t, 5, 11) \in Seq(C)
    BY <2>1, SubSeqProperties
  <2>3. DOMAIN SubSeq(t, 5, 11) = 1 .. 7 /\ \A i \in 1 .. 7 : SubSeq(t, 5, 11)[i] = t[i + 4]
    BY <2>2, LenProperties
  <2>4. \A i \in 5 .. 11 : i - 4 \in 1 .. 7 /\ i - 4 + 4 = i OBVIOUS
  <2>5. \A i \in 1 .. 7 : t[i + 4] \in Digit
    BY <2>3 DEF ContainerShaped, Shaped, AllIn
  <2> QED BY <2>4, <2>5
<1>5. \A i \in 1 .. 10 : i \in 1 .. 4 \/ i \in 5 .. 11
  OBVIOUS
<1>6. OwnerCode(t) = SubSeq(t, 1, 3)
  BY <1>1 DEF OwnerCode
<1> QED BY <1>1, <1>2, <1>3, <1>4, <1>5, <1>6

\* Ten characters and a digit: the token up to its check digit.
LEMMA FrontOf ==
  ASSUME NEW C, NEW t \in Seq(C), Len(t) = 11, NEW d \in C
  PROVE  WithDigit(t, d) \in Seq(C) /\ Front(WithDigit(t, d)) = Front(t)
<1> DEFINE b == SubSeq(t, 1, 10)
           n == b \o <<d>>
<1>1. \A i \in 1 .. 10 : t[i] \in C
  <2>1. t \in [1 .. 11 -> C]
    BY LenProperties
  <2> QED BY <2>1
<1>2. b \in Seq(C) /\ Len(b) = 10 /\ \A i \in 1 .. 10 : b[i] = t[i]
  <2>1. /\ b \in Seq(C) /\ Len(b) = IF 1 <= 10 THEN 10 - 1 + 1 ELSE 0
        /\ \A i \in 1 .. 10 - 1 + 1 : b[i] = t[1 + i - 1]
    BY <1>1, SubSeqProperties
  <2>2. \A i \in 1 .. 10 : 1 + i - 1 = i /\ i \in 1 .. 10 - 1 + 1 OBVIOUS
  <2>3. (IF 1 <= 10 THEN 10 - 1 + 1 ELSE 0) = 10 OBVIOUS
  <2> HIDE DEF b
  <2> QED BY <2>1, <2>2, <2>3
<1>3. <<d>> \in Seq(C) /\ Len(<<d>>) = 1
  OBVIOUS
<1> HIDE DEF b
<1>4. n \in Seq(C) /\ Len(n) = 11 /\ \A i \in 1 .. 10 : n[i] = b[i]
  <2>1. /\ n \in Seq(C) /\ Len(n) = Len(b) + Len(<<d>>)
        /\ \A i \in 1 .. Len(b) + Len(<<d>>) : n[i] = IF i <= Len(b) THEN b[i] ELSE <<d>>[i - Len(b)]
    BY <1>2, <1>3, ConcatProperties
  <2> HIDE DEF n
  <2> QED BY <1>2, <1>3, <2>1
<1> HIDE DEF n
<1>5. SubSeq(n, 1, 10) \in Seq(C) /\ Len(SubSeq(n, 1, 10)) = 10 /\ \A i \in 1 .. 10 : SubSeq(n, 1, 10)[i] = b[i]
  <2>1. /\ SubSeq(n, 1, 10) \in Seq(C) /\ Len(SubSeq(n, 1, 10)) = IF 1 <= 10 THEN 10 - 1 + 1 ELSE 0
        /\ \A i \in 1 .. 10 - 1 + 1 : SubSeq(n, 1, 10)[i] = n[1 + i - 1]
    <3>1. \A i \in 1 .. 10 : n[i] \in C BY <1>1, <1>2, <1>4
    <3> QED BY <3>1, SubSeqProperties
  <2>2. \A i \in 1 .. 10 : 1 + i - 1 = i /\ i \in 1 .. 10 - 1 + 1 OBVIOUS
  <2>3. (IF 1 <= 10 THEN 10 - 1 + 1 ELSE 0) = 10 OBVIOUS
  <2> QED BY <1>4, <2>1, <2>2, <2>3
<1>6. SubSeq(n, 1, 10) = b
  BY <1>2, <1>5, SeqEqual
<1>7. 11 - 1 = 10
  OBVIOUS
<1>8. Front(n) = b /\ Front(t) = b
  BY <1>4, <1>6, <1>7 DEF Front, b
<1> QED BY <1>4, <1>8 DEF n, b, WithDigit

\* Rules whose keys are texts.
KeysIn(C, policy) == policy.deny \in SUBSET Seq(C) /\ policy.allow \in SUBSET Seq(C)

\* new takes the place of token: all but the check digit stays, no owner that is denied is
\* touched, and text nobody vouches for only if its owner is corroborated.
Amends(C, new, token, context, known, policy) ==
  LET owner == SubSeq(Normalize(token), 1, 3)
  IN  /\ new \in Seq(C) /\ Front(new) = Front(Normalize(token))
      /\ policy # None => ~Named(policy.deny, owner)
      /\ context = "free_text" => owner \in known \/ (policy # None /\ Named(policy.allow, owner))

\* A correction amends its token: nothing but the check digit, and only as the rules allow.
LEMMA CorrectAmends ==
  ASSUME NEW C, Letter \cup Digit \subseteq C, NEW token \in Seq(C), NEW context \in {"free_text", "equipment_id"},
         NEW known, NEW ownerPolicy, NEW policy, policy # None => KeysIn(C, policy),
         CorrectIdentifier(token, context, known, ownerPolicy, policy).status = "corrected"
  PROVE  Amends(C, CorrectIdentifier(token, context, known, ownerPolicy, policy).corrected, token, context, known, policy)
<1> DEFINE norm == Normalize(token)
           owner == OwnerCode(norm)
           t == Resolve(policy, owner)
           r == CorrectIdentifier(token, context, known, ownerPolicy, policy)
<1>1. norm \in Seq(C)
  BY NormalizeIs
<1>2. \E k, o : /\ r = Evaluate(norm, context, k, o)
                /\ policy = None => k = known
                /\ policy # None => ~t.forceFlag /\ k = IF t.corroborated THEN known \cup {owner} ELSE known
  <2>1. CASE policy = None
    BY <2>1 DEF CorrectIdentifier
  <2>2. CASE policy # None
    <3> DEFINE k == IF t.corroborated THEN known \cup {owner} ELSE known
               e == Evaluate(norm, context, k, t.ownerPolicy)
    <3>1. r = Ruled(t, e)
      BY <2>2 DEF CorrectIdentifier
    <3>2. ~t.forceFlag /\ r = e
      <4>1. \E s, ty, n, p, c : e = Result(s, ty, n, p, c)
        BY EvaluateIsResult
      <4> HIDE DEF t, e
      <4> QED BY <3>1, <4>1, RuledIs
    <3> QED BY <2>2, <3>2
  <2> QED BY <2>1, <2>2
<1>3. PICK k, o : /\ r = Evaluate(norm, context, k, o)
                  /\ policy = None => k = known
                  /\ policy # None => ~t.forceFlag /\ k = IF t.corroborated THEN known \cup {owner} ELSE known
  BY <1>2
<1>4. /\ ContainerShaped(norm) /\ r.computed = Char(Iso6346CheckDigit(SubSeq(norm, 1, 10)))
      /\ r.corrected = WithDigit(norm, r.computed)
      /\ context = "free_text" => owner \in k
  <2>1. Evaluate(norm, context, k, o).status = "corrected"
    BY <1>3
  <2> DEFINE e == Evaluate(norm, context, k, o)
  <2> HIDE DEF norm, r, owner
  <2>2. /\ ContainerShaped(norm) /\ e.computed = Char(Iso6346CheckDigit(SubSeq(norm, 1, 10)))
        /\ e.corrected = WithDigit(norm, e.computed)
        /\ context = "free_text" => OwnerCode(norm) \in k
    BY <2>1, EvaluateCorrects
  <2>3. r = e
    BY <1>3
  <2> HIDE DEF e
  <2> QED BY <2>2, <2>3 DEF owner
<1>5. /\ Len(norm) = 11 /\ owner = SubSeq(norm, 1, 3) /\ SubSeq(norm, 1, 10) \in Seq(C) /\ Len(SubSeq(norm, 1, 10)) = 10
      /\ \A i \in 1 .. 10 : SubSeq(norm, 1, 10)[i] \in Letter \cup Digit
  BY <1>1, <1>4, ShapedIs
<1>6. r.computed \in Digit
  BY <1>4, <1>5, IsoDigit
<1> DEFINE new == WithDigit(norm, r.computed)
<1>7. new \in Seq(C) /\ Front(new) = Front(norm)
  BY <1>1, <1>5, <1>6, FrontOf
<1>8. owner \in Seq(C)
  <2>1. \A i \in 1 .. 3 : norm[i] \in C
    BY <1>1, <1>5, ElementOfSeq
  <2> QED BY <1>5, <2>1, SubSeqProperties
<1>9. policy # None => ~Named(policy.deny, owner)
  BY <1>3, <1>8, ResolveIs, MatchNames DEF KeysIn
<1>10. ASSUME context = "free_text"
       PROVE  owner \in known \/ (policy # None /\ Named(policy.allow, owner))
  <2>1. owner \in k
    BY <1>4, <1>10
  <2>2. CASE policy = None
    BY <1>3, <2>1, <2>2
  <2>3. CASE policy # None
    <3>1. t.corroborated => Named(policy.allow, owner)
      BY <1>8, <2>3, ResolveIs, MatchNames DEF KeysIn
    <3> QED BY <1>3, <2>1, <2>3, <3>1
  <2> QED BY <2>2, <2>3
<1>11. r.corrected = new
  BY <1>4
<1> HIDE DEF r, t, new
<1> QED BY <1>5, <1>7, <1>9, <1>10, <1>11 DEF Amends, r

\* The digit of a number that comes in parts.
LEMMA SplitCorrects ==
  ASSUME NEW C, Letter \cup Digit \subseteq C, NEW initial \in Seq(C), NEW number \in Seq(C), NEW printed,
         NEW policy, policy # None => KeysIn(C, policy),
         CorrectX12Equipment(initial, number, printed, policy).status = "corrected"
  PROVE  /\ CorrectX12Equipment(initial, number, printed, policy).computed \in Digit
         /\ policy # None => ~Named(policy.deny, SubSeq(Normalize(initial), 1, 3))
<1> DEFINE init == Normalize(initial)
           num == Only(number, Digit)
           zeros == [i \in 1 .. (6 - Len(num)) |-> "0"]
           norm == init \o zeros \o num
           computed == Char(Iso6346CheckDigit(norm))
           base == EvaluateX12(init, num, printed)
           r == CorrectX12Equipment(initial, number, printed, policy)
           t == Resolve(policy, OwnerCode(init))
<1>1. init \in Seq(C)
  BY NormalizeIs
<1>2. num \in Seq(Digit)
  <2>1. num \in Seq(C \cap Digit)
    BY OnlyIs
  <2> QED BY <2>1, SeqMonotonic
<1>3. \E s, ty, n, p, c : base = Result(s, ty, n, p, c)
  <2> HIDE DEF init, num
  <2> QED BY DEF EvaluateX12
<1>4. r = base /\ (policy # None => ~t.forceFlag)
  <2>1. CASE policy = None
    BY <2>1 DEF CorrectX12Equipment
  <2>2. CASE policy # None
    <3>1. r = Ruled(t, base)
      BY <2>2 DEF CorrectX12Equipment
    <3>2. r.status = "corrected"
      OBVIOUS
    <3> HIDE DEF r, base, t
    <3> QED BY <1>3, <3>1, <3>2, RuledIs
  <2> QED BY <2>1, <2>2
<1>5. base.status = "corrected"
  BY <1>4
<1> HIDE DEF init, num
<1>6. Len(init) = 4 /\ AllIn(init, Letter) /\ Len(num) <= 6 /\ base.computed = computed
  BY <1>5 DEF EvaluateX12, Result
<1>7. init \in Seq(Letter \cup Digit) /\ DOMAIN init = 1 .. 4
  <2>1. DOMAIN init = 1 .. 4 /\ \A i \in 1 .. 4 : init[i] \in Letter \cup Digit
    BY <1>1, <1>6, LenProperties DEF AllIn
  <2> DEFINE n == [i \in 1 .. 4 |-> init[i]]
  <2>2. n \in Seq(Letter \cup Digit)
    BY <2>1
  <2>3. init = n
    BY <1>1, <2>1, LenProperties
  <2> QED BY <2>1, <2>2, <2>3
<1>8. \A i \in 1 .. 10 : norm[i] \in Letter \cup Digit
  <2>1. Len(num) \in 0 .. 6
    <3>1. Len(num) \in Nat
      BY <1>2, LenProperties
    <3>2. Len(num) <= 6
      BY <1>6
    <3>3. \A n \in Nat : n <= 6 => n \in 0 .. 6
      OBVIOUS
    <3> QED BY <3>1, <3>2, <3>3, Zenon
  <2>2. "0" \in Digit
    <3>1. "0" = Digits[1] /\ 1 \in DOMAIN Digits BY DEF Digits
    <3> QED BY <3>1 DEF Digit, Range
  <2>3. zeros \in Seq(Letter \cup Digit) /\ Len(zeros) = 6 - Len(num)
    <3>1. 6 - Len(num) \in Nat
      <4>1. \A n \in 0 .. 6 : 6 - n \in Nat
        OBVIOUS
      <4> QED BY <2>1, <4>1, Zenon
    <3>2. ASSUME NEW k \in Nat PROVE [i \in 1 .. k |-> "0"] \in Seq(Letter \cup Digit) /\ Len([i \in 1 .. k |-> "0"]) = k
      BY <2>2
    <3> QED BY <3>1, <3>2
  <2>4. num \in Seq(Letter \cup Digit)
    BY <1>2, SeqMonotonic
  <2> HIDE DEF zeros
  <2>5. init \o zeros \in Seq(Letter \cup Digit) /\ Len(init \o zeros) = 4 + (6 - Len(num))
    <3>1. init \o zeros \in Seq(Letter \cup Digit) /\ Len(init \o zeros) = Len(init) + Len(zeros)
      BY <1>7, <2>3, ConcatProperties
    <3>2. Len(init) = 4
      BY <1>6
    <3> QED BY <2>3, <3>1, <3>2
  <2>6. norm \in Seq(Letter \cup Digit) /\ Len(norm) = Len(init \o zeros) + Len(num)
    BY <2>4, <2>5, ConcatProperties
  <2>7. Len(norm) = 10
    BY <2>1, <2>5, <2>6
  <2> HIDE DEF norm
  <2> QED BY <2>6, <2>7, ElementOfSeq
<1>9. computed \in Digit
  <2> HIDE DEF norm
  <2> QED BY <1>8, IsoDigit
<1>10. ASSUME policy # None PROVE ~Named(policy.deny, SubSeq(init, 1, 3))
  <2>1. OwnerCode(init) = SubSeq(init, 1, 3)
    BY <1>6 DEF OwnerCode
  <2>2. SubSeq(init, 1, 3) \in Seq(C)
    <3>1. ASSUME NEW i \in 1 .. 3 PROVE init[i] \in C
      <4>1. i \in DOMAIN init
        BY <1>7
      <4>2. init[i] \in Letter \cup Digit
        BY <1>7, <4>1, LenProperties
      <4> QED BY <4>2
    <3> QED BY <3>1, SubSeqProperties
  <2> QED BY <1>4, <1>10, <2>1, <2>2, ResolveIs, MatchNames DEF KeysIn
<1> HIDE DEF base, computed
<1> QED BY <1>4, <1>6, <1>9, <1>10 DEF init

(* ---- locating ---- *)

\* Where an identifier may be changed there stands what was located; one in parts is changed in
\* its check digit only, and what is searched for has no parts.
WellFound(C, f, ref) ==
  /\ ref.token \in Seq(C) /\ ref.number \in Seq(C) /\ ref.places \subseteq DOMAIN f.fields
  /\ Searched(f.format) => ~ref.split
  /\ \A p \in ref.places :
       IF ref.split
       THEN /\ f.fields[p].role = "check"
            /\ f.fields[p - 2].value = ref.token
       ELSE /\ f.fields[p].role \notin {"check", "formula", "runs", "other"}
            /\ f.fields[p].value = ref.token

Found(C, f) == {ref \in {RefAt(f, p) : p \in DOMAIN f.fields} : WellFound(C, f, ref)}

\* What a located place refers to belongs to the file.
LEMMA RefIsFound ==
  ASSUME NEW C, NEW f \in FileOver(C), NEW p \in DOMAIN f.fields, Located(f, p) \/ SeenOnly(f, p)
  PROVE  RefAt(f, p) \in Found(C, f)
<1> DEFINE ref == RefAt(f, p)
<1>1. /\ f.fields \in Seq(FieldOver(C)) /\ DOMAIN f.fields = 1 .. Len(f.fields) /\ Len(f.fields) \in Nat
      /\ \A q \in DOMAIN f.fields : f.fields[q] \in FieldOver(C) /\ f.fields[q].value \in Seq(C)
  <2>1. f.fields \in Seq(FieldOver(C))
    BY DEF FileOver
  <2>2. DOMAIN f.fields = 1 .. Len(f.fields) /\ Len(f.fields) \in Nat
    BY <2>1, LenProperties
  <2>3. \A q \in DOMAIN f.fields : f.fields[q] \in FieldOver(C)
    BY <2>1, <2>2, ElementOfSeq
  <2> QED BY <2>1, <2>2, <2>3 DEF FieldOver
<1>2. /\ ref.token = f.fields[p].value /\ ref.split = (f.fields[p].role = "initial")
      /\ ref.number = IF f.fields[p].role = "initial" THEN f.fields[p + 1].value ELSE <<>>
      /\ ref.places = IF f.fields[p].role = "initial" THEN CheckSlot(f, p)
                      ELSE IF SeenOnly(f, p) THEN {} ELSE IF Distinct(f.format) THEN Alike(f, p) ELSE {p}
  BY DEF RefAt
<1>3. f.fields[p].role = "initial" => ~SeenOnly(f, p) /\ f.format = "x12"
  BY DEF SeenOnly, Located, RoleOf
<1>4. ref.number \in Seq(C)
  <2>1. f.fields[p].role = "initial" => p + 1 \in DOMAIN f.fields
    BY DEF FileOver
  <2> QED BY <1>1, <1>2, <2>1, EmptySeq
<1>5. \A q \in DOMAIN f.fields : f.fields[q].role \in RoleOf(f.format) =>
        f.fields[q].role \notin {"check", "formula", "runs", "other"}
  BY DEF RoleOf
<1>6. WellFound(C, f, ref)
  <2> HIDE DEF ref
  <2>1. CASE f.fields[p].role = "initial"
    <3>1. ref.split /\ ref.places = CheckSlot(f, p) /\ ~Searched(f.format)
      BY <1>2, <1>3, <2>1 DEF Searched
    <3>2. ASSUME NEW q \in ref.places PROVE q \in DOMAIN f.fields /\ f.fields[q].role = "check" /\ q - 2 = p
      BY <1>1, <3>1, <3>2 DEF CheckSlot
    <3> QED BY <1>1, <1>2, <1>4, <3>1, <3>2 DEF WellFound
  <2>2. CASE f.fields[p].role # "initial"
    <3>1. ~ref.split /\ ref.places = IF SeenOnly(f, p) THEN {} ELSE IF Distinct(f.format) THEN Alike(f, p) ELSE {p}
      BY <1>2, <2>2
    <3>2. ASSUME NEW q \in ref.places
          PROVE  /\ q \in DOMAIN f.fields /\ f.fields[q].value = ref.token
                 /\ f.fields[q].role \notin {"check", "formula", "runs", "other"}
      <4>1. CASE Distinct(f.format)
        BY <1>2, <1>5, <3>1, <3>2, <4>1 DEF Alike
      <4>2. CASE ~Distinct(f.format)
        BY <1>2, <1>5, <3>1, <3>2, <4>2 DEF Located
      <4> QED BY <4>1, <4>2
    <3> QED BY <1>1, <1>2, <1>4, <3>1, <3>2 DEF WellFound
  <2> QED BY <2>1, <2>2
<1> QED BY <1>6 DEF Found

\* Every reference located belongs to the file.
LEMMA LocatedAreFound ==
  ASSUME NEW C, NEW f \in FileOver(C)
  PROVE  Locate(f) \in Seq(Found(C, f))
<1> DEFINE places == [p \in DOMAIN f.fields |-> p]
           P == {p \in DOMAIN f.fields : Located(f, p)}
           Q == {p \in DOMAIN f.fields : SeenOnly(f, p)}
           found == Only(places, P) \o Only(places, Q)
<1>1. places \in Seq(DOMAIN f.fields)
  <2>1. f.fields \in Seq(FieldOver(C))
    BY DEF FileOver
  <2>2. DOMAIN f.fields = 1 .. Len(f.fields) /\ Len(f.fields) \in Nat
    BY <2>1, LenProperties
  <2>3. ASSUME NEW n \in Nat PROVE [p \in 1 .. n |-> p] \in Seq(1 .. n)
    OBVIOUS
  <2> QED BY <2>2, <2>3
<1> HIDE DEF places
<1>2. Only(places, P) \in Seq(P \cup Q) /\ Only(places, Q) \in Seq(P \cup Q)
  <2> DEFINE D == DOMAIN f.fields
  <2>1. Only(places, P) \in Seq(D \cap P) /\ Only(places, Q) \in Seq(D \cap Q)
    <3> HIDE DEF P, Q, D
    <3> QED BY <1>1, OnlyIs DEF D
  <2>2. D \cap P \subseteq P \cup Q /\ D \cap Q \subseteq P \cup Q
    OBVIOUS
  <2> HIDE DEF P, Q, D
  <2> QED BY <2>1, <2>2, SeqMonotonic
<1>3. found \in Seq(P \cup Q)
  <2> HIDE DEF P, Q
  <2> QED BY <1>2, ConcatProperties
<1> HIDE DEF found
<1>4. DOMAIN found = 1 .. Len(found) /\ Len(found) \in Nat /\ \A i \in 1 .. Len(found) : found[i] \in P \cup Q
  <2> HIDE DEF P, Q
  <2> QED BY <1>3, LenProperties, ElementOfSeq
<1>5. ASSUME NEW i \in 1 .. Len(found) PROVE RefAt(f, found[i]) \in Found(C, f)
  <2>1. found[i] \in DOMAIN f.fields /\ (Located(f, found[i]) \/ SeenOnly(f, found[i]))
    BY <1>4
  <2> QED BY <2>1, RefIsFound
<1>6. Locate(f) = [i \in 1 .. Len(found) |-> RefAt(f, found[i])]
  BY <1>4 DEF Locate, found, places
<1>7. [i \in 1 .. Len(found) |-> RefAt(f, found[i])] \in Seq(Found(C, f))
  BY <1>4, <1>5
<1> QED BY <1>6, <1>7

(* ---- the invariant ---- *)

\* The rules of a request allow that new replaces what ref says.
Rightful(C, ref, new) ==
  IF ref.split
  THEN /\ new \in Seq(C) /\ Len(new) = 1
       /\ request.policy # None => ~Named(request.policy.deny, SubSeq(Normalize(ref.token), 1, 3))
  ELSE Amends(C, new, ref.token, Context, IF Searched(file.format) THEN request.known ELSE {}, request.policy)

EditsAreRightful(C) ==
  \A e \in edits : \E c \in report.corrected :
    c.ref \in Found(C, file) /\ e.start \in c.ref.places /\ Rightful(C, c.ref, e.new)

Judged(C) ==
  /\ request.policy # None => KeysIn(C, request.policy)
  /\ refs \in Seq(Found(C, file))
  /\ EditsAreRightful(C)

CorrectionInv(C) ==
  /\ KeysIn(C, operator)
  /\ phase \in {"idle", "judging", "answered"}
  /\ round = 0 => phase = "idle"
  /\ round \in Nat
  /\ round # 0 => file \in FileOver(C) /\ text \in Seq(FieldOver(C)) /\ [file EXCEPT !.fields = text] \in FileOver(C)
  /\ phase \in {"judging", "answered"} => Judged(C)
  /\ phase = "answered" => text = ApplyEdits(file.fields)
  /\ DOMAIN report = DOMAIN NoReport

\* The invariant says more than the property.
LEMMA InvPermits == ASSUME NEW C, CorrectionInv(C) PROVE EditsArePermitted
<1> SUFFICES ASSUME phase = "answered", NEW p \in DOMAIN text, text[p] # file.fields[p]
             PROVE  LET split == text[p].role = "check"
                        token == Normalize(IF split THEN file.fields[p - 2].value ELSE file.fields[p].value)
                        owner == SubSeq(token, 1, 3)
                        rules == request.policy
                    IN  /\ text[p].role = file.fields[p].role
                        /\ IF split THEN Len(text[p].value) = 1
                           ELSE Front(text[p].value) = Front(token)
                        /\ rules # None => ~Named(rules.deny, owner)
                        /\ text[p].role \notin {"formula", "runs", "other"}
                        /\ Searched(file.format) /\ ~request.trust =>
                             \/ owner \in request.known
                             \/ rules # None /\ Named(rules.allow, owner)
                        /\ \E c \in report.corrected : p \in c.ref.places
  BY DEF EditsArePermitted, Answered
<1>1. Judged(C) /\ text = ApplyEdits(file.fields) /\ file \in FileOver(C) /\ DOMAIN text = DOMAIN file.fields
  BY DEF CorrectionInv, ApplyEdits
<1>2. file.fields[p] \in FieldOver(C)
  BY <1>1, ElementOfSeq, LenProperties DEF FileOver
<1>3. PICK e \in edits : e.start = p /\ text[p] = [file.fields[p] EXCEPT !.value = e.new]
  <2>1. text[p] = IF \E e \in edits : e.start = p THEN [file.fields[p] EXCEPT !.value = (CHOOSE e \in edits : e.start = p).new]
                  ELSE file.fields[p]
    BY <1>1 DEF ApplyEdits
  <2> QED BY <2>1
<1>4. text[p].role = file.fields[p].role /\ text[p].value = e.new
  BY <1>2, <1>3 DEF FieldOver
<1>5. PICK c \in report.corrected : c.ref \in Found(C, file) /\ p \in c.ref.places /\ Rightful(C, c.ref, e.new)
  BY <1>1, <1>3 DEF Judged, EditsAreRightful
<1>6. WellFound(C, file, c.ref)
  BY <1>5 DEF Found
<1>7. CASE c.ref.split
  <2>1. file.fields[p].role = "check" /\ file.fields[p - 2].value = c.ref.token /\ ~Searched(file.format)
    BY <1>5, <1>6, <1>7 DEF WellFound
  <2>2. Len(e.new) = 1 /\ (request.policy # None => ~Named(request.policy.deny, SubSeq(Normalize(c.ref.token), 1, 3)))
    BY <1>5, <1>7 DEF Rightful
  <2> QED BY <1>4, <1>5, <2>1, <2>2
<1>8. CASE ~c.ref.split
  <2>1. file.fields[p].role \notin {"check", "formula", "runs", "other"} /\ file.fields[p].value = c.ref.token
    BY <1>5, <1>6, <1>8 DEF WellFound
  <2>2. Amends(C, e.new, c.ref.token, Context, IF Searched(file.format) THEN request.known ELSE {}, request.policy)
    BY <1>5, <1>8 DEF Rightful
  <2> QED BY <1>4, <1>5, <2>1, <2>2 DEF Amends, Context
<1> QED BY <1>7, <1>8

\* Before the first request nothing is claimed.
LEMMA CorrectionStarts == ASSUME NEW C, Init PROVE CorrectionInv(C)
BY DEF Init, CorrectionInv, KeysIn, DefaultPolicy

\* A request starts with an empty report.
LEMMA ServeKeeps ==
  ASSUME NEW C, CorrectionInv(C), NEW q, NEW f \in FileOver(C), Serve(q, f)
  PROVE  CorrectionInv(C)'
<1>1. /\ file' = f /\ refs' = Locate(f) /\ edits' = {} /\ text' = f.fields /\ round' = round + 1 /\ operator' = operator
      /\ request'.policy = PolicyFor(q.door) /\ phase' \in {"judging", "idle"}
  BY DEF Serve
<1>2. KeysIn(C, operator)' /\ round' \in Nat /\ round' # 0
  BY <1>1 DEF CorrectionInv, KeysIn
<1>3. f.fields \in Seq(FieldOver(C)) /\ [f EXCEPT !.fields = f.fields] = f
  BY DEF FileOver
<1>4. (request'.policy # None => KeysIn(C, request'.policy))
  BY <1>1 DEF PolicyFor, CorrectionInv
<1>5. Judged(C)'
  <2>1. refs' \in Seq(Found(C, f))
    BY <1>1, LocatedAreFound
  <2>2. Found(C, f) = Found(C, file)'
    BY <1>1
  <2>3. EditsAreRightful(C)'
    BY <1>1 DEF EditsAreRightful
  <2> QED BY <1>4, <2>1, <2>2, <2>3 DEF Judged
<1>6. DOMAIN report' = DOMAIN NoReport
  BY DEF Serve
<1> QED BY <1>1, <1>2, <1>3, <1>5, <1>6 DEF CorrectionInv

\* New rules are for requests to come: the one being served keeps its own.
LEMMA RulesKeep ==
  ASSUME NEW C, RequestsAreTexts(C), CorrectionInv(C), PutPolicy
  PROVE  CorrectionInv(C)'
<1>1. KeysIn(C, operator')
  BY DEF PutPolicy, RequestsAreTexts, KeysIn
<1>2. UNCHANGED <<request, file, refs, edits, report, text, earlier, round, phase>>
  BY DEF PutPolicy
<1>3. Judged(C) => Judged(C)'
  BY <1>2 DEF Judged, EditsAreRightful, Rightful, Context
<1> QED BY <1>1, <1>2, <1>3 DEF CorrectionInv, ApplyEdits

\* The next identifier to be judged is one of the file.
LEMMA HeadIsFound ==
  ASSUME NEW C, CorrectionInv(C), Judging
  PROVE  Ref \in Found(C, file) /\ Tail(refs) \in Seq(Found(C, file))
BY HeadTailProperties DEF CorrectionInv, Judging, Judged, Ref

\* An identifier that is only counted or flagged.
LEMMA CountKeeps ==
  ASSUME NEW C, CorrectionInv(C), Judging, refs' = Tail(refs), report.corrected \subseteq report'.corrected,
         DOMAIN report' = DOMAIN report, UNCHANGED <<edits, judgingSame>>
  PROVE  CorrectionInv(C)'
<1>1. UNCHANGED <<operator, request, file, text, round, phase, edits>>
  BY DEF judgingSame
<1>2. Judged(C)
  BY DEF CorrectionInv, Judging
<1>3. Tail(refs) \in Seq(Found(C, file))
  BY HeadIsFound
<1>4. EditsAreRightful(C)'
  <2>1. ASSUME NEW c, NEW new, Rightful(C, c, new) PROVE Rightful(C, c, new)'
    BY <1>1, <2>1 DEF Rightful, Context
  <2> QED BY <1>1, <1>2, <2>1 DEF Judged, EditsAreRightful
<1>5. Judged(C)'
  BY <1>1, <1>2, <1>3, <1>4 DEF Judged
<1> QED BY <1>1, <1>5 DEF CorrectionInv, ApplyEdits

\* What a verdict puts in place is rightful.
LEMMA VerdictIsRightful ==
  ASSUME NEW C, Letter \cup Digit \subseteq C, CorrectionInv(C), Judging, Verdict.status = "corrected"
  PROVE  Rightful(C, Ref, IF Ref.split THEN <<Verdict.computed>> ELSE Verdict.corrected)
<1>1. Ref \in Found(C, file) /\ (request.policy # None => KeysIn(C, request.policy))
  BY HeadIsFound DEF CorrectionInv, Judging, Judged
<1>2. Ref.token \in Seq(C) /\ Ref.number \in Seq(C)
  BY <1>1 DEF Found, WellFound
<1>3. CASE Ref.split
  <2> DEFINE r == CorrectX12Equipment(Ref.token, Ref.number, Printed, request.policy)
  <2>1. Verdict = r
    BY <1>3 DEF Verdict, JudgedUnder
  <2>2. r.status = "corrected"
    BY <2>1
  <2>3. r.computed \in Digit /\ (request.policy # None => ~Named(request.policy.deny, SubSeq(Normalize(Ref.token), 1, 3)))
    BY <1>1, <1>2, <2>2, SplitCorrects
  <2> HIDE DEF r
  <2>4. <<r.computed>> \in Seq(C) /\ Len(<<r.computed>>) = 1
    BY <2>3
  <2> QED BY <1>3, <2>1, <2>3, <2>4 DEF Rightful
<1>4. CASE ~Ref.split
  <2> DEFINE known == IF Searched(file.format) THEN request.known ELSE {}
             r == CorrectIdentifier(Ref.token, Context, known, request.ownerPolicy, request.policy)
  <2>1. Verdict = r
    BY <1>4 DEF Verdict, JudgedUnder
  <2>2. Context \in {"free_text", "equipment_id"} /\ r.status = "corrected"
    BY <2>1 DEF Context
  <2>3. Amends(C, r.corrected, Ref.token, Context, known, request.policy)
    <3> HIDE DEF known
    <3> QED BY <1>1, <1>2, <2>2, CorrectAmends
  <2> HIDE DEF r
  <2> QED BY <1>4, <2>1, <2>3 DEF Rightful
<1> QED BY <1>3, <1>4

\* A correction is reported with its edit.
LEMMA ChangeKeeps ==
  ASSUME NEW C, Letter \cup Digit \subseteq C, CorrectionInv(C), ChangeIt
  PROVE  CorrectionInv(C)'
<1> DEFINE new == IF Ref.split THEN <<Verdict.computed>> ELSE Verdict.corrected
<1>1. /\ Judging /\ Verdict.status = "corrected" /\ refs' = Tail(refs)
      /\ edits' = edits \cup {[start |-> p, old |-> file.fields[p].value, new |-> new] : p \in Ref.places}
      /\ report' = [report EXCEPT !.corrected = @ \cup {Said}]
      /\ UNCHANGED <<operator, request, file, text, round, phase>>
  BY DEF ChangeIt, Edits, judgingSame
<1>2. Judged(C) /\ phase = "judging"
  BY <1>1 DEF CorrectionInv, Judging
<1>3. Ref \in Found(C, file) /\ Tail(refs) \in Seq(Found(C, file))
  BY <1>1, HeadIsFound
<1>4. Rightful(C, Ref, new)
  BY <1>1, VerdictIsRightful
<1>5. Said.ref = Ref
  BY DEF Said
<1> HIDE DEF new
<1>6. EditsAreRightful(C)'
  <2>1. ASSUME NEW c, NEW n, Rightful(C, c, n) PROVE Rightful(C, c, n)'
    BY <1>1, <2>1 DEF Rightful, Context
  <2>2. edits # edits' => Said \in report'.corrected
    BY <1>1
  <2> QED BY <1>1, <1>2, <1>3, <1>4, <1>5, <2>1, <2>2 DEF Judged, EditsAreRightful
<1>7. Judged(C)'
  BY <1>1, <1>2, <1>3, <1>6 DEF Judged
<1> QED BY <1>1, <1>2, <1>7 DEF CorrectionInv

\* Whatever is said of an identifier, the edits stay rightful.
LEMMA JudgingKeeps ==
  ASSUME NEW C, Letter \cup Digit \subseteq C, CorrectionInv(C),
         CountEmpty \/ CountValid \/ CountInvalid \/ FlagIt \/ ChangeIt
  PROVE  CorrectionInv(C)'
<1>1. CASE CountEmpty
  <2>1. Judging /\ refs' = Tail(refs) /\ UNCHANGED <<edits, judgingSame>>
    BY <1>1 DEF CountEmpty
  <2>2. report.corrected \subseteq report'.corrected /\ DOMAIN report' = DOMAIN report
    BY <1>1 DEF CountEmpty
  <2> QED BY <2>1, <2>2, CountKeeps
<1>2. CASE CountValid
  <2>1. Judging /\ refs' = Tail(refs) /\ UNCHANGED <<edits, judgingSame>>
    BY <1>2 DEF CountValid
  <2>2. report.corrected \subseteq report'.corrected /\ DOMAIN report' = DOMAIN report
    BY <1>2 DEF CountValid
  <2> QED BY <2>1, <2>2, CountKeeps
<1>3. CASE CountInvalid
  <2>1. Judging /\ refs' = Tail(refs) /\ UNCHANGED <<edits, judgingSame>>
    BY <1>3 DEF CountInvalid
  <2>2. report.corrected \subseteq report'.corrected /\ DOMAIN report' = DOMAIN report
    BY <1>3 DEF CountInvalid
  <2> QED BY <2>1, <2>2, CountKeeps
<1>4. CASE FlagIt
  <2>1. Judging /\ refs' = Tail(refs) /\ UNCHANGED <<edits, judgingSame>>
    BY <1>4 DEF FlagIt
  <2>2. report.corrected \subseteq report'.corrected /\ DOMAIN report' = DOMAIN report
    BY <1>4 DEF FlagIt
  <2> QED BY <2>1, <2>2, CountKeeps
<1> QED BY <1>1, <1>2, <1>3, <1>4, ChangeKeeps

\* The answer is a file like the one that was sent.
LEMMA AnswerIsFile ==
  ASSUME NEW C, CorrectionInv(C), phase = "judging"
  PROVE  LET answer == ApplyEdits(file.fields)
         IN  answer \in Seq(FieldOver(C)) /\ [file EXCEPT !.fields = answer] \in FileOver(C)
<1> DEFINE answer == ApplyEdits(file.fields)
           N == Len(file.fields)
<1>1. file \in FileOver(C) /\ Judged(C)
  BY DEF CorrectionInv
<1>2. N \in Nat /\ DOMAIN file.fields = 1 .. N /\ \A p \in 1 .. N : file.fields[p] \in FieldOver(C)
  <2>1. file.fields \in Seq(FieldOver(C))
    BY <1>1 DEF FileOver
  <2> QED BY <2>1, LenProperties, ElementOfSeq
<1>3. ASSUME NEW e \in edits PROVE e.new \in Seq(C)
  BY <1>1 DEF Judged, EditsAreRightful, Rightful, Amends
<1>4. ASSUME NEW p \in 1 .. N PROVE answer[p] \in FieldOver(C) /\ answer[p].role = file.fields[p].role
  <2>1. answer[p] = IF \E e \in edits : e.start = p THEN [file.fields[p] EXCEPT !.value = (CHOOSE e \in edits : e.start = p).new]
                    ELSE file.fields[p]
    BY <1>2 DEF ApplyEdits
  <2>2. CASE \E e \in edits : e.start = p
    <3>1. PICK e \in edits : answer[p] = [file.fields[p] EXCEPT !.value = e.new]
      BY <2>1, <2>2
    <3>2. e.new \in Seq(C) /\ file.fields[p] \in FieldOver(C)
      BY <1>2, <1>3
    <3> QED BY <3>1, <3>2 DEF FieldOver
  <2>3. CASE ~ \E e \in edits : e.start = p
    BY <1>2, <2>1, <2>3
  <2> QED BY <2>2, <2>3
<1>5. answer = [p \in 1 .. N |-> answer[p]]
  BY <1>2 DEF ApplyEdits
<1> HIDE DEF answer
<1>6. answer \in Seq(FieldOver(C)) /\ DOMAIN answer = 1 .. N
  <2>1. \A p \in 1 .. N : answer[p] \in FieldOver(C)
    BY <1>4
  <2> HIDE DEF N
  <2> DEFINE a == [p \in 1 .. N |-> answer[p]]
  <2>2. a \in Seq(FieldOver(C)) /\ DOMAIN a = 1 .. N
    BY <1>2, <2>1
  <2> HIDE DEF a
  <2>3. answer = a
    BY <1>5 DEF a
  <2> QED BY <2>2, <2>3
<1>7. [file EXCEPT !.fields = answer] \in FileOver(C)
  <2> DEFINE f == [file EXCEPT !.fields = answer]
  <2>1. f \in [format : STRING, fields : Seq(FieldOver(C))] /\ f.fields = answer
    BY <1>1, <1>6 DEF FileOver
  <2> HIDE DEF f
  <2>2. \A p \in 1 .. N : file.fields[p].role = "initial" => p + 1 \in 1 .. N /\ file.fields[p + 1].role = "number"
    BY <1>1, <1>2 DEF FileOver
  <2>3. \A p \in DOMAIN f.fields :
          f.fields[p].role = "initial" => p + 1 \in DOMAIN f.fields /\ f.fields[p + 1].role = "number"
    BY <1>4, <1>6, <2>1, <2>2
  <2> QED BY <2>1, <2>3 DEF FileOver, f
<1> QED BY <1>6, <1>7 DEF answer

\* An answer, a refusal and the end of a request change no edit.
LEMMA EndsKeep ==
  ASSUME NEW C, CorrectionInv(C), Answer \/ Fail \/ Leave
  PROVE  CorrectionInv(C)'
<1>1. CASE Answer
  <2>1. /\ phase = "judging" /\ phase' = "answered" /\ text' = ApplyEdits(file.fields)
        /\ UNCHANGED <<operator, request, file, refs, edits, report, round>>
    BY <1>1 DEF Answer
  <2>2. text' \in Seq(FieldOver(C)) /\ [file EXCEPT !.fields = text'] \in FileOver(C)
    BY <2>1, AnswerIsFile
  <2>3. Judged(C)'
    BY <2>1 DEF CorrectionInv, Judged, EditsAreRightful, Rightful, Context
  <2>4. text' = ApplyEdits(file.fields)'
    BY <2>1 DEF ApplyEdits
  <2> QED BY <2>1, <2>2, <2>3, <2>4 DEF CorrectionInv
<1>2. CASE Fail \/ Leave
  BY <1>2 DEF Fail, Leave, CorrectionInv
<1> QED BY <1>1, <1>2

\* Every step keeps the invariant.
LEMMA CorrectionKeeps ==
  ASSUME NEW C, RequestsAreTexts(C), CorrectionInv(C), [Next]_corrVars
  PROVE  CorrectionInv(C)'
<1>1. Letter \cup Digit \subseteq C
  BY DEF RequestsAreTexts
<1>2. CASE Upload
  <2>1. PICK q \in Requests, f \in Files : Serve(q, f)
    BY <1>2 DEF Upload
  <2>2. f \in FileOver(C)
    BY DEF RequestsAreTexts
  <2> QED BY <2>1, <2>2, ServeKeeps
<1>3. CASE UploadAgain
  <2>1. PICK q \in Requests : Serve(q, [file EXCEPT !.fields = text])
    BY <1>3 DEF UploadAgain
  <2>2. [file EXCEPT !.fields = text] \in FileOver(C)
    BY <1>3 DEF UploadAgain, CorrectionInv
  <2> QED BY <2>1, <2>2, ServeKeeps
<1>4. CASE UNCHANGED corrVars
  <2>1. UNCHANGED <<operator, request, file, refs, edits, report, text, round, phase>>
    BY <1>4 DEF corrVars
  <2> QED BY <2>1 DEF CorrectionInv, Judged, EditsAreRightful, Rightful, Context, ApplyEdits
<1> QED BY <1>1, <1>2, <1>3, <1>4, RulesKeep, JudgingKeeps, EndsKeep DEF Next

(***************************************************************************)
(* An answer differs from what was sent in the check digits reported as    *)
(* corrected and in nothing else: no owner denied when the request came is *)
(* touched, whatever rules were put in force meanwhile, and text nobody    *)
(* vouches for only where the owner is corroborated (service.py,           *)
(* equipment_checkdigit.py under policy.py).                               *)
(***************************************************************************)
THEOREM AnswersArePermitted ==
  ASSUME NEW C, RequestsAreTexts(C)
  PROVE  Spec => []EditsArePermitted
<1>1. Init => CorrectionInv(C)
  BY CorrectionStarts
<1>2. CorrectionInv(C) /\ [Next]_corrVars => CorrectionInv(C)'
  BY CorrectionKeeps
<1>3. CorrectionInv(C) => EditsArePermitted
  BY InvPermits
<1> QED BY <1>1, <1>2, <1>3, PTL DEF Spec

(* ---- judging twice ---- *)

\* When everything is in the set, everything is selected.
LEMMA OnlyAll ==
  ASSUME NEW T, NEW t \in Seq(T), NEW S, \A i \in DOMAIN t : t[i] \in S
  PROVE  Only(t, S) = t
<1> DEFINE N == Len(t)
           K == Selecting(t, S)
           D == {i \in 0 .. N : K[i] \in Seq(T) /\ Len(K[i]) = i /\ \A k \in 1 .. i : K[i][k] = t[k]}
<1>1. N \in Nat /\ DOMAIN t = 1 .. N /\ t \in [1 .. N -> T]
  BY LenProperties
<1>2. K[0] = <<>> /\ \A i \in 1 .. N : K[i] = IF t[i] \in S THEN Append(K[i - 1], t[i]) ELSE K[i - 1]
  BY <1>1, SelectingIs
<1> HIDE DEF N, K
<1>3. 0 \in D
  <2>1. K[0] \in Seq(T) /\ Len(K[0]) = 0 /\ 1 .. 0 = {}
    BY <1>2, EmptySeq
  <2> QED BY <1>1, <2>1
<1>4. ASSUME NEW i \in 0 .. N - 1, i \in D PROVE i + 1 \in D
  <2>1. i + 1 \in 1 .. N /\ i + 1 - 1 = i /\ i + 1 \in 0 .. N
    BY <1>1
  <2> DEFINE x == t[i + 1]
             s == K[i]
  <2>2. K[i + 1] = Append(s, x) /\ x \in T
    <3>1. i + 1 \in DOMAIN t
      BY <1>1, <2>1
    <3>2. t[i + 1] \in S /\ t[i + 1] \in T
      BY <3>1, <1>1
    <3>3. K[i + 1] = IF t[i + 1] \in S THEN Append(K[i + 1 - 1], t[i + 1]) ELSE K[i + 1 - 1]
      BY <1>2, <2>1
    <3> QED BY <2>1, <3>2, <3>3
  <2>3. s \in Seq(T) /\ Len(s) = i /\ \A k \in 1 .. i : s[k] = t[k]
    BY <1>4
  <2> DEFINE a == Append(s, x)
  <2>4. a \in Seq(T) /\ Len(a) = i + 1 /\ (\A k \in 1 .. i : a[k] = s[k]) /\ a[i + 1] = x
    BY <2>2, <2>3, AppendProperties
  <2>5. \A k \in 1 .. i + 1 : k \in 1 .. i \/ k = i + 1
    BY <2>1
  <2> HIDE DEF a, s
  <2>6. \A k \in 1 .. i + 1 : a[k] = t[k]
    BY <2>3, <2>4, <2>5
  <2>7. K[i + 1] = a
    BY <2>2 DEF a
  <2> QED BY <2>1, <2>4, <2>6, <2>7
<1>5. 0 .. N \subseteq D
  <2> HIDE DEF D
  <2> QED BY <1>1, <1>3, <1>4, IntervalInduction
<1>6. N \in D
  BY <1>1, <1>5
<1>7. Only(t, S) = K[N]
  BY DEF Only, K, N
<1>8. K[N] = t
  BY <1>6, SeqEqual DEF N
<1> QED BY <1>7, <1>8

\* Letters and digits are neither blanks nor to be put in upper case.
LEMMA NoBlanks == \A ch \in Letter \cup Digit : ch \notin Blank /\ ch \notin DOMAIN Upper
<1>1. \A ch \in Letter : ch \notin Blank /\ ch \notin DOMAIN Upper
  BY DEF Letter, LetterValue, Blank, Upper
<1>2. \A i \in 1 .. 10 : Digits[i] \notin Blank /\ Digits[i] \notin DOMAIN Upper
  <2>1. \A i \in 1 .. 10 : i = 1 \/ i = 2 \/ i = 3 \/ i = 4 \/ i = 5 \/ i = 6 \/ i = 7 \/ i = 8 \/ i = 9 \/ i = 10
    OBVIOUS
  <2>2. /\ Digits[1] = "0" /\ Digits[2] = "1" /\ Digits[3] = "2" /\ Digits[4] = "3" /\ Digits[5] = "4"
        /\ Digits[6] = "5" /\ Digits[7] = "6" /\ Digits[8] = "7" /\ Digits[9] = "8" /\ Digits[10] = "9"
    BY DEF Digits
  <2>3. \A ch \in {"0", "1", "2", "3", "4", "5", "6", "7", "8", "9"} : ch \notin Blank /\ ch \notin DOMAIN Upper
    BY DEF Blank, Upper
  <2> QED BY <2>1, <2>2, <2>3
<1>3. ASSUME NEW ch \in Digit PROVE ch \notin Blank /\ ch \notin DOMAIN Upper
  <2>1. PICK i \in 1 .. 10 : ch = Digits[i]
    BY DigitsAre DEF Digit, Range
  <2> QED BY <1>2, <2>1
<1> QED BY <1>1, <1>3

\* A token of letters and digits is normal.
LEMMA PlainIsNormal ==
  ASSUME NEW t \in Seq(Letter \cup Digit)
  PROVE  Normalize(t) = t
<1>1. DOMAIN t = 1 .. Len(t) /\ t \in [1 .. Len(t) -> Letter \cup Digit]
  BY LenProperties
<1>2. \A i \in DOMAIN t : t[i] \in Range(t) \ Blank
  BY <1>1, NoBlanks DEF Range
<1>3. Only(t, Range(t) \ Blank) = t
  BY <1>2, OnlyAll
<1>4. Normalize(t) = [i \in DOMAIN t |-> IF t[i] \in DOMAIN Upper THEN Upper[t[i]] ELSE t[i]]
  BY <1>3 DEF Normalize
<1>5. \A i \in DOMAIN t : (IF t[i] \in DOMAIN Upper THEN Upper[t[i]] ELSE t[i]) = t[i]
  BY <1>1, NoBlanks
<1>6. t = [i \in DOMAIN t |-> t[i]]
  BY <1>1
<1> QED BY <1>4, <1>5, <1>6

\* The first elements of a sequence, one by one.
LEMMA HeadOf ==
  ASSUME NEW C, NEW t \in Seq(C), NEW m \in Nat, m <= Len(t)
  PROVE  SubSeq(t, 1, m) = [i \in 1 .. m |-> t[i]]
OBVIOUS

\* The digits of a container number.
LEMMA TailOf ==
  ASSUME NEW C, NEW t \in Seq(C), Len(t) = 11
  PROVE  SubSeq(t, 5, 11) = [i \in 1 .. 7 |-> t[i + 4]]
OBVIOUS

\* A number with its check digit replaced.
LEMMA WithDigitIs ==
  ASSUME NEW C, NEW t \in Seq(C), ContainerShaped(t), NEW d \in Digit
  PROVE  LET n == WithDigit(t, d)
         IN  /\ n \in Seq(Letter \cup Digit) /\ Len(n) = 11 /\ n[11] = d
             /\ \A i \in 1 .. 10 : n[i] = t[i]
             /\ SubSeq(n, 1, 10) = SubSeq(t, 1, 10)
             /\ BicLike(n) <=> BicLike(t)
             /\ ContainerShaped(n) /\ OwnerCode(n) = OwnerCode(t) /\ n[4] = t[4]
<1> DEFINE L == Letter \cup Digit
           b == SubSeq(t, 1, 10)
           n == WithDigit(t, d)
<1>1. /\ Len(t) = 11 /\ b \in Seq(C) /\ Len(b) = 10
      /\ \A i \in 1 .. 10 : b[i] = t[i] /\ t[i] \in L
  BY ShapedIs
<1>2. b \in Seq(L)
  <2>1. \A i \in 1 .. 10 : t[i] \in L BY <1>1
  <2> QED BY <2>1, SubSeqProperties
<1>3. <<d>> \in Seq(L) /\ Len(<<d>>) = 1 /\ <<d>>[1] = d
  OBVIOUS
<1>4. n = b \o <<d>>
  BY DEF WithDigit
<1> HIDE DEF b, n, L
<1>5. /\ b \o <<d>> \in Seq(L) /\ Len(b \o <<d>>) = Len(b) + Len(<<d>>)
      /\ \A i \in 1 .. Len(b) + Len(<<d>>) : (b \o <<d>>)[i] = IF i <= Len(b) THEN b[i] ELSE <<d>>[i - Len(b)]
  BY <1>2, <1>3, ConcatProperties
<1>6. n \in Seq(L) /\ Len(n) = 11 /\ n[11] = d /\ \A i \in 1 .. 10 : n[i] = t[i]
  <2>1. n \in Seq(L) /\ Len(n) = 11
    BY <1>1, <1>3, <1>4, <1>5
  <2>2. \A i \in 1 .. 11 : n[i] = IF i <= 10 THEN b[i] ELSE <<d>>[i - 10]
    BY <1>1, <1>3, <1>4, <1>5
  <2>3. \A i \in 1 .. 10 : n[i] = b[i]
    BY <2>2
  <2>4. n[11] = <<d>>[1]
    BY <2>2
  <2> QED BY <1>1, <1>3, <2>1, <2>3, <2>4
<1>7. \A i \in 1 .. 11 : n[i] \in L
  BY <1>6, ElementOfSeq
<1>8. SubSeq(n, 1, 10) = b
  <2>1. SubSeq(n, 1, 10) = [i \in 1 .. 10 |-> n[i]] /\ SubSeq(t, 1, 10) = [i \in 1 .. 10 |-> t[i]]
    BY HeadOf, <1>1, <1>6
  <2> QED BY <1>6, <2>1 DEF b
<1>9. SubSeq(n, 1, 4) = SubSeq(t, 1, 4) /\ SubSeq(n, 1, 3) = SubSeq(t, 1, 3)
  <2>1. /\ SubSeq(n, 1, 4) = [i \in 1 .. 4 |-> n[i]] /\ SubSeq(t, 1, 4) = [i \in 1 .. 4 |-> t[i]]
        /\ SubSeq(n, 1, 3) = [i \in 1 .. 3 |-> n[i]] /\ SubSeq(t, 1, 3) = [i \in 1 .. 3 |-> t[i]]
    BY HeadOf, <1>1, <1>6
  <2> QED BY <1>6, <2>1
<1>10. AllIn(SubSeq(n, 5, 11), Digit)
  <2>1. AllIn(SubSeq(t, 5, 11), Digit)
    BY DEF ContainerShaped, Shaped
  <2>2. SubSeq(n, 5, 11) = [i \in 1 .. 7 |-> n[i + 4]] /\ SubSeq(t, 5, 11) = [i \in 1 .. 7 |-> t[i + 4]]
    BY TailOf, <1>1, <1>6
  <2>3. \A i \in 1 .. 7 : t[i + 4] \in Digit
    BY <2>1, <2>2 DEF AllIn
  <2>4. ASSUME NEW i \in 1 .. 7 PROVE n[i + 4] \in Digit
    <3>1. CASE i = 7
      BY <1>6, <3>1
    <3>2. CASE i # 7
      <4>1. i + 4 \in 1 .. 10 BY <3>2
      <4> QED BY <1>6, <2>3, <4>1
    <3> QED BY <3>1, <3>2
  <2> QED BY <2>2, <2>4 DEF AllIn
<1>11. Len(n) = 11 /\ Len(t) = 11 /\ AllIn(SubSeq(t, 5, 11), Digit)
  BY <1>1, <1>6 DEF ContainerShaped, Shaped
<1>12. (BicLike(n) <=> BicLike(t)) /\ ContainerShaped(n)
  BY <1>9, <1>10, <1>11 DEF BicLike, ContainerShaped, Shaped
<1>13. OwnerCode(n) = OwnerCode(t)
  BY <1>9, <1>11 DEF OwnerCode
<1>14. 4 \in 1 .. 10
  OBVIOUS
<1>15. n[4] = t[4]
  BY <1>6, <1>14
<1> QED BY <1>6, <1>8, <1>12, <1>13, <1>15 DEF n, b, L

\* What is evaluated anew with the digit that was computed is valid.
LEMMA EvaluateAgain ==
  ASSUME NEW C, NEW norm \in Seq(C), NEW context \in {"free_text", "equipment_id"}, NEW known, NEW ownerPolicy,
         Evaluate(norm, context, known, ownerPolicy).status = "corrected"
  PROVE  LET d == Char(Iso6346CheckDigit(SubSeq(norm, 1, 10)))
         IN  Evaluate(WithDigit(norm, d), context, known, ownerPolicy).status = "valid"
<1> DEFINE d == Char(Iso6346CheckDigit(SubSeq(norm, 1, 10)))
           n == WithDigit(norm, d)
<1>1. ContainerShaped(norm)
  BY EvaluateCorrects
<1>2. d \in Digit
  BY <1>1, ShapedIs, IsoDigit
<1> HIDE DEF d
<1>3. /\ n[11] = d /\ SubSeq(n, 1, 10) = SubSeq(norm, 1, 10)
      /\ BicLike(n) <=> BicLike(norm)
      /\ ContainerShaped(n) /\ OwnerCode(n) = OwnerCode(norm) /\ n[4] = norm[4]
  BY <1>1, <1>2, WithDigitIs
<1> HIDE DEF n
<1>4. Char(Iso6346CheckDigit(SubSeq(n, 1, 10))) = d
  BY <1>3 DEF d
<1>5. ASSUME NEW trusted, NEW type PROVE Decide(trusted, type, n, n[11], d).status = "valid"
  BY <1>3 DEF Decide, Result
<1>6. CASE BicLike(norm)
  <2>1. Category(norm[4]) # "unknown"
    <3>1. ASSUME Category(norm[4]) = "unknown" PROVE FALSE
      <4>1. Evaluate(norm, context, known, ownerPolicy) = DecideBic(norm, context, known)
        BY <1>6 DEF Evaluate
      <4>2. DecideBic(norm, context, known) = Result("flagged", "unknown", norm, norm[11], d)
        BY <3>1 DEF DecideBic, d
      <4>3. Result("flagged", "unknown", norm, norm[11], d).status = "flagged"
        BY DEF Result
      <4> QED BY <4>1, <4>2, <4>3
    <3> QED BY <3>1
  <2>2. Evaluate(n, context, known, ownerPolicy) = DecideBic(n, context, known)
    BY <1>3, <1>6 DEF Evaluate
  <2>3. \E trusted : DecideBic(n, context, known) = Decide(trusted, Category(n[4]), n, n[11], d)
    BY <1>3, <1>4, <2>1 DEF DecideBic
  <2> QED BY <1>5, <2>2, <2>3 DEF n, d
<1>7. CASE ~BicLike(norm)
  <2>1. ownerPolicy = "lenient" /\ Declared(context)
    <3>1. ASSUME ~(ownerPolicy = "lenient" /\ Declared(context)) PROVE FALSE
      <4>1. Evaluate(norm, context, known, ownerPolicy) = DecidePseudo(norm, context, ownerPolicy)
        BY <1>1, <1>7 DEF Evaluate
      <4>2. DecidePseudo(norm, context, ownerPolicy) = Result("flagged", "iso6346", norm, norm[11], d)
        BY <3>1 DEF DecidePseudo, d
      <4>3. Result("flagged", "iso6346", norm, norm[11], d).status = "flagged"
        BY DEF Result
      <4> QED BY <4>1, <4>2, <4>3
    <3> QED BY <3>1
  <2>2. Evaluate(n, context, known, ownerPolicy) = DecidePseudo(n, context, ownerPolicy)
    BY <1>3, <1>7 DEF Evaluate
  <2>3. DecidePseudo(n, context, ownerPolicy) = Decide(TRUE, "iso6346", n, n[11], d)
    BY <1>4, <2>1 DEF DecidePseudo
  <2> QED BY <1>5, <2>2, <2>3 DEF n, d
<1> QED BY <1>6, <1>7

\* A corrected number that comes back is valid, under the same rules.
LEMMA CorrectedIsValid ==
  ASSUME NEW C, Letter \cup Digit \subseteq C, NEW token \in Seq(C), NEW context \in {"free_text", "equipment_id"},
         NEW known, NEW ownerPolicy, NEW policy,
         CorrectIdentifier(token, context, known, ownerPolicy, policy).status = "corrected"
  PROVE  LET new == CorrectIdentifier(token, context, known, ownerPolicy, policy).corrected
         IN  new # <<>> /\ CorrectIdentifier(new, context, known, ownerPolicy, policy).status = "valid"
<1> DEFINE norm == Normalize(token)
           owner == OwnerCode(norm)
           t == Resolve(policy, owner)
           k == IF policy = None THEN known ELSE IF t.corroborated THEN known \cup {owner} ELSE known
           o == IF policy = None THEN ownerPolicy ELSE t.ownerPolicy
           e == Evaluate(norm, context, k, o)
           r == CorrectIdentifier(token, context, known, ownerPolicy, policy)
           d == Char(Iso6346CheckDigit(SubSeq(norm, 1, 10)))
           n == WithDigit(norm, d)
<1>1. norm \in Seq(C)
  BY NormalizeIs
<1>2. r = e /\ (policy # None => ~t.forceFlag)
  <2>1. CASE policy = None
    BY <2>1 DEF CorrectIdentifier
  <2>2. CASE policy # None
    <3>1. r = Ruled(t, e)
      BY <2>2 DEF CorrectIdentifier
    <3>2. \E s, ty, nn, p, c : e = Result(s, ty, nn, p, c)
      BY EvaluateIsResult
    <3>3. Ruled(t, e).status = "corrected"
      BY <3>1
    <3> HIDE DEF r, e, t
    <3> QED BY <3>1, <3>2, <3>3, RuledIs
  <2> QED BY <2>1, <2>2
<1>3. e.status = "corrected"
  BY <1>2
<1> HIDE DEF norm, r, k, o
<1>4. r.corrected = n /\ ContainerShaped(norm)
  BY <1>2, <1>3, EvaluateCorrects
<1>5. Evaluate(n, context, k, o).status = "valid"
  BY <1>1, <1>3, EvaluateAgain
<1>6. d \in Digit
  BY <1>1, <1>4, ShapedIs, IsoDigit
<1>7. n \in Seq(Letter \cup Digit) /\ Len(n) = 11 /\ OwnerCode(n) = owner
  <2> HIDE DEF d
  <2> QED BY <1>1, <1>4, <1>6, WithDigitIs
<1>8. Normalize(n) = n /\ n # <<>>
  <2> HIDE DEF n
  <2>1. Len(<<>>) = 0
    OBVIOUS
  <2> QED BY <1>7, <2>1, PlainIsNormal
<1> HIDE DEF d, n, e
<1>9. CorrectIdentifier(n, context, known, ownerPolicy, policy) = Evaluate(n, context, k, o)
  <2>1. CASE policy = None
    BY <1>8, <2>1 DEF CorrectIdentifier, k, o
  <2>2. CASE policy # None
    <3>1. CorrectIdentifier(n, context, known, ownerPolicy, policy) = Ruled(t, Evaluate(n, context, k, o))
      BY <1>7, <1>8, <2>2 DEF CorrectIdentifier, k, o
    <3>2. ~t.forceFlag
      BY <1>2, <2>2
    <3> HIDE DEF t
    <3> QED BY <3>1, <3>2 DEF Ruled
  <2> QED BY <2>1, <2>2
<1> QED BY <1>4, <1>5, <1>8, <1>9 DEF r

\* So is a number in parts, with the digit in the place it has for one.
LEMMA SplitIsValid ==
  ASSUME NEW initial, NEW number, NEW printed, NEW policy,
         CorrectX12Equipment(initial, number, printed, policy).status = "corrected"
  PROVE  CorrectX12Equipment(initial, number, <<CorrectX12Equipment(initial, number, printed, policy).computed>>, policy).status
           = "valid"
<1> DEFINE init == Normalize(initial)
           num == Only(number, Digit)
           t == Resolve(policy, OwnerCode(init))
           r == CorrectX12Equipment(initial, number, printed, policy)
           e == EvaluateX12(init, num, printed)
           norm == init \o [i \in 1..(6 - Len(num)) |-> "0"] \o num
           d == Char(Iso6346CheckDigit(norm))
           type == Category(norm[4])
           again == EvaluateX12(init, num, <<d>>)
<1>1. \E s, ty, nn, p, c : e = Result(s, ty, nn, p, c)
  <2> HIDE DEF init, num
  <2> QED BY DEF EvaluateX12
<1>2. r = e /\ (policy # None => ~t.forceFlag)
  <2>1. CASE policy = None
    BY <2>1 DEF CorrectX12Equipment
  <2>2. CASE policy # None
    <3>1. r = Ruled(t, e)
      BY <2>2 DEF CorrectX12Equipment
    <3>2. Ruled(t, e).status = "corrected"
      BY <3>1
    <3> HIDE DEF r, e, t
    <3> QED BY <1>1, <3>1, <3>2, RuledIs
  <2> QED BY <2>1, <2>2
<1>3. e.status = "corrected"
  BY <1>2
<1>4. ASSUME NEW nn, NEW ty, NEW p, NEW c
      PROVE  /\ Result("invalid_structure", ty, nn, p, c).status = "invalid_structure"
             /\ Result("flagged", ty, nn, p, c).status = "flagged"
             /\ Result("valid", ty, nn, p, c).status = "valid"
             /\ Result("corrected", ty, nn, p, c).computed = c
  BY DEF Result
<1>5. /\ ~(Len(init) # 4 \/ ~AllIn(init, Letter)) /\ ~(Len(num) > 6) /\ type # "unknown"
      /\ e = Result("corrected", type, norm \o printed, IF printed = <<>> THEN None ELSE printed[1], d)
  <2> HIDE DEF init, num
  <2>1. e = IF Len(init) # 4 \/ ~AllIn(init, Letter) THEN Result("invalid_structure", "unknown", init \o num, None, None)
            ELSE IF Len(num) > 6 THEN Result("flagged", "unknown", init \o num, None, None)
            ELSE IF type = "unknown" THEN Result("flagged", "unknown", norm, None, d)
            ELSE IF printed = <<d>> THEN Result("valid", type, norm \o printed, d, d)
            ELSE Result("corrected", type, norm \o printed, IF printed = <<>> THEN None ELSE printed[1], d)
    BY DEF EvaluateX12
  <2> HIDE DEF e, norm, d, type
  <2> QED BY <1>3, <1>4, <2>1
<1>6. r.computed = d
  BY <1>2, <1>4, <1>5
<1>7. again = Result("valid", type, norm \o <<d>>, d, d)
  <2> HIDE DEF init, num
  <2> QED BY <1>5 DEF EvaluateX12
<1>8. again.status = "valid"
  BY <1>4, <1>7
<1> HIDE DEF again, d, r
<1>9. CorrectX12Equipment(initial, number, <<d>>, policy) = IF policy = None THEN again ELSE Ruled(t, again)
  BY DEF CorrectX12Equipment, again
<1>10. policy # None => Ruled(t, again) = again
  <2> HIDE DEF t
  <2> QED BY <1>2 DEF Ruled
<1> QED BY <1>6, <1>8, <1>9, <1>10 DEF r

(* ---- a file under the rules of a request, and what becomes of it ---- *)

ContextOf(f, q) == IF Searched(f.format) /\ ~q.trust THEN "free_text" ELSE "equipment_id"

Shown(f, ref) == IF ref.places = {} THEN <<>> ELSE f.fields[CHOOSE p \in ref.places : TRUE].value

TokenJudged(f, q, token) ==
  CorrectIdentifier(token, ContextOf(f, q), IF Searched(f.format) THEN q.known ELSE {}, q.ownerPolicy, q.policy)

JudgedIn(f, q, ref) ==
  IF ref.split THEN CorrectX12Equipment(ref.token, ref.number, Shown(f, ref), q.policy)
  ELSE TokenJudged(f, q, ref.token)

EmptyIn(f, ref) == f.format = "edifact" /\ ref.token = <<>>

ValidIn(f, q, ref)     == ~EmptyIn(f, ref) /\ JudgedIn(f, q, ref).status = "valid"
InvalidIn(f, q, ref)   == ~EmptyIn(f, ref) /\ JudgedIn(f, q, ref).status = "invalid_structure"
CorrectedIn(f, q, ref) == ~EmptyIn(f, ref) /\ JudgedIn(f, q, ref).status = "corrected" /\ ref.places # {}
FlaggedIn(f, q, ref) ==
  /\ ~EmptyIn(f, ref)
  /\ JudgedIn(f, q, ref).status = "flagged" \/ (JudgedIn(f, q, ref).status = "corrected" /\ ref.places = {})

NewOf(f, q, ref) == IF ref.split THEN <<JudgedIn(f, q, ref).computed>> ELSE JudgedIn(f, q, ref).corrected

Reached(f, p) == Located(f, p) \/ SeenOnly(f, p)
Seen(f) == {RefAt(f, p) : p \in {p \in DOMAIN f.fields : Reached(f, p)}}

EditsOf(f, q, ref) == {[start |-> p, old |-> f.fields[p].value, new |-> NewOf(f, q, ref)] : p \in ref.places}
EditsIn(f, q, S)   == UNION {EditsOf(f, q, ref) : ref \in {ref \in S : CorrectedIn(f, q, ref)}}

Written(fields, E) ==
  [p \in DOMAIN fields |->
     IF \E e \in E : e.start = p THEN [fields[p] EXCEPT !.value = (CHOOSE e \in E : e.start = p).new] ELSE fields[p]]

Redone(f, q) == [f EXCEPT !.fields = Written(f.fields, EditsIn(f, q, Seen(f)))]

Touched(f, q, p) == \E ref \in Seen(f) : CorrectedIn(f, q, ref) /\ p \in ref.places

\* The fields of a file.
LEMMA FieldsAre ==
  ASSUME NEW C, NEW f \in FileOver(C)
  PROVE  /\ \A p \in DOMAIN f.fields : f.fields[p] \in FieldOver(C) /\ f.fields[p].value \in Seq(C)
         /\ \A p \in DOMAIN f.fields : p \in Nat
         /\ \A p \in DOMAIN f.fields :
              f.fields[p].role = "initial" => p + 1 \in DOMAIN f.fields /\ f.fields[p + 1].role = "number"
<1>1. f.fields \in Seq(FieldOver(C))
  BY DEF FileOver
<1>2. DOMAIN f.fields = 1 .. Len(f.fields) /\ Len(f.fields) \in Nat
  BY <1>1, LenProperties
<1>3. \A p \in DOMAIN f.fields : f.fields[p] \in FieldOver(C)
  BY <1>1, <1>2, ElementOfSeq
<1>4. \A p \in DOMAIN f.fields : p \in Nat
  BY <1>2
<1> QED BY <1>3, <1>4 DEF FieldOver, FileOver

\* What is rewritten keeps its place and its role.
LEMMA RedoneIs ==
  ASSUME NEW C, NEW f \in FileOver(C), NEW q
  PROVE  LET g == Redone(f, q)
         IN  /\ g.format = f.format /\ DOMAIN g.fields = DOMAIN f.fields
             /\ \A p \in DOMAIN f.fields : g.fields[p].role = f.fields[p].role
             /\ \A p \in DOMAIN f.fields : ~Touched(f, q, p) => g.fields[p] = f.fields[p]
             /\ \A p \in DOMAIN f.fields : Touched(f, q, p) =>
                  \E ref \in Seen(f) : CorrectedIn(f, q, ref) /\ p \in ref.places /\ g.fields[p].value = NewOf(f, q, ref)
<1> DEFINE E == EditsIn(f, q, Seen(f))
           t == Written(f.fields, E)
           g == Redone(f, q)
<1>1. g.format = f.format /\ g.fields = t
  BY DEF Redone, FileOver
<1>2. DOMAIN t = DOMAIN f.fields
  BY DEF Written
<1>3. \A e \in E : \E ref \in Seen(f) : CorrectedIn(f, q, ref) /\ e.start \in ref.places /\ e.new = NewOf(f, q, ref)
  BY DEF EditsIn, EditsOf
<1>4. ASSUME NEW p, Touched(f, q, p) PROVE \E e \in E : e.start = p
  <2>1. PICK ref \in Seen(f) : CorrectedIn(f, q, ref) /\ p \in ref.places
    BY <1>4 DEF Touched
  <2> DEFINE e == [start |-> p, old |-> f.fields[p].value, new |-> NewOf(f, q, ref)]
  <2>2. e \in EditsOf(f, q, ref) /\ e.start = p
    BY <2>1 DEF EditsOf
  <2> HIDE DEF e
  <2> QED BY <2>1, <2>2 DEF EditsIn
<1> HIDE DEF E, g
<1>5. ASSUME NEW p \in DOMAIN f.fields
      PROVE  t[p] = IF \E e \in E : e.start = p THEN [f.fields[p] EXCEPT !.value = (CHOOSE e \in E : e.start = p).new]
                    ELSE f.fields[p]
  BY DEF Written
<1> HIDE DEF t
<1>6. ASSUME NEW p \in DOMAIN f.fields, \E e \in E : e.start = p
      PROVE  \E e \in E : e.start = p /\ t[p].role = f.fields[p].role /\ t[p].value = e.new
  <2>1. PICK e \in E : e.start = p /\ t[p] = [f.fields[p] EXCEPT !.value = e.new]
    BY <1>5, <1>6
  <2>2. f.fields[p] \in FieldOver(C)
    BY FieldsAre
  <2> QED BY <2>1, <2>2 DEF FieldOver
<1>7. ASSUME NEW p \in DOMAIN f.fields PROVE t[p].role = f.fields[p].role
  BY <1>5, <1>6
<1>8. ASSUME NEW p \in DOMAIN f.fields, ~Touched(f, q, p) PROVE t[p] = f.fields[p]
  <2>1. ~ \E e \in E : e.start = p
    <3>1. ASSUME NEW e \in E, e.start = p PROVE FALSE
      BY <1>3, <1>8, <3>1 DEF Touched
    <3> QED BY <3>1
  <2> QED BY <1>5, <2>1
<1>9. ASSUME NEW p \in DOMAIN f.fields, Touched(f, q, p)
      PROVE  \E ref \in Seen(f) : CorrectedIn(f, q, ref) /\ p \in ref.places /\ t[p].value = NewOf(f, q, ref)
  <2>1. PICK e \in E : e.start = p /\ t[p].value = e.new
    BY <1>4, <1>6, <1>9
  <2> QED BY <1>3, <2>1
<1> QED BY <1>1, <1>2, <1>7, <1>8, <1>9 DEF g

\* Where the places of a reference are.
LEMMA PlacesAre ==
  ASSUME NEW C, NEW f \in FileOver(C), NEW ref \in Seen(f), NEW p \in ref.places
  PROVE  /\ p \in DOMAIN f.fields /\ ref.token \in Seq(C)
         /\ ref.split => /\ f.fields[p].role = "check" /\ p - 2 \in DOMAIN f.fields /\ ref = RefAt(f, p - 2)
         /\ ~ref.split => /\ f.fields[p].role \in RoleOf(f.format) \ {"initial"}
                          /\ f.fields[p].value = ref.token
                          /\ ~Distinct(f.format) => ref = RefAt(f, p)
<1>1. PICK a \in DOMAIN f.fields : Reached(f, a) /\ ref = RefAt(f, a)
  BY DEF Seen
<1>2. /\ ref.token = f.fields[a].value /\ ref.split = (f.fields[a].role = "initial")
      /\ ref.places = IF f.fields[a].role = "initial" THEN CheckSlot(f, a)
                      ELSE IF SeenOnly(f, a) THEN {} ELSE IF Distinct(f.format) THEN Alike(f, a) ELSE {a}
  BY <1>1 DEF RefAt
<1>3. ref.token \in Seq(C) /\ a \in Nat
  BY <1>2, FieldsAre
<1>4. CASE f.fields[a].role = "initial"
  <2>1. p \in CheckSlot(f, a) /\ ref.split
    BY <1>2, <1>4
  <2>2. p = a + 2 /\ p \in DOMAIN f.fields /\ f.fields[p].role = "check"
    BY <2>1 DEF CheckSlot
  <2>3. p - 2 = a
    BY <1>3, <2>2
  <2> QED BY <1>1, <1>3, <2>1, <2>2, <2>3
<1>5. CASE f.fields[a].role # "initial"
  <2>1. ~ref.split /\ ~SeenOnly(f, a) /\ p \in (IF Distinct(f.format) THEN Alike(f, a) ELSE {a})
    BY <1>2, <1>5
  <2>2. Located(f, a)
    BY <1>1, <2>1 DEF Reached
  <2>3. f.fields[a].role \in RoleOf(f.format)
    BY <2>2 DEF Located
  <2>4. CASE Distinct(f.format)
    <3>1. p \in DOMAIN f.fields /\ f.fields[p].role \in RoleOf(f.format) /\ f.fields[p].value = f.fields[a].value
      BY <2>1, <2>4 DEF Alike
    <3>2. "initial" \notin RoleOf(f.format)
      BY <2>4 DEF Distinct, Searched, RoleOf
    <3> QED BY <1>2, <1>3, <2>1, <2>4, <3>1, <3>2
  <2>5. CASE ~Distinct(f.format)
    BY <1>1, <1>2, <1>3, <1>5, <2>1, <2>3, <2>5
  <2> QED BY <2>4, <2>5
<1> QED BY <1>4, <1>5

\* What a correction puts in the place of a token is valid there.
LEMMA NewIsValid ==
  ASSUME NEW C, Letter \cup Digit \subseteq C, NEW f \in FileOver(C), NEW q, NEW ref \in Seen(f),
         CorrectedIn(f, q, ref), ~ref.split
  PROVE  NewOf(f, q, ref) # <<>> /\ TokenJudged(f, q, NewOf(f, q, ref)).status = "valid"
<1> DEFINE known == IF Searched(f.format) THEN q.known ELSE {}
<1>1. ref.token \in Seq(C)
  <2>1. ref.places # {}
    BY DEF CorrectedIn
  <2> QED BY <2>1, PlacesAre
<1>2. JudgedIn(f, q, ref) = CorrectIdentifier(ref.token, ContextOf(f, q), known, q.ownerPolicy, q.policy)
  BY DEF JudgedIn, TokenJudged
<1>3. NewOf(f, q, ref) = CorrectIdentifier(ref.token, ContextOf(f, q), known, q.ownerPolicy, q.policy).corrected
  BY <1>2 DEF NewOf
<1>4. CorrectIdentifier(ref.token, ContextOf(f, q), known, q.ownerPolicy, q.policy).status = "corrected"
  BY <1>2 DEF CorrectedIn
<1>5. ContextOf(f, q) \in {"free_text", "equipment_id"}
  BY DEF ContextOf
<1> HIDE DEF known
<1>6. LET new == CorrectIdentifier(ref.token, ContextOf(f, q), known, q.ownerPolicy, q.policy).corrected
      IN  new # <<>> /\ CorrectIdentifier(new, ContextOf(f, q), known, q.ownerPolicy, q.policy).status = "valid"
  BY <1>1, <1>4, <1>5, CorrectedIsValid
<1> QED BY <1>3, <1>6 DEF TokenJudged, known

\* A token is judged by what it is, not by where it stands.
LEMMA TokenAnywhere ==
  ASSUME NEW f, NEW g, g.format = f.format, NEW q, NEW token
  PROVE  TokenJudged(g, q, token) = TokenJudged(f, q, token)
BY DEF TokenJudged, ContextOf

\* What is seen only is not rewritten.
LEMMA SeenOnlyStays ==
  ASSUME NEW C, NEW f \in FileOver(C), NEW q, NEW p \in DOMAIN f.fields,
         f.fields[p].role \in {"formula", "runs"}
  PROVE  LET g == Redone(f, q)
         IN  /\ SeenOnly(g, p) <=> SeenOnly(f, p)
             /\ ~Located(f, p) /\ ~Located(g, p)
             /\ SeenOnly(f, p) => /\ RefAt(g, p) = RefAt(f, p) /\ ~CorrectedIn(f, q, RefAt(f, p))
                                  /\ JudgedIn(g, q, RefAt(f, p)) = JudgedIn(f, q, RefAt(f, p))
<1> DEFINE g == Redone(f, q)
           ref == RefAt(f, p)
<1>1. {"formula", "runs"} \cap RoleOf(f.format) = {} /\ "check" \notin {"formula", "runs"}
  BY DEF RoleOf
<1>2. ~Touched(f, q, p)
  <2>1. ASSUME NEW r \in Seen(f), p \in r.places PROVE FALSE
    BY <1>1, <2>1, PlacesAre
  <2> QED BY <2>1 DEF Touched
<1>3. g.format = f.format /\ g.fields[p] = f.fields[p]
  BY <1>2, RedoneIs
<1> HIDE DEF g
<1>4. SeenOnly(g, p) <=> SeenOnly(f, p)
  BY <1>3 DEF SeenOnly
<1>5. ~Located(f, p) /\ ~Located(g, p)
  BY <1>1, <1>3 DEF Located
<1>6. SeenOnly(f, p) => RefAt(g, p) = ref /\ ~ref.split /\ ref.places = {}
  BY <1>3, <1>4 DEF RefAt
<1>7. ~ref.split => JudgedIn(g, q, ref) = JudgedIn(f, q, ref)
  <2> HIDE DEF ref
  <2> QED BY <1>3, TokenAnywhere DEF JudgedIn
<1> HIDE DEF ref
<1>8. ref.places = {} => ~CorrectedIn(f, q, ref)
  BY DEF CorrectedIn
<1> QED BY <1>4, <1>5, <1>6, <1>7, <1>8 DEF g, ref

\* A number in parts is found again; it is valid if it was corrected, and judged alike if not.
LEMMA SplitAgain ==
  ASSUME NEW C, NEW f \in FileOver(C), NEW q, NEW p \in DOMAIN f.fields, f.fields[p].role = "initial", f.format = "x12"
  PROVE  LET g == Redone(f, q)
             ref == RefAt(f, p)
         IN  /\ Located(g, p) /\ Located(f, p) /\ RefAt(g, p) = ref
             /\ CorrectedIn(f, q, ref) => JudgedIn(g, q, ref).status = "valid"
             /\ ~CorrectedIn(f, q, ref) => JudgedIn(g, q, ref) = JudgedIn(f, q, ref)
<1> DEFINE g == Redone(f, q)
           ref == RefAt(f, p)
<1>1. p + 1 \in DOMAIN f.fields /\ f.fields[p + 1].role = "number" /\ p \in Nat
  BY FieldsAre
<1>2. ASSUME NEW r \in Seen(f), NEW s \in r.places PROVE f.fields[s].role \notin {"initial", "number"}
  <2>1. RoleOf(f.format) \ {"initial"} = {"eq"}
    BY DEF RoleOf
  <2> QED BY <2>1, PlacesAre
<1>3. ~Touched(f, q, p) /\ ~Touched(f, q, p + 1)
  BY <1>1, <1>2 DEF Touched
<1>4. /\ g.format = f.format /\ DOMAIN g.fields = DOMAIN f.fields
      /\ g.fields[p] = f.fields[p] /\ g.fields[p + 1] = f.fields[p + 1]
      /\ \A s \in DOMAIN f.fields : g.fields[s].role = f.fields[s].role
  BY <1>1, <1>3, RedoneIs
<1>5. /\ \A s \in DOMAIN f.fields : ~Touched(f, q, s) => g.fields[s] = f.fields[s]
      /\ \A s \in DOMAIN f.fields : Touched(f, q, s) =>
           \E r \in Seen(f) : CorrectedIn(f, q, r) /\ s \in r.places /\ g.fields[s].value = NewOf(f, q, r)
  BY RedoneIs
<1> HIDE DEF g
<1>6. CheckSlot(g, p) = CheckSlot(f, p)
  BY <1>4 DEF CheckSlot
<1>7. RefAt(g, p) = ref /\ ref.split /\ ref.places = CheckSlot(f, p)
  BY <1>4, <1>6 DEF RefAt
<1>8. Located(f, p) /\ Located(g, p)
  BY <1>4 DEF Located, RoleOf, Searched, Distinct
<1>9. ref \in Seen(f)
  BY <1>8 DEF Seen, Reached
<1> HIDE DEF ref
<1>10. JudgedIn(f, q, ref) = CorrectX12Equipment(ref.token, ref.number, Shown(f, ref), q.policy)
  BY <1>7 DEF JudgedIn
<1>11. JudgedIn(g, q, ref) = CorrectX12Equipment(ref.token, ref.number, Shown(g, ref), q.policy)
  BY <1>7 DEF JudgedIn
<1>12. ASSUME NEW s \in ref.places, NEW r \in Seen(f), s \in r.places PROVE r = ref
  <2>1. f.fields[s].role = "check" /\ ref = RefAt(f, s - 2)
    BY <1>7, <1>9, PlacesAre
  <2>2. RoleOf(f.format) = {"initial", "eq"}
    BY DEF RoleOf
  <2>3. r.split
    BY <1>12, <2>1, <2>2, PlacesAre
  <2>4. r = RefAt(f, s - 2)
    BY <1>12, <2>3, PlacesAre
  <2> QED BY <2>1, <2>4
<1>13. ref.places \subseteq DOMAIN f.fields /\ \A s, t \in ref.places : s = t
  BY <1>7 DEF CheckSlot
<1>14. CASE CorrectedIn(f, q, ref)
  <2> DEFINE s == CHOOSE s \in ref.places : TRUE
             d == JudgedIn(f, q, ref).computed
  <2>1. ref.places # {} /\ JudgedIn(f, q, ref).status = "corrected"
    BY <1>14 DEF CorrectedIn
  <2>2. s \in ref.places
    BY <2>1
  <2> HIDE DEF s
  <2>3. s \in DOMAIN f.fields /\ Touched(f, q, s)
    BY <1>9, <1>13, <1>14, <2>2 DEF Touched
  <2>4. PICK r \in Seen(f) : CorrectedIn(f, q, r) /\ s \in r.places /\ g.fields[s].value = NewOf(f, q, r)
    BY <1>5, <2>3
  <2>5. r = ref
    BY <1>12, <2>2, <2>4
  <2>6. g.fields[s].value = <<d>>
    BY <1>7, <2>4, <2>5 DEF NewOf
  <2>7. Shown(g, ref) = <<d>>
    BY <2>1, <2>6 DEF Shown, s
  <2>8. CorrectX12Equipment(ref.token, ref.number, Shown(f, ref), q.policy).status = "corrected"
    BY <1>10, <2>1
  <2>9. CorrectX12Equipment(ref.token, ref.number,
                            <<CorrectX12Equipment(ref.token, ref.number, Shown(f, ref), q.policy).computed>>, q.policy).status = "valid"
    BY <2>8, SplitIsValid
  <2>10. JudgedIn(g, q, ref).status = "valid"
    BY <1>10, <1>11, <2>7, <2>9
  <2> QED BY <1>7, <1>8, <1>14, <2>10 DEF g, ref
<1>15. CASE ~CorrectedIn(f, q, ref)
  <2>1. ASSUME NEW s \in ref.places PROVE g.fields[s] = f.fields[s]
    <3>1. ~Touched(f, q, s)
      BY <1>12, <1>15 DEF Touched
    <3> QED BY <1>5, <1>13, <3>1
  <2>2. Shown(g, ref) = Shown(f, ref)
    BY <2>1 DEF Shown
  <2> QED BY <1>7, <1>8, <1>10, <1>11, <1>15, <2>2 DEF g, ref
<1> QED BY <1>14, <1>15

\* A non-empty set of numbers has a smallest one.
LEMMA SmallestNat ==
  ASSUME NEW A \in SUBSET Nat, NEW n \in A
  PROVE  \E a \in A : \A b \in A : a <= b
<1> SUFFICES ASSUME \A a \in A : \E b \in A : ~(a <= b) PROVE FALSE
  OBVIOUS
<1> DEFINE S == {i \in 0 .. n : \A b \in A : i <= b}
<1>1. n \in Nat /\ \A a \in A : a \in Nat
  OBVIOUS
<1>2. 0 \in S
  BY <1>1
<1>3. ASSUME NEW i \in 0 .. n - 1, i \in S PROVE i + 1 \in S
  <2>1. i \notin A
    BY <1>3
  <2>2. ASSUME NEW b \in A PROVE i + 1 <= b
    <3>1. i <= b /\ b # i /\ b \in Nat
      BY <1>1, <1>3, <2>1
    <3> QED BY <3>1
  <2> QED BY <1>1, <2>2
<1>4. n \in S
  <2>1. 0 .. n \subseteq S
    <3> HIDE DEF S
    <3> QED BY <1>1, <1>2, <1>3, IntervalInduction
  <2> QED BY <1>1, <2>1
<1> QED BY <1>4

\* Whatever was rewritten outside of a number in parts is valid now.
LEMMA TouchedIsValid ==
  ASSUME NEW C, Letter \cup Digit \subseteq C, NEW f \in FileOver(C), NEW q, NEW p \in DOMAIN f.fields,
         f.fields[p].role \in RoleOf(f.format), Touched(f, q, p)
  PROVE  LET new == Redone(f, q).fields[p].value
         IN  new # <<>> /\ TokenJudged(f, q, new).status = "valid"
<1>1. PICK ref \in Seen(f) : CorrectedIn(f, q, ref) /\ p \in ref.places /\ Redone(f, q).fields[p].value = NewOf(f, q, ref)
  BY RedoneIs
<1>2. "check" \notin RoleOf(f.format)
  BY DEF RoleOf
<1>3. ~ref.split
  BY <1>1, <1>2, PlacesAre
<1> QED BY <1>1, <1>3, NewIsValid

\* A token that stands for itself: rewritten it is valid, otherwise all is as it was.
LEMMA SingleAgain ==
  ASSUME NEW C, Letter \cup Digit \subseteq C, NEW f \in FileOver(C), NEW q, NEW p \in DOMAIN f.fields,
         f.fields[p].role \in RoleOf(f.format) \ {"initial"}, ~Distinct(f.format)
  PROVE  LET g == Redone(f, q)
             ref == RefAt(f, p)
         IN  /\ Located(f, p) /\ Located(g, p)
             /\ Touched(f, q, p) => ValidIn(g, q, RefAt(g, p)) /\ CorrectedIn(f, q, ref)
             /\ ~Touched(f, q, p) => RefAt(g, p) = ref /\ ~CorrectedIn(f, q, ref) /\ JudgedIn(g, q, ref) = JudgedIn(f, q, ref)
<1> DEFINE g == Redone(f, q)
           ref == RefAt(f, p)
           after == RefAt(g, p)
<1>1. f.format # "xlsx" /\ ~Searched(f.format) /\ f.format # "snx"
  BY DEF Distinct, Searched
<1>2. g.format = f.format /\ g.fields[p].role = f.fields[p].role /\ DOMAIN g.fields = DOMAIN f.fields
  BY RedoneIs
<1>3. ~Touched(f, q, p) => g.fields[p] = f.fields[p]
  BY RedoneIs
<1>4. Touched(f, q, p) => g.fields[p].value # <<>> /\ TokenJudged(f, q, g.fields[p].value).status = "valid"
  BY TouchedIsValid
<1> HIDE DEF g
<1>5. Located(f, p) /\ Located(g, p)
  BY <1>1, <1>2 DEF Located, Distinct, Searched
<1>6. ~SeenOnly(f, p) /\ ~SeenOnly(g, p)
  BY <1>1, <1>2 DEF SeenOnly
<1>7. /\ ref = [at |-> p, token |-> f.fields[p].value, split |-> FALSE, number |-> <<>>, places |-> {p}]
      /\ after = [at |-> p, token |-> g.fields[p].value, split |-> FALSE, number |-> <<>>, places |-> {p}]
  BY <1>2, <1>6 DEF RefAt
<1>8. ref \in Seen(f)
  BY <1>5 DEF Seen, Reached
<1> HIDE DEF ref, after
<1>9. CASE Touched(f, q, p)
  <2>1. PICK r \in Seen(f) : CorrectedIn(f, q, r) /\ p \in r.places
    BY <1>9 DEF Touched
  <2>2. ~r.split
    BY <2>1, PlacesAre DEF RoleOf
  <2>3. r = ref
    BY <2>1, <2>2, PlacesAre DEF ref
  <2>4. JudgedIn(g, q, after).status = "valid"
    BY <1>2, <1>4, <1>7, <1>9, TokenAnywhere DEF JudgedIn
  <2>5. ~EmptyIn(g, after)
    BY <1>4, <1>7, <1>9 DEF EmptyIn
  <2> QED BY <1>5, <1>9, <2>1, <2>3, <2>4, <2>5 DEF ValidIn, g, ref, after
<1>10. CASE ~Touched(f, q, p)
  <2>1. after = ref
    BY <1>3, <1>7, <1>10
  <2>2. ~CorrectedIn(f, q, ref)
    <3>1. p \in ref.places
      BY <1>7
    <3> QED BY <1>8, <1>10, <3>1 DEF Touched
  <2>3. JudgedIn(g, q, ref) = JudgedIn(f, q, ref)
    BY <1>2, <1>7, TokenAnywhere DEF JudgedIn
  <2> QED BY <1>5, <1>10, <2>1, <2>2, <2>3 DEF g, ref, after
<1> QED BY <1>9, <1>10

\* Of a value that is taken once the first place speaks for all of them.
LEMMA FirstSpeaks ==
  ASSUME NEW C, NEW f \in FileOver(C), NEW p \in DOMAIN f.fields, Distinct(f.format),
         f.fields[p].role \in RoleOf(f.format), f.format = "snx" => f.fields[p].value # <<>>,
         Searched(f.format) => BicLike(f.fields[p].value)
  PROVE  \E ref \in Seen(f) : ~ref.split /\ ref.token = f.fields[p].value /\ ref.places = Alike(f, p)
<1> DEFINE A == Alike(f, p)
<1>1. A \subseteq Nat /\ p \in A
  BY FieldsAre DEF Alike
<1>2. PICK a \in A : \A b \in A : a <= b
  <2> HIDE DEF A
  <2> QED BY <1>1, SmallestNat
<1>3. a \in DOMAIN f.fields /\ f.fields[a].role \in RoleOf(f.format) /\ f.fields[a].value = f.fields[p].value
  BY <1>2 DEF Alike
<1>4. Alike(f, a) = A
  BY <1>3 DEF Alike
<1>5. Located(f, a)
  BY <1>2, <1>3, <1>4 DEF Located
<1>6. f.fields[a].role # "initial" /\ ~SeenOnly(f, a)
  BY <1>3 DEF Distinct, Searched, RoleOf, SeenOnly
<1>7. ~RefAt(f, a).split /\ RefAt(f, a).token = f.fields[p].value /\ RefAt(f, a).places = A
  BY <1>3, <1>4, <1>6 DEF RefAt
<1> QED BY <1>3, <1>5, <1>7 DEF Seen, Reached

\* A value that is neither valid nor corrected is left alone wherever it stands, and no
\* correction makes another one of it.
LEMMA AlikeStays ==
  ASSUME NEW C, Letter \cup Digit \subseteq C, NEW f \in FileOver(C), NEW q, NEW p \in DOMAIN f.fields, Distinct(f.format),
         f.fields[p].role \in RoleOf(f.format),
         TokenJudged(f, q, f.fields[p].value).status \notin {"valid", "corrected"}
  PROVE  LET g == Redone(f, q)
         IN  (Located(g, p) <=> Located(f, p)) /\ RefAt(g, p) = RefAt(f, p)
<1> DEFINE g == Redone(f, q)
           v == f.fields[p].value
           R == RoleOf(f.format)
<1>1. "check" \notin R /\ "initial" \notin R
  BY DEF RoleOf, Distinct, Searched
<1>2. /\ g.format = f.format /\ DOMAIN g.fields = DOMAIN f.fields
      /\ \A s \in DOMAIN f.fields : g.fields[s].role = f.fields[s].role
      /\ \A s \in DOMAIN f.fields : ~Touched(f, q, s) => g.fields[s] = f.fields[s]
  BY RedoneIs
<1>3. ASSUME NEW s \in DOMAIN f.fields, f.fields[s].role \in R, Touched(f, q, s)
      PROVE  g.fields[s].value # v
  <2>1. TokenJudged(f, q, g.fields[s].value).status = "valid"
    BY <1>3, TouchedIsValid
  <2> QED BY <2>1
<1> HIDE DEF g
<1>4. ASSUME NEW s \in DOMAIN f.fields, f.fields[s].role \in R, f.fields[s].value = v
      PROVE  g.fields[s] = f.fields[s]
  <2>1. ASSUME NEW r \in Seen(f), CorrectedIn(f, q, r), s \in r.places PROVE FALSE
    <3>1. ~r.split /\ r.token = v
      BY <1>1, <1>4, <2>1, PlacesAre
    <3>2. JudgedIn(f, q, r) = TokenJudged(f, q, v)
      BY <3>1 DEF JudgedIn
    <3> QED BY <2>1, <3>2 DEF CorrectedIn
  <2>2. ~Touched(f, q, s)
    BY <2>1 DEF Touched
  <2> QED BY <1>2, <2>2
<1>5. g.fields[p] = f.fields[p]
  BY <1>4
<1>6. ASSUME NEW s \in DOMAIN f.fields, f.fields[s].role \in R
      PROVE  g.fields[s].value = v <=> f.fields[s].value = v
  <2>1. CASE Touched(f, q, s)
    BY <1>3, <1>4, <1>6, <2>1
  <2>2. CASE ~Touched(f, q, s)
    BY <1>2, <2>2
  <2> QED BY <2>1, <2>2
<1>7. Alike(g, p) = Alike(f, p)
  <2>1. RoleOf(g.format) = R
    BY <1>2
  <2> HIDE DEF R
  <2> QED BY <1>2, <1>5, <1>6, <2>1 DEF Alike
<1> HIDE DEF R
<1>8. Located(g, p) <=> Located(f, p)
  BY <1>2, <1>5, <1>7 DEF Located
<1>9. SeenOnly(g, p) <=> SeenOnly(f, p)
  BY <1>2, <1>5 DEF SeenOnly
<1>10. f.fields[p].role # "initial"
  BY <1>1 DEF R
<1>11. RefAt(g, p) = RefAt(f, p)
  BY <1>2, <1>5, <1>7, <1>9, <1>10 DEF RefAt
<1> QED BY <1>8, <1>11 DEF g

\* A value that is taken once: it is valid when the file comes back, or all is as it was.
LEMMA CommonAgain ==
  ASSUME NEW C, Letter \cup Digit \subseteq C, NEW f \in FileOver(C), NEW q, NEW p \in DOMAIN f.fields,
         f.fields[p].role \in RoleOf(f.format), Distinct(f.format)
  PROVE  LET g == Redone(f, q)
             ref == RefAt(f, p)
             after == RefAt(g, p)
             Alone == /\ Located(f, p) /\ Located(g, p) /\ after = ref /\ ~CorrectedIn(f, q, ref)
                      /\ JudgedIn(g, q, ref) = JudgedIn(f, q, ref)
         IN  /\ Located(g, p) => ValidIn(g, q, after) \/ Alone
             /\ Located(f, p) => ValidIn(f, q, ref) \/ CorrectedIn(f, q, ref) \/ Alone
<1> DEFINE g == Redone(f, q)
           v == f.fields[p].value
           ref == RefAt(f, p)
           after == RefAt(g, p)
           Alone == /\ Located(f, p) /\ Located(g, p) /\ after = ref /\ ~CorrectedIn(f, q, ref)
                    /\ JudgedIn(g, q, ref) = JudgedIn(f, q, ref)
<1>1. f.fields[p].role \notin {"initial", "formula", "runs"} /\ f.format # "edifact"
  BY DEF RoleOf, Distinct, Searched
<1>2. /\ g.format = f.format /\ DOMAIN g.fields = DOMAIN f.fields
      /\ g.fields[p].role = f.fields[p].role
      /\ ~Touched(f, q, p) => g.fields[p] = f.fields[p]
  BY RedoneIs
<1>3. Touched(f, q, p) => TokenJudged(f, q, g.fields[p].value).status = "valid"
  BY TouchedIsValid
<1>4. TokenJudged(f, q, v).status \notin {"valid", "corrected"} =>
        (Located(g, p) <=> Located(f, p)) /\ after = ref
  BY AlikeStays
<1> HIDE DEF g
<1>5. /\ ~ref.split /\ ref.token = v /\ ref.places = Alike(f, p)
      /\ ~after.split /\ after.token = g.fields[p].value
  BY <1>1, <1>2 DEF RefAt, SeenOnly
<1>6. p \in ref.places
  BY <1>5 DEF Alike
<1> HIDE DEF ref, after
<1>7. /\ JudgedIn(f, q, ref) = TokenJudged(f, q, v)
      /\ JudgedIn(g, q, ref) = TokenJudged(f, q, v)
      /\ JudgedIn(g, q, after) = TokenJudged(f, q, g.fields[p].value)
  BY <1>2, <1>5, TokenAnywhere DEF JudgedIn
<1>8. ~EmptyIn(f, ref) /\ ~EmptyIn(g, after)
  BY <1>1, <1>2 DEF EmptyIn
<1>9. ASSUME Located(f, p) PROVE ValidIn(f, q, ref) \/ CorrectedIn(f, q, ref) \/ Alone
  <2>1. CASE TokenJudged(f, q, v).status = "valid"
    BY <1>7, <1>8, <2>1 DEF ValidIn
  <2>2. CASE TokenJudged(f, q, v).status = "corrected"
    BY <1>6, <1>7, <1>8, <2>2 DEF CorrectedIn
  <2>3. CASE TokenJudged(f, q, v).status \notin {"valid", "corrected"}
    <3>1. ~CorrectedIn(f, q, ref)
      BY <1>7, <2>3 DEF CorrectedIn
    <3>2. JudgedIn(g, q, ref) = JudgedIn(f, q, ref)
      BY <1>7
    <3> QED BY <1>4, <1>9, <2>3, <3>1, <3>2
  <2> QED BY <2>1, <2>2, <2>3
<1>10. ASSUME Located(g, p) PROVE ValidIn(g, q, after) \/ Alone
  <2>1. CASE Touched(f, q, p)
    BY <1>3, <1>7, <1>8, <2>1 DEF ValidIn
  <2>2. CASE ~Touched(f, q, p)
    <3>1. g.fields[p] = f.fields[p]
      BY <1>2, <2>2
    <3>2. TokenJudged(f, q, v).status # "corrected"
      <4>1. f.format = "snx" => v # <<>>
        BY <1>2, <1>10, <3>1 DEF Located
      <4>2. Searched(f.format) => BicLike(v)
        BY <1>2, <1>10, <3>1 DEF Located
      <4>3. PICK r \in Seen(f) : ~r.split /\ r.token = v /\ r.places = Alike(f, p)
        BY <4>1, <4>2, FirstSpeaks
      <4>4. p \in r.places
        BY <4>3 DEF Alike
      <4>5. ~EmptyIn(f, r) /\ JudgedIn(f, q, r) = TokenJudged(f, q, v)
        BY <1>1, <4>3 DEF EmptyIn, JudgedIn
      <4> HIDE DEF v
      <4>6. TokenJudged(f, q, v).status = "corrected" => CorrectedIn(f, q, r)
        BY <4>4, <4>5 DEF CorrectedIn
      <4> QED BY <2>2, <4>4, <4>6 DEF Touched
    <3>3. CASE TokenJudged(f, q, v).status = "valid"
      BY <1>7, <1>8, <3>1, <3>3 DEF ValidIn
    <3>4. CASE TokenJudged(f, q, v).status # "valid"
      <4>1. Located(f, p) /\ after = ref
        BY <1>4, <1>10, <3>2, <3>4
      <4>2. ~CorrectedIn(f, q, ref)
        BY <1>7, <3>2 DEF CorrectedIn
      <4> QED BY <1>7, <1>10, <4>1, <4>2
    <3> QED BY <3>3, <3>4
  <2> QED BY <2>1, <2>2
<1> QED BY <1>9, <1>10 DEF g, ref, after

\* The identifiers of a corrected file are valid, or they are those of the file before.
LEMMA SeenAgain ==
  ASSUME NEW C, Letter \cup Digit \subseteq C, NEW f \in FileOver(C), NEW q, NEW ref \in Seen(Redone(f, q))
  PROVE  LET g == Redone(f, q)
         IN  \/ ValidIn(g, q, ref)
             \/ ref \in Seen(f) /\ ~CorrectedIn(f, q, ref) /\ JudgedIn(g, q, ref) = JudgedIn(f, q, ref)
<1> DEFINE g == Redone(f, q)
<1>1. /\ g.format = f.format /\ DOMAIN g.fields = DOMAIN f.fields
      /\ \A p \in DOMAIN f.fields : g.fields[p].role = f.fields[p].role
  BY RedoneIs
<1>2. PICK p \in DOMAIN f.fields : Reached(g, p) /\ ref = RefAt(g, p)
  BY <1>1 DEF Seen
<1>3. Located(f, p) \/ SeenOnly(f, p) => RefAt(f, p) \in Seen(f)
  BY DEF Seen, Reached
<1> HIDE DEF g
<1>4. CASE SeenOnly(g, p)
  <2>1. f.fields[p].role \in {"formula", "runs"}
    BY <1>1, <1>4 DEF SeenOnly
  <2> QED BY <1>2, <1>3, <1>4, <2>1, SeenOnlyStays DEF g
<1>5. CASE Located(g, p)
  <2>1. f.fields[p].role \in RoleOf(f.format)
    BY <1>1, <1>5 DEF Located
  <2>2. CASE f.fields[p].role = "initial"
    <3>1. f.format = "x12"
      BY <2>1, <2>2 DEF RoleOf
    <3>2. /\ Located(f, p) /\ RefAt(g, p) = RefAt(f, p)
          /\ CorrectedIn(f, q, RefAt(f, p)) => JudgedIn(g, q, RefAt(f, p)).status = "valid"
          /\ ~CorrectedIn(f, q, RefAt(f, p)) => JudgedIn(g, q, RefAt(f, p)) = JudgedIn(f, q, RefAt(f, p))
      BY <2>2, <3>1, SplitAgain DEF g
    <3>3. ~EmptyIn(g, ref)
      BY <1>1, <3>1 DEF EmptyIn
    <3> QED BY <1>2, <1>3, <3>2, <3>3 DEF ValidIn, g
  <2>3. CASE f.fields[p].role # "initial" /\ ~Distinct(f.format)
    BY <1>2, <1>3, <2>1, <2>3, SingleAgain DEF g
  <2>4. CASE Distinct(f.format)
    BY <1>2, <1>3, <1>5, <2>1, <2>4, CommonAgain DEF g
  <2> QED BY <2>2, <2>3, <2>4
<1> QED BY <1>2, <1>4, <1>5 DEF Reached

\* An identifier that was neither valid nor corrected is found again.
LEMMA SeenBefore ==
  ASSUME NEW C, Letter \cup Digit \subseteq C, NEW f \in FileOver(C), NEW q, NEW ref \in Seen(f)
  PROVE  LET g == Redone(f, q)
         IN  \/ ValidIn(f, q, ref) \/ CorrectedIn(f, q, ref)
             \/ ref \in Seen(g) /\ JudgedIn(g, q, ref) = JudgedIn(f, q, ref)
<1> DEFINE g == Redone(f, q)
<1>1. /\ g.format = f.format /\ DOMAIN g.fields = DOMAIN f.fields
      /\ \A p \in DOMAIN f.fields : g.fields[p].role = f.fields[p].role
  BY RedoneIs
<1>2. PICK p \in DOMAIN f.fields : Reached(f, p) /\ ref = RefAt(f, p)
  BY DEF Seen
<1>3. Located(g, p) \/ SeenOnly(g, p) => RefAt(g, p) \in Seen(g)
  BY <1>1 DEF Seen, Reached
<1> HIDE DEF g
<1>4. CASE SeenOnly(f, p)
  <2>1. f.fields[p].role \in {"formula", "runs"}
    BY <1>4 DEF SeenOnly
  <2> QED BY <1>2, <1>3, <1>4, <2>1, SeenOnlyStays DEF g
<1>5. CASE Located(f, p)
  <2>1. f.fields[p].role \in RoleOf(f.format)
    BY <1>5 DEF Located
  <2>2. CASE f.fields[p].role = "initial"
    <3>1. f.format = "x12"
      BY <2>1, <2>2 DEF RoleOf
    <3>2. /\ Located(g, p) /\ RefAt(g, p) = RefAt(f, p)
          /\ ~CorrectedIn(f, q, RefAt(f, p)) => JudgedIn(g, q, RefAt(f, p)) = JudgedIn(f, q, RefAt(f, p))
      BY <2>2, <3>1, SplitAgain DEF g
    <3> QED BY <1>2, <1>3, <3>2 DEF g
  <2>3. CASE f.fields[p].role # "initial" /\ ~Distinct(f.format)
    BY <1>2, <1>3, <2>1, <2>3, SingleAgain DEF g
  <2>4. CASE Distinct(f.format)
    BY <1>2, <1>3, <1>5, <2>1, <2>4, CommonAgain DEF g
  <2> QED BY <2>2, <2>3, <2>4
<1> QED BY <1>2, <1>4, <1>5 DEF Reached

(* ---- what is reported of a file ---- *)

SaidOf(f, q, ref) ==
  [ref |-> ref, norm |-> JudgedIn(f, q, ref).norm, printed |-> JudgedIn(f, q, ref).printed,
   computed |-> JudgedIn(f, q, ref).computed]

\* The references of S were judged, and no others.
ReportOf(f, q, S, r) ==
  /\ r.corrected = {SaidOf(f, q, ref) : ref \in {ref \in S : CorrectedIn(f, q, ref)}}
  /\ r.flagged = {SaidOf(f, q, ref) : ref \in {ref \in S : FlaggedIn(f, q, ref)}}
  /\ r.invalid = Cardinality({ref \in S : InvalidIn(f, q, ref)})
  /\ r.empty = Cardinality({ref \in S : EmptyIn(f, ref)})

\* The second report names nothing to correct and repeats the first in all else.
LEMMA SecondReport ==
  ASSUME NEW C, Letter \cup Digit \subseteq C, NEW f \in FileOver(C), NEW q, NEW r, NEW r2,
         ReportOf(f, q, Seen(f), r), ReportOf(Redone(f, q), q, Seen(Redone(f, q)), r2)
  PROVE  /\ r2.corrected = {} /\ EditsIn(Redone(f, q), q, Seen(Redone(f, q))) = {}
         /\ r2.flagged = r.flagged /\ r2.invalid = r.invalid /\ r2.empty = r.empty
<1> DEFINE g == Redone(f, q)
<1>1. g.format = f.format
  BY RedoneIs
<1>2. ASSUME NEW ref \in Seen(g)
      PROVE  \/ ValidIn(g, q, ref)
             \/ ref \in Seen(f) /\ ~CorrectedIn(f, q, ref) /\ JudgedIn(g, q, ref) = JudgedIn(f, q, ref)
  BY SeenAgain
<1>3. ASSUME NEW ref \in Seen(f)
      PROVE  \/ ValidIn(f, q, ref) \/ CorrectedIn(f, q, ref)
             \/ ref \in Seen(g) /\ JudgedIn(g, q, ref) = JudgedIn(f, q, ref)
  BY SeenBefore
<1> HIDE DEF g
<1>4. ASSUME NEW ref PROVE EmptyIn(g, ref) <=> EmptyIn(f, ref)
  BY <1>1 DEF EmptyIn
<1>5. ASSUME NEW ref, JudgedIn(g, q, ref) = JudgedIn(f, q, ref)
      PROVE  /\ CorrectedIn(g, q, ref) <=> CorrectedIn(f, q, ref)
             /\ FlaggedIn(g, q, ref) <=> FlaggedIn(f, q, ref)
             /\ InvalidIn(g, q, ref) <=> InvalidIn(f, q, ref)
             /\ SaidOf(g, q, ref) = SaidOf(f, q, ref)
  BY <1>4, <1>5 DEF CorrectedIn, FlaggedIn, InvalidIn, SaidOf
<1>6. ASSUME NEW h, NEW ref
      PROVE  /\ ValidIn(h, q, ref) => ~CorrectedIn(h, q, ref) /\ ~FlaggedIn(h, q, ref) /\ ~InvalidIn(h, q, ref) /\ ~EmptyIn(h, ref)
             /\ CorrectedIn(h, q, ref) => ~FlaggedIn(h, q, ref) /\ ~InvalidIn(h, q, ref) /\ ~EmptyIn(h, ref)
  BY DEF ValidIn, CorrectedIn, FlaggedIn, InvalidIn
<1>7. {ref \in Seen(g) : CorrectedIn(g, q, ref)} = {}
  BY <1>2, <1>5, <1>6
<1>8. /\ {ref \in Seen(g) : FlaggedIn(g, q, ref)} = {ref \in Seen(f) : FlaggedIn(f, q, ref)}
      /\ \A ref \in {ref \in Seen(f) : FlaggedIn(f, q, ref)} : SaidOf(g, q, ref) = SaidOf(f, q, ref)
  BY <1>2, <1>3, <1>5, <1>6
<1>9. {ref \in Seen(g) : InvalidIn(g, q, ref)} = {ref \in Seen(f) : InvalidIn(f, q, ref)}
  BY <1>2, <1>3, <1>5, <1>6
<1>10. {ref \in Seen(g) : EmptyIn(g, ref)} = {ref \in Seen(f) : EmptyIn(f, ref)}
  BY <1>2, <1>3, <1>4, <1>6
<1>11. r2.corrected = {} /\ EditsIn(g, q, Seen(g)) = {}
  BY <1>7 DEF ReportOf, EditsIn, g
<1>12. r2.flagged = r.flagged
  <2>1. r2.flagged = {SaidOf(g, q, ref) : ref \in {ref \in Seen(f) : FlaggedIn(f, q, ref)}}
    BY <1>8 DEF ReportOf, g
  <2>2. r.flagged = {SaidOf(f, q, ref) : ref \in {ref \in Seen(f) : FlaggedIn(f, q, ref)}}
    BY DEF ReportOf
  <2> QED BY <1>8, <2>1, <2>2
<1>13. r2.invalid = r.invalid /\ r2.empty = r.empty
  BY <1>9, <1>10 DEF ReportOf, g
<1> QED BY <1>11, <1>12, <1>13 DEF g

(* ---- every identifier is judged once ---- *)

\* What is selected from a sequence that repeats nothing repeats nothing.
LEMMA OnlyOnce ==
  ASSUME NEW T, NEW t \in Seq(T), NEW S, IsInjective(t)
  PROVE  IsInjective(Only(t, S))
<1> DEFINE N == Len(t)
           K == Selecting(t, S)
           D == {i \in 0 .. N : /\ K[i] \in Seq(T)
                                /\ \A a, b \in DOMAIN K[i] : K[i][a] = K[i][b] => a = b
                                /\ \A k \in DOMAIN K[i] : \E p \in 1 .. i : K[i][k] = t[p]}
<1>1. N \in Nat /\ DOMAIN t = 1 .. N /\ t \in [1 .. N -> T]
  BY LenProperties
<1>2. K[0] = <<>> /\ \A i \in 1 .. N : K[i] = IF t[i] \in S THEN Append(K[i - 1], t[i]) ELSE K[i - 1]
  BY <1>1, SelectingIs
<1>3. \A a, b \in 1 .. N : t[a] = t[b] => a = b
  BY <1>1 DEF IsInjective
<1> HIDE DEF N, K
<1>4. 0 \in D
  <2>1. K[0] \in Seq(T) /\ DOMAIN K[0] = {}
    BY <1>2, EmptySeq
  <2> QED BY <1>1, <2>1
<1>5. ASSUME NEW i \in 0 .. N - 1, i \in D PROVE i + 1 \in D
  <2>1. i + 1 \in 1 .. N /\ i + 1 - 1 = i /\ i + 1 \in 0 .. N /\ \A p \in 1 .. i : p \in 1 .. N /\ p # i + 1
    BY <1>1
  <2> DEFINE x == t[i + 1]
             s == K[i]
             a == Append(s, x)
  <2>2. K[i + 1] = IF x \in S THEN a ELSE s
    BY <1>2, <2>1
  <2>3. s \in Seq(T) /\ x \in T
    BY <1>1, <1>5, <2>1
  <2>4. \A k, m \in DOMAIN s : s[k] = s[m] => k = m
    BY <1>5
  <2>5. \A k \in DOMAIN s : \E p \in 1 .. i : s[k] = t[p]
    BY <1>5
  <2>6. \A p \in 1 .. i : p \in 1 .. i + 1
    BY <2>1
  <2>7. i + 1 \in 1 .. i + 1
    BY <2>1
  <2>8. /\ a \in Seq(T) /\ Len(a) = Len(s) + 1
        /\ \A k \in 1 .. Len(s) : a[k] = s[k]
        /\ a[Len(s) + 1] = x
    BY <2>3, AppendProperties
  <2>9. DOMAIN a = 1 .. Len(s) + 1 /\ DOMAIN s = 1 .. Len(s) /\ Len(s) \in Nat
    BY <2>3, <2>8, LenProperties
  <2> HIDE DEF a
  <2>10. \A k \in DOMAIN a : k \in DOMAIN s \/ k = Len(s) + 1
    BY <2>9
  <2>11. \A k \in DOMAIN s : a[k] = s[k] /\ a[k] # x
    <3>1. ASSUME NEW k \in DOMAIN s PROVE s[k] # x
      BY <1>3, <2>1, <2>5
    <3> QED BY <2>8, <2>9, <3>1
  <2>12. \A k, m \in DOMAIN a : a[k] = a[m] => k = m
    BY <2>4, <2>8, <2>10, <2>11
  <2>13. \A k \in DOMAIN a : \E p \in 1 .. i + 1 : a[k] = t[p]
    BY <2>5, <2>6, <2>7, <2>8, <2>10, <2>11
  <2>14. \A k \in DOMAIN s : \E p \in 1 .. i + 1 : s[k] = t[p]
    BY <2>5, <2>6
  <2> HIDE DEF s, x
  <2>15. CASE x \in S
    <3>1. K[i + 1] = a BY <2>2, <2>15
    <3> QED BY <2>1, <2>8, <2>12, <2>13, <3>1
  <2>16. CASE x \notin S
    <3>1. K[i + 1] = s BY <2>2, <2>16
    <3> QED BY <2>1, <2>3, <2>4, <2>14, <3>1
  <2> QED BY <2>15, <2>16
<1>6. 0 .. N \subseteq D
  <2> HIDE DEF D
  <2> QED BY <1>1, <1>4, <1>5, IntervalInduction
<1>7. N \in D
  BY <1>1, <1>6
<1>8. Only(t, S) = K[N]
  BY DEF Only, K, N
<1> QED BY <1>7, <1>8 DEF IsInjective

\* One sequence holds what two others hold.
Holds(u, s, t) == Range(u) = Range(s) \cup Range(t)

\* Two sequences that repeat nothing and share nothing, one behind the other.
LEMMA JoinedOnce ==
  ASSUME NEW P, NEW Q, P \cap Q = {}, NEW s \in Seq(P), NEW t \in Seq(Q), IsInjective(s), IsInjective(t),
         NEW u, u = s \o t
  PROVE  /\ u \in Seq(P \cup Q) /\ IsInjective(u)
         /\ Holds(u, s, t)
<1> DEFINE M == Len(s)
           N == Len(t)
<1>1. s \in Seq(P \cup Q) /\ t \in Seq(P \cup Q)
  BY SeqMonotonic
<1>2. /\ u \in Seq(P \cup Q) /\ Len(u) = M + N
      /\ \A i \in 1 .. M + N : u[i] = IF i <= M THEN s[i] ELSE t[i - M]
  BY <1>1, ConcatProperties
<1>3. /\ M \in Nat /\ N \in Nat /\ DOMAIN s = 1 .. M /\ DOMAIN t = 1 .. N /\ DOMAIN u = 1 .. M + N
      /\ (\A i \in 1 .. M : s[i] \in P) /\ (\A i \in 1 .. N : t[i] \in Q)
  <2>1. M \in Nat /\ DOMAIN s = 1 .. M /\ \A i \in 1 .. M : s[i] \in P
    BY LenProperties
  <2>2. N \in Nat /\ DOMAIN t = 1 .. N /\ \A i \in 1 .. N : t[i] \in Q
    BY LenProperties
  <2>3. DOMAIN u = 1 .. M + N
    BY <1>2, LenProperties
  <2> QED BY <2>1, <2>2, <2>3
<1> HIDE DEF M, N
<1>4. \A i \in DOMAIN u : (i \in 1 .. M /\ u[i] = s[i]) \/ (i - M \in 1 .. N /\ i > M /\ u[i] = t[i - M])
  BY <1>2, <1>3
<1>5. \A i, j \in 1 .. M : s[i] = s[j] => i = j
  BY <1>3 DEF IsInjective
<1>6. \A i, j \in 1 .. N : t[i] = t[j] => i = j
  BY <1>3 DEF IsInjective
<1>7. ASSUME NEW i \in DOMAIN u, NEW j \in DOMAIN u, u[i] = u[j] PROVE i = j
  <2>1. CASE i \in 1 .. M /\ u[i] = s[i] /\ j \in 1 .. M /\ u[j] = s[j]
    BY <1>5, <1>7, <2>1
  <2>2. CASE i - M \in 1 .. N /\ u[i] = t[i - M] /\ j - M \in 1 .. N /\ u[j] = t[j - M]
    <3>1. i - M = j - M BY <1>6, <1>7, <2>2
    <3>2. i \in Int /\ j \in Int BY <1>3
    <3> QED BY <1>3, <3>1, <3>2
  <2>3. CASE i \in 1 .. M /\ u[i] = s[i] /\ j - M \in 1 .. N /\ u[j] = t[j - M]
    <3>1. s[i] \in P /\ t[j - M] \in Q
      BY <1>3, <2>3
    <3> QED BY <1>7, <2>3, <3>1
  <2>4. CASE j \in 1 .. M /\ u[j] = s[j] /\ i - M \in 1 .. N /\ u[i] = t[i - M]
    <3>1. s[j] \in P /\ t[i - M] \in Q
      BY <1>3, <2>4
    <3> QED BY <1>7, <2>4, <3>1
  <2> QED BY <1>4, <2>1, <2>2, <2>3, <2>4
<1>8. ASSUME NEW k \in DOMAIN s PROVE k \in DOMAIN u /\ u[k] = s[k]
  BY <1>2, <1>3
<1>9. ASSUME NEW k \in DOMAIN t PROVE k + M \in DOMAIN u /\ u[k + M] = t[k]
  <2>1. k + M \in 1 .. M + N /\ ~(k + M <= M) /\ k + M - M = k
    BY <1>3
  <2> QED BY <1>2, <1>3, <2>1
<1>10. Range(u) = Range(s) \cup Range(t)
  <2>1. ASSUME NEW i \in DOMAIN u PROVE u[i] \in Range(s) \cup Range(t)
    BY <1>3, <1>4 DEF Range
  <2>2. ASSUME NEW k \in DOMAIN s PROVE s[k] \in Range(u)
    BY <1>8, Zenon DEF Range
  <2>3. ASSUME NEW k \in DOMAIN t PROVE t[k] \in Range(u)
    BY <1>9, Zenon DEF Range
  <2>4. Range(s) \subseteq Range(u) /\ Range(t) \subseteq Range(u)
    BY <2>2, <2>3, Zenon DEF Range
  <2>5. Range(u) \subseteq Range(s) \cup Range(t)
    BY <2>1, Zenon DEF Range
  <2> QED BY <2>4, <2>5
<1> QED BY <1>2, <1>7, <1>10 DEF IsInjective, Holds

\* Locating finds every identifier of a file, each once.
LEMMA LocateIs ==
  ASSUME NEW C, NEW f \in FileOver(C)
  PROVE  /\ Locate(f) \in Seq(Seen(f)) /\ IsInjective(Locate(f)) /\ Range(Locate(f)) = Seen(f)
         /\ Len(Locate(f)) \in Nat /\ IsFiniteSet(Seen(f))
         /\ Cardinality({ref.token : ref \in Seen(f)}) <= Len(Locate(f))
<1> DEFINE places == [p \in DOMAIN f.fields |-> p]
           P == {p \in DOMAIN f.fields : Located(f, p)}
           Q == {p \in DOMAIN f.fields : SeenOnly(f, p)}
           found == Only(places, P) \o Only(places, Q)
           D == DOMAIN f.fields
<1>1. places \in Seq(D) /\ DOMAIN places = D /\ (\A p \in D : places[p] = p) /\ IsInjective(places)
  <2>1. f.fields \in Seq(FieldOver(C))
    BY DEF FileOver
  <2>2. DOMAIN f.fields = 1 .. Len(f.fields) /\ Len(f.fields) \in Nat
    BY <2>1, LenProperties
  <2>3. ASSUME NEW n \in Nat PROVE [p \in 1 .. n |-> p] \in Seq(1 .. n)
    OBVIOUS
  <2> QED BY <2>2, <2>3 DEF IsInjective
<1>2. P \subseteq D /\ Q \subseteq D /\ P \cap Q = {}
  BY DEF Located, SeenOnly, RoleOf
<1>3. {RefAt(f, p) : p \in P \cup Q} = Seen(f)
  BY DEF Seen, Reached
<1>4. \A p \in D : RefAt(f, p).at = p
  BY DEF RefAt
<1>5. Locate(f) = [i \in DOMAIN found |-> RefAt(f, found[i])]
  BY DEF Locate
<1> HIDE DEF places, P, Q, D
<1>6. ASSUME NEW S, S \subseteq D
      PROVE  Only(places, S) \in Seq(S) /\ IsInjective(Only(places, S))
             /\ \A p \in S : \E k \in DOMAIN Only(places, S) : Only(places, S)[k] = p
  <2>1. D \cap S = S
    BY <1>6
  <2>2. /\ Only(places, S) \in Seq(D \cap S)
        /\ \A p \in DOMAIN places : places[p] \in S => \E k \in DOMAIN Only(places, S) : Only(places, S)[k] = places[p]
        /\ \A k \in DOMAIN Only(places, S) : \E p \in DOMAIN places : Only(places, S)[k] = places[p] /\ places[p] \in S
    <3>1. places \in Seq(D)
      BY <1>1
    <3> QED BY <3>1, OnlyIs, Zenon
  <2>3. IsInjective(Only(places, S))
    BY <1>1, OnlyOnce
  <2> QED BY <1>1, <1>6, <2>1, <2>2, <2>3
<1>7. found \in Seq(P \cup Q) /\ IsInjective(found) /\ \A p \in P \cup Q : \E m \in DOMAIN found : found[m] = p
  <2> DEFINE s == Only(places, P)
             t == Only(places, Q)
  <2>1. s \in Seq(P) /\ t \in Seq(Q) /\ IsInjective(s) /\ IsInjective(t)
        /\ (\A p \in P : \E k \in DOMAIN s : s[k] = p) /\ (\A p \in Q : \E k \in DOMAIN t : t[k] = p)
    BY <1>2, <1>6
  <2>2. found = s \o t
    OBVIOUS
  <2> HIDE DEF s, t, found
  <2>3. /\ found \in Seq(P \cup Q) /\ IsInjective(found)
        /\ Range(found) = Range(s) \cup Range(t)
    <3>1. P \cap Q = {} /\ s \in Seq(P) /\ t \in Seq(Q) /\ IsInjective(s) /\ IsInjective(t) /\ found = s \o t
      BY <1>2, <2>1, <2>2
    <3>2. found \in Seq(P \cup Q)
      BY <3>1, JoinedOnce
    <3>3. IsInjective(found)
      BY <3>1, JoinedOnce
    <3>4. Holds(found, s, t)
      BY <3>1, JoinedOnce
    <3> QED BY <3>2, <3>3, <3>4 DEF Holds
  <2>4. ASSUME NEW p \in P \cup Q PROVE \E m \in DOMAIN found : found[m] = p
    <3>1. p \in Range(s) \cup Range(t)
      BY <2>1 DEF Range
    <3> QED BY <2>3, <3>1 DEF Range
  <2> QED BY <2>3, <2>4
<1> HIDE DEF found
<1> DEFINE N == Len(found)
           L == Locate(f)
<1>8. N \in Nat /\ DOMAIN found = 1 .. N /\ \A i \in 1 .. N : found[i] \in P \cup Q
  BY <1>7, LenProperties, ElementOfSeq
<1> HIDE DEF N
<1>9. /\ L = [i \in 1 .. N |-> RefAt(f, found[i])] /\ DOMAIN L = 1 .. N
      /\ \A i \in 1 .. N : L[i] = RefAt(f, found[i]) /\ L[i] \in Seen(f)
  BY <1>3, <1>5, <1>8
<1> HIDE DEF L
<1>10. L \in Seq(Seen(f)) /\ Len(L) = N
  <2>1. ASSUME NEW n \in Nat, NEW U, NEW g \in [1 .. n -> U] PROVE g \in Seq(U) /\ Len(g) = n
    OBVIOUS
  <2>2. L \in [1 .. N -> Seen(f)]
    BY <1>9
  <2> QED BY <1>8, <2>1, <2>2
<1>11. IsInjective(L)
  <2>1. ASSUME NEW i \in 1 .. N, NEW j \in 1 .. N, L[i] = L[j] PROVE i = j
    <3>1. found[i] \in D /\ found[j] \in D
      BY <1>2, <1>8
    <3>2. found[i] = found[j]
      BY <1>4, <1>9, <2>1, <3>1
    <3> QED BY <1>7, <1>8, <3>2 DEF IsInjective
  <2> QED BY <1>9, <2>1 DEF IsInjective
<1>12. Range(L) = Seen(f)
  <2>1. ASSUME NEW ref \in Seen(f) PROVE \E i \in 1 .. N : L[i] = ref
    BY <1>3, <1>7, <1>8, <1>9
  <2> QED BY <1>9, <2>1 DEF Range
<1>13. IsFiniteSet(Seen(f))
  <2>1. IsFiniteSet(1 .. N) /\ L \in Surjection(1 .. N, Seen(f))
    BY <1>8, <1>9, <1>12, FS_Interval DEF Surjection, Range
  <2> QED BY <2>1, FS_Surjection
<1>14. Cardinality({ref.token : ref \in Seen(f)}) <= N
  <2> DEFINE tokens == {ref.token : ref \in Seen(f)}
             h == [i \in 1 .. N |-> L[i].token]
  <2>1. IsFiniteSet(1 .. N) /\ Cardinality(1 .. N) = N
    BY <1>8, FS_Interval
  <2>2. h \in Surjection(1 .. N, tokens)
    <3>1. \A i \in 1 .. N : h[i] \in tokens
      BY <1>9
    <3>2. ASSUME NEW x \in tokens PROVE \E i \in 1 .. N : h[i] = x
      <4>1. PICK ref \in Seen(f) : x = ref.token
        OBVIOUS
      <4>2. PICK i \in 1 .. N : L[i] = ref
        BY <1>9, <1>12 DEF Range
      <4> QED BY <4>1, <4>2
    <3> QED BY <3>1, <3>2 DEF Surjection
  <2> HIDE DEF h, tokens
  <2>3. Cardinality(tokens) <= Cardinality(1 .. N)
    BY <2>1, <2>2, FS_Surjection
  <2> QED BY <2>1, <2>3 DEF tokens
<1> QED BY <1>8, <1>10, <1>11, <1>12, <1>13, <1>14 DEF L

\* The first of a sequence that repeats nothing, and the rest.
LEMMA HeadOff ==
  ASSUME NEW T, NEW s \in Seq(T), s # <<>>, IsInjective(s)
  PROVE  /\ Head(s) \in T /\ Tail(s) \in Seq(T) /\ IsInjective(Tail(s))
         /\ Len(s) \in Nat /\ Len(Tail(s)) \in Nat /\ Len(s) = Len(Tail(s)) + 1
         /\ Head(s) \notin T \ Range(s) /\ T \ Range(Tail(s)) = (T \ Range(s)) \cup {Head(s)}
<1> DEFINE t == Tail(s)
           N == Len(t)
<1>1. /\ Head(s) \in T /\ t \in Seq(T) /\ N = Len(s) - 1 /\ \A i \in 1 .. N : t[i] = s[i + 1]
  BY HeadTailProperties
<1>2. /\ N \in Nat /\ Len(s) \in Nat /\ DOMAIN t = 1 .. N /\ DOMAIN s = 1 .. Len(s)
      /\ Len(s) = N + 1
  BY <1>1, LenProperties
<1>3. Head(s) = s[1]
  OBVIOUS
<1> HIDE DEF t, N
<1>4. 1 \in DOMAIN s /\ \A i \in 1 .. N : i + 1 \in DOMAIN s /\ i + 1 # 1
  BY <1>2
<1>5. \A i \in DOMAIN s : i = 1 \/ (i - 1 \in 1 .. N /\ i - 1 + 1 = i)
  BY <1>2
<1>6. IsInjective(t)
  <2>1. ASSUME NEW i \in 1 .. N, NEW j \in 1 .. N, t[i] = t[j] PROVE i = j
    <3>1. s[i + 1] = s[j + 1] /\ i + 1 \in DOMAIN s /\ j + 1 \in DOMAIN s
      BY <1>1, <1>4, <2>1
    <3>2. i + 1 = j + 1
      BY <3>1, Zenon DEF IsInjective
    <3> QED BY <1>2, <3>2
  <2> QED BY <1>2, <2>1 DEF IsInjective
<1>7. \A i \in 1 .. N : t[i] \in Range(s) /\ t[i] # s[1]
  BY <1>1, <1>4 DEF IsInjective, Range
<1>8. Range(s) = Range(t) \cup {s[1]} /\ s[1] \notin Range(t)
  <2>1. ASSUME NEW i \in DOMAIN s PROVE s[i] \in Range(t) \cup {s[1]}
    <3>1. CASE i = 1
      BY <3>1
    <3>2. CASE i - 1 \in 1 .. N /\ i - 1 + 1 = i
      <4>1. t[i - 1] = s[i]
        BY <1>1, <3>2
      <4> QED BY <1>2, <3>2, <4>1 DEF Range
    <3> QED BY <1>5, <3>1, <3>2
  <2>2. Range(s) \subseteq Range(t) \cup {s[1]}
    BY <2>1, Zenon DEF Range
  <2>3. Range(t) \subseteq Range(s) /\ s[1] \notin Range(t)
    BY <1>2, <1>7 DEF Range
  <2>4. s[1] \in Range(s)
    BY <1>4, Zenon DEF Range
  <2> QED BY <2>2, <2>3, <2>4
<1>9. Head(s) \notin T \ Range(s) /\ T \ Range(t) = (T \ Range(s)) \cup {Head(s)}
  BY <1>1, <1>3, <1>8
<1> QED BY <1>1, <1>2, <1>6, <1>9 DEF t, N

\* A verdict has one status.
LEMMA OneClass ==
  ASSUME NEW f, NEW q, NEW ref
  PROVE  /\ ValidIn(f, q, ref) => /\ ~CorrectedIn(f, q, ref) /\ ~FlaggedIn(f, q, ref)
                                  /\ ~InvalidIn(f, q, ref) /\ ~EmptyIn(f, ref)
         /\ CorrectedIn(f, q, ref) => ~FlaggedIn(f, q, ref) /\ ~InvalidIn(f, q, ref) /\ ~EmptyIn(f, ref)
         /\ FlaggedIn(f, q, ref) => ~InvalidIn(f, q, ref) /\ ~EmptyIn(f, ref)
         /\ InvalidIn(f, q, ref) => ~EmptyIn(f, ref)
BY DEF ValidIn, CorrectedIn, FlaggedIn, InvalidIn

\* One report says of one reference what another does not say yet.
Grown(f, q, ref, r, r2) ==
  /\ r2.valid = IF ValidIn(f, q, ref) THEN r.valid + 1 ELSE r.valid
  /\ r2.corrected = r.corrected \cup (IF CorrectedIn(f, q, ref) THEN {SaidOf(f, q, ref)} ELSE {})
  /\ r2.flagged = r.flagged \cup (IF FlaggedIn(f, q, ref) THEN {SaidOf(f, q, ref)} ELSE {})
  /\ r2.invalid = IF InvalidIn(f, q, ref) THEN r.invalid + 1 ELSE r.invalid
  /\ r2.empty = IF EmptyIn(f, ref) THEN r.empty + 1 ELSE r.empty

\* What is reported of the references judged so far and of one more.
LEMMA ReportGrows ==
  ASSUME NEW f, NEW q, NEW S, IsFiniteSet(S), NEW ref, ref \notin S, NEW r, NEW r2, ReportOf(f, q, S, r),
         Grown(f, q, ref, r, r2)
  PROVE  /\ ReportOf(f, q, S \cup {ref}, r2)
         /\ SaidOf(f, q, ref) \notin r.corrected /\ SaidOf(f, q, ref) \notin r.flagged
         /\ r.invalid \in Nat /\ r.empty \in Nat
<1>1. \A x : SaidOf(f, q, x).ref = x
  BY DEF SaidOf
<1>2. ASSUME NEW U, U \subseteq S
      PROVE  IsFiniteSet(U) /\ Cardinality(U) \in Nat /\ Cardinality(U \cup {ref}) = Cardinality(U) + 1
  BY <1>2, FS_Subset, FS_CardinalityType, FS_AddElement
<1>3. r2.invalid = Cardinality({x \in S \cup {ref} : InvalidIn(f, q, x)}) /\ r.invalid \in Nat
  <2> DEFINE U == {x \in S : InvalidIn(f, q, x)}
  <2>1. {x \in S \cup {ref} : InvalidIn(f, q, x)} = U \cup (IF InvalidIn(f, q, ref) THEN {ref} ELSE {})
    OBVIOUS
  <2>2. U \subseteq S /\ r.invalid = Cardinality(U)
    BY DEF ReportOf
  <2> HIDE DEF U
  <2>3. InvalidIn(f, q, ref) \/ U \cup (IF InvalidIn(f, q, ref) THEN {ref} ELSE {}) = U
    OBVIOUS
  <2>4. r2.invalid = IF InvalidIn(f, q, ref) THEN r.invalid + 1 ELSE r.invalid
    BY DEF Grown
  <2> QED BY <1>2, <2>1, <2>2, <2>3, <2>4
<1>4. r2.empty = Cardinality({x \in S \cup {ref} : EmptyIn(f, x)}) /\ r.empty \in Nat
  <2> DEFINE U == {x \in S : EmptyIn(f, x)}
  <2>1. {x \in S \cup {ref} : EmptyIn(f, x)} = U \cup (IF EmptyIn(f, ref) THEN {ref} ELSE {})
    OBVIOUS
  <2>2. U \subseteq S /\ r.empty = Cardinality(U)
    BY DEF ReportOf
  <2> HIDE DEF U
  <2>3. EmptyIn(f, ref) \/ U \cup (IF EmptyIn(f, ref) THEN {ref} ELSE {}) = U
    OBVIOUS
  <2>4. r2.empty = IF EmptyIn(f, ref) THEN r.empty + 1 ELSE r.empty
    BY DEF Grown
  <2> QED BY <1>2, <2>1, <2>2, <2>3, <2>4
<1>5. r2.corrected = {SaidOf(f, q, x) : x \in {x \in S \cup {ref} : CorrectedIn(f, q, x)}}
  BY DEF ReportOf, Grown
<1>6. r2.flagged = {SaidOf(f, q, x) : x \in {x \in S \cup {ref} : FlaggedIn(f, q, x)}}
  BY DEF ReportOf, Grown
<1>7. SaidOf(f, q, ref) \notin r.corrected /\ SaidOf(f, q, ref) \notin r.flagged
  BY <1>1 DEF ReportOf
<1> QED BY <1>3, <1>4, <1>5, <1>6, <1>7 DEF ReportOf

(* ---- the invariant of two passes ---- *)

\* Every reference located is judged or waits, and is counted where it belongs.
Tally ==
  /\ report.total = Total(file)
  /\ report.valid \in Nat /\ IsFiniteSet(report.corrected) /\ IsFiniteSet(report.flagged)
  /\ report.valid + Cardinality(report.corrected) + Cardinality(report.flagged) + report.invalid + report.empty
       + Len(refs) = Len(Locate(file))

Passing ==
  LET judged == Seen(file) \ Range(refs)
  IN  /\ refs \in Seq(Seen(file)) /\ IsInjective(refs)
      /\ ReportOf(file, request, judged, report) /\ edits = EditsIn(file, request, judged)
      /\ Tally

PassInv == phase \in {"judging", "answered"} => Passing /\ (phase = "answered" => refs = <<>>)

\* What the model says of the reference at hand is what is said of it in its file.
LEMMA AtHand ==
  /\ Verdict = JudgedIn(file, request, Ref) /\ Said = SaidOf(file, request, Ref)
  /\ Edits = EditsOf(file, request, Ref) /\ (Empty <=> EmptyIn(file, Ref))
BY DEF Verdict, JudgedUnder, JudgedIn, TokenJudged, Shown, Printed, ContextOf, Context, Said, SaidOf, Edits, EditsOf,
       NewOf, Empty, EmptyIn

\* One reference more is judged.
LEMMA PassGrows ==
  ASSUME NEW C, CorrectionInv(C), PassInv, Judging, refs' = Tail(refs), UNCHANGED <<request, file, phase>>,
         \/ ValidIn(file, request, Ref) \/ CorrectedIn(file, request, Ref) \/ FlaggedIn(file, request, Ref)
         \/ InvalidIn(file, request, Ref) \/ EmptyIn(file, Ref),
         report'.total = report.total,
         Grown(file, request, Ref, report, report'),
         edits' = edits \cup (IF CorrectedIn(file, request, Ref) THEN Edits ELSE {})
  PROVE  PassInv'
<1> DEFINE S == Seen(file) \ Range(refs)
<1>1. phase = "judging" /\ phase' = "judging" /\ refs # <<>> /\ Passing /\ file \in FileOver(C)
  BY DEF Judging, PassInv, CorrectionInv
<1>2. refs \in Seq(Seen(file)) /\ IsInjective(refs) /\ ReportOf(file, request, S, report)
      /\ edits = EditsIn(file, request, S) /\ Tally
  BY <1>1 DEF Passing
<1>3. /\ refs' \in Seq(Seen(file)) /\ IsInjective(refs') /\ Len(refs') \in Nat /\ Len(refs) = Len(refs') + 1
      /\ Ref \notin S /\ Seen(file) \ Range(refs') = S \cup {Ref}
  BY <1>1, <1>2, HeadOff DEF Ref
<1>4. IsFiniteSet(S)
  BY <1>1, LocateIs, FS_Subset
<1>5. Said = SaidOf(file, request, Ref) /\ Edits = EditsOf(file, request, Ref)
  BY AtHand
<1> HIDE DEF S
<1>6. /\ ReportOf(file, request, S \cup {Ref}, report') /\ report.invalid \in Nat /\ report.empty \in Nat
      /\ Said \notin report.corrected /\ Said \notin report.flagged
  BY <1>2, <1>3, <1>4, <1>5, ReportGrows
<1>7. edits' = EditsIn(file, request, S \cup {Ref})
  BY <1>2, <1>3, <1>5 DEF EditsIn
<1>8. Tally'
  <2> DEFINE c == Cardinality(report.corrected)
             d == Cardinality(report.flagged)
             c2 == Cardinality(report'.corrected)
             d2 == Cardinality(report'.flagged)
  <2>1. /\ IsFiniteSet(report.corrected) /\ IsFiniteSet(report.flagged) /\ c \in Nat /\ d \in Nat /\ report.valid \in Nat
        /\ report.valid + c + d + report.invalid + report.empty + Len(refs) = Len(Locate(file))
    BY <1>2, FS_CardinalityType DEF Tally
  <2>2. IsFiniteSet(report'.corrected) /\ c2 = IF CorrectedIn(file, request, Ref) THEN c + 1 ELSE c
    <3>1. CASE CorrectedIn(file, request, Ref)
      <4> DEFINE U == report.corrected \cup {Said}
      <4>1. IsFiniteSet(U) /\ Cardinality(U) = Cardinality(report.corrected) + 1
        BY <1>6, <2>1, FS_AddElement
      <4>2. report'.corrected = U
        BY <1>5, <3>1 DEF Grown
      <4> HIDE DEF U
      <4> QED BY <3>1, <4>1, <4>2
    <3>2. CASE ~CorrectedIn(file, request, Ref)
      <4>1. report'.corrected = report.corrected BY <3>2 DEF Grown
      <4> QED BY <2>1, <3>2, <4>1
    <3> QED BY <3>1, <3>2
  <2>3. IsFiniteSet(report'.flagged) /\ d2 = IF FlaggedIn(file, request, Ref) THEN d + 1 ELSE d
    <3>1. CASE FlaggedIn(file, request, Ref)
      <4> DEFINE U == report.flagged \cup {Said}
      <4>1. IsFiniteSet(U) /\ Cardinality(U) = Cardinality(report.flagged) + 1
        BY <1>6, <2>1, FS_AddElement
      <4>2. report'.flagged = U
        BY <1>5, <3>1 DEF Grown
      <4> HIDE DEF U
      <4> QED BY <3>1, <4>1, <4>2
    <3>2. CASE ~FlaggedIn(file, request, Ref)
      <4>1. report'.flagged = report.flagged BY <3>2 DEF Grown
      <4> QED BY <2>1, <3>2, <4>1
    <3> QED BY <3>1, <3>2
  <2>4. report'.total = Total(file)'
    BY <1>2 DEF Tally, Total
  <2> HIDE DEF c, d, c2, d2
  <2> DEFINE v == report.valid
             i == report.invalid
             m == report.empty
             n == Len(refs')
  <2>5. v \in Nat /\ i \in Nat /\ m \in Nat /\ n \in Nat /\ Len(refs) = n + 1
    BY <1>3, <1>6, <2>1
  <2>6. report'.valid + c2 + d2 + report'.invalid + report'.empty + n = v + c + d + i + m + (n + 1)
    <3> HIDE DEF v, i, m, n
    <3>1. /\ report'.valid = IF ValidIn(file, request, Ref) THEN v + 1 ELSE v
          /\ report'.invalid = IF InvalidIn(file, request, Ref) THEN i + 1 ELSE i
          /\ report'.empty = IF EmptyIn(file, Ref) THEN m + 1 ELSE m
      BY DEF v, i, m, Grown
    <3>2. CASE ValidIn(file, request, Ref)
      BY <2>1, <2>2, <2>3, <2>5, <3>1, <3>2, OneClass
    <3>3. CASE CorrectedIn(file, request, Ref)
      BY <2>1, <2>2, <2>3, <2>5, <3>1, <3>3, OneClass
    <3>4. CASE FlaggedIn(file, request, Ref)
      BY <2>1, <2>2, <2>3, <2>5, <3>1, <3>4, OneClass
    <3>5. CASE InvalidIn(file, request, Ref)
      BY <2>1, <2>2, <2>3, <2>5, <3>1, <3>5, OneClass
    <3>6. CASE EmptyIn(file, Ref)
      <4>1. /\ ~ValidIn(file, request, Ref) /\ ~CorrectedIn(file, request, Ref)
            /\ ~FlaggedIn(file, request, Ref) /\ ~InvalidIn(file, request, Ref)
        BY <3>6, OneClass
      <4> QED BY <2>1, <2>2, <2>3, <2>5, <3>1, <3>6, <4>1
    <3> QED BY <3>2, <3>3, <3>4, <3>5, <3>6
  <2>7. Len(Locate(file)) = Len(Locate(file))'
    OBVIOUS
  <2>8. report'.valid \in Nat
    BY <2>1 DEF Grown
  <2> QED BY <2>1, <2>2, <2>3, <2>4, <2>5, <2>6, <2>7, <2>8 DEF Tally, c2, d2
<1>9. Passing'
  BY <1>3, <1>6, <1>7, <1>8 DEF Passing
<1> QED BY <1>1, <1>9 DEF PassInv

\* What the request before left: what its report says of its file, and the text that came back
\* as the file of this one.
PastInv(C) ==
  /\ round = 0 => earlier = None
  /\ earlier # None =>
       LET f == [file EXCEPT !.fields = earlier.fields]
       IN  /\ f \in FileOver(C) /\ ReportOf(f, earlier.request, Seen(f), earlier.report)
           /\ earlier.text = Redone(f, earlier.request).fields
           /\ IF phase = "idle" THEN text = earlier.text ELSE file.fields = earlier.text

QuietInv(C) == CorrectionInv(C) /\ PassInv /\ PastInv(C)

\* A file is its format and its fields.
LEMMA FileIs ==
  ASSUME NEW C, NEW f \in FileOver(C), NEW a, NEW b
  PROVE  /\ [f EXCEPT !.fields = f.fields] = f /\ [f EXCEPT !.fields = a].fields = a
         /\ [[f EXCEPT !.fields = a] EXCEPT !.fields = b] = [f EXCEPT !.fields = b]
BY DEF FileOver

\* What the edits make of a file.
LEMMA AppliedIs ==
  ASSUME NEW C, NEW f \in FileOver(C), NEW q, edits = EditsIn(f, q, Seen(f))
  PROVE  /\ ApplyEdits(f.fields) = Redone(f, q).fields
         /\ edits = {} => ApplyEdits(f.fields) = f.fields
<1>1. ApplyEdits(f.fields) = Written(f.fields, edits)
  BY DEF ApplyEdits, Written
<1>2. Redone(f, q).fields = Written(f.fields, edits)
  BY DEF Redone, FileOver
<1>3. ASSUME edits = {} PROVE ApplyEdits(f.fields) = f.fields
  <2>1. f.fields = [p \in DOMAIN f.fields |-> f.fields[p]]
    BY DEF FileOver
  <2> QED BY <1>3, <2>1 DEF ApplyEdits
<1> QED BY <1>1, <1>2, <1>3

\* The invariant says that the second pass is quiet.
LEMMA InvIsQuiet == ASSUME NEW C, Letter \cup Digit \subseteq C, QuietInv(C) PROVE SecondPassIsQuiet
<1> SUFFICES ASSUME phase = "answered"
             PROVE  /\ LET judged == report.valid + Cardinality(report.corrected) + Cardinality(report.flagged)
                                     + report.invalid + report.empty
                       IN  IF file.format = "xlsx" THEN report.total <= judged ELSE report.total = judged
                    /\ earlier # None /\ earlier.request = request =>
                         /\ text = earlier.text /\ report.corrected = {}
                         /\ report.flagged = earlier.report.flagged
                         /\ report.invalid = earlier.report.invalid /\ report.empty = earlier.report.empty
  BY DEF SecondPassIsQuiet, Answered
<1>1. Passing /\ refs = <<>> /\ file \in FileOver(C) /\ text = ApplyEdits(file.fields)
  BY DEF QuietInv, PassInv, CorrectionInv
<1>2. Seen(file) \ Range(refs) = Seen(file) /\ Len(refs) = 0
  <2>1. Range(refs) = {}
    BY <1>1 DEF Range
  <2> QED BY <1>1, <2>1
<1>3. ReportOf(file, request, Seen(file), report) /\ edits = EditsIn(file, request, Seen(file)) /\ Tally
  BY <1>1, <1>2 DEF Passing
<1>4. LET judged == report.valid + Cardinality(report.corrected) + Cardinality(report.flagged)
                    + report.invalid + report.empty
      IN  IF file.format = "xlsx" THEN report.total <= judged ELSE report.total = judged
  <2> DEFINE c == Cardinality(report.corrected)
             d == Cardinality(report.flagged)
             L == Locate(file)
  <2>1. /\ c \in Nat /\ d \in Nat /\ report.valid \in Nat /\ report.total = Total(file)
        /\ report.valid + c + d + report.invalid + report.empty + Len(refs) = Len(L)
    BY <1>3, FS_CardinalityType DEF Tally
  <2>2. IsFiniteSet(Seen(file)) /\ Range(L) = Seen(file) /\ Len(L) \in Nat
        /\ Cardinality({ref.token : ref \in Seen(file)}) <= Len(L)
    BY <1>1, LocateIs
  <2>3. report.invalid \in Nat /\ report.empty \in Nat
    BY <1>3, <2>2, FS_Subset, FS_CardinalityType DEF ReportOf
  <2>4. IF file.format = "xlsx" THEN report.total <= Len(L) ELSE report.total = Len(L)
    BY <2>1, <2>2 DEF Total
  <2> HIDE DEF c, d, L
  <2>5. report.valid + c + d + report.invalid + report.empty = Len(L)
    BY <1>2, <2>1, <2>2, <2>3
  <2> QED BY <2>4, <2>5 DEF c, d
<1>5. ASSUME earlier # None, earlier.request = request
      PROVE  /\ text = earlier.text /\ report.corrected = {}
             /\ report.flagged = earlier.report.flagged
             /\ report.invalid = earlier.report.invalid /\ report.empty = earlier.report.empty
  <2> DEFINE f == [file EXCEPT !.fields = earlier.fields]
  <2>1. /\ f \in FileOver(C) /\ ReportOf(f, request, Seen(f), earlier.report)
        /\ file.fields = Redone(f, request).fields /\ file.fields = earlier.text
    BY <1>5 DEF QuietInv, PastInv
  <2>2. Redone(f, request) = file
    <3> DEFINE t == Written(f.fields, EditsIn(f, request, Seen(f)))
    <3>1. Redone(f, request) = [f EXCEPT !.fields = t]
      BY DEF Redone
    <3> HIDE DEF t
    <3>2. [f EXCEPT !.fields = t] = [file EXCEPT !.fields = t]
      BY <1>1 DEF FileOver
    <3>3. Redone(f, request).fields = t
      BY <1>1, <3>1, <3>2 DEF FileOver
    <3>4. [file EXCEPT !.fields = file.fields] = file
      BY <1>1, FileIs
    <3> HIDE DEF f
    <3>5. t = file.fields
      BY <2>1, <3>3
    <3> QED BY <3>1, <3>2, <3>4, <3>5
  <2> HIDE DEF f
  <2>3. /\ report.corrected = {} /\ edits = {}
        /\ report.flagged = earlier.report.flagged
        /\ report.invalid = earlier.report.invalid /\ report.empty = earlier.report.empty
    BY <1>3, <2>1, <2>2, SecondReport
  <2>4. ApplyEdits(file.fields) = file.fields
    BY <1>1, <1>3, <2>3, AppliedIs
  <2> QED BY <1>1, <2>1, <2>3, <2>4
<1> QED BY <1>4, <1>5

\* It holds at the start.
LEMMA QuietStarts == ASSUME NEW C, Init PROVE QuietInv(C)
<1>1. CorrectionInv(C)
  BY CorrectionStarts
<1> QED BY <1>1 DEF Init, QuietInv, PassInv, PastInv

\* A request arrives: nothing is judged yet.
LEMMA ServeIsQuiet ==
  ASSUME NEW q, NEW C, NEW f \in FileOver(C), Serve(q, f)
  PROVE  PassInv'
<1>1. /\ file' = f /\ refs' = Locate(f) /\ edits' = {} /\ report' = [NoReport EXCEPT !.total = Total(f)]
      /\ phase' \in {"judging", "idle"}
  BY DEF Serve
<1>2. /\ report'.total = Total(f) /\ report'.valid = 0 /\ report'.corrected = {} /\ report'.flagged = {}
      /\ report'.invalid = 0 /\ report'.empty = 0
  BY <1>1 DEF NoReport
<1>3. /\ refs' \in Seq(Seen(f)) /\ IsInjective(refs') /\ Seen(f) \ Range(refs') = {} /\ Len(refs') \in Nat
  BY <1>1, LocateIs
<1>4. IsFiniteSet({}) /\ Cardinality({}) = 0
  BY FS_EmptySet
<1>5. ReportOf(f, request', {}, report')
  <2>1. {ref \in {} : InvalidIn(f, request', ref)} = {} /\ {ref \in {} : EmptyIn(f, ref)} = {}
    OBVIOUS
  <2> QED BY <1>2, <1>4, <2>1 DEF ReportOf
<1>6. EditsIn(f, request', {}) = {}
  BY DEF EditsIn
<1>7. Tally'
  <2>1. report'.total = Total(file)' /\ Len(Locate(file))' = Len(refs')
    BY <1>1, <1>2
  <2>2. 0 + 0 + 0 + 0 + 0 + Len(refs') = Len(refs')
    BY <1>3
  <2> QED BY <1>2, <1>4, <2>1, <2>2 DEF Tally
<1>8. Passing'
  <2>1. Seen(file)' = Seen(f) /\ ReportOf(file, request, {}, report)' /\ EditsIn(file, request, {})' = {}
    BY <1>1, <1>5, <1>6
  <2> QED BY <1>1, <1>3, <1>7, <2>1 DEF Passing
<1> QED BY <1>1, <1>8 DEF PassInv

\* While identifiers are judged the past does not move.
LEMMA PastStays ==
  ASSUME NEW C, PastInv(C), UNCHANGED <<round, earlier, file, phase, text>>
  PROVE  PastInv(C)'
BY DEF PastInv

\* A first file has no past.
LEMMA UploadIsQuiet ==
  ASSUME NEW C, RequestsAreTexts(C), QuietInv(C), Upload
  PROVE  PassInv' /\ PastInv(C)'
<1>1. PICK q \in Requests, f \in Files : Serve(q, f)
  BY DEF Upload
<1>2. f \in FileOver(C)
  BY DEF RequestsAreTexts
<1>3. earlier' = None /\ round' = round + 1
  BY <1>1 DEF Serve, Upload, QuietInv, PastInv
<1>4. PastInv(C)'
  BY <1>3 DEF Upload, PastInv
<1> QED BY <1>1, <1>2, <1>4, ServeIsQuiet

\* The answer comes back as a file: the past is that of its request.
LEMMA UploadAgainIsQuiet ==
  ASSUME NEW C, QuietInv(C), UploadAgain
  PROVE  PassInv' /\ PastInv(C)'
<1> DEFINE g == [file EXCEPT !.fields = text]
           h == [file EXCEPT !.fields = earlier.fields]
<1>1. PICK q \in Requests : Serve(q, g)
  BY DEF UploadAgain
<1>2. round \in Nat /\ round # 0 /\ file \in FileOver(C) /\ g \in FileOver(C)
  BY DEF UploadAgain, QuietInv, CorrectionInv
<1>3. /\ phase = "idle" /\ file' = g /\ round' = round + 1
      /\ (phase' = "judging" /\ earlier' = earlier) \/ (phase' = "idle" /\ earlier' = None)
  BY <1>1 DEF Serve
<1>4. PassInv'
  BY <1>1, <1>2, ServeIsQuiet
<1>5. CASE phase' = "judging" /\ earlier' = earlier /\ earlier # None
  <2>1. /\ h \in FileOver(C) /\ ReportOf(h, earlier.request, Seen(h), earlier.report)
        /\ earlier.text = Redone(h, earlier.request).fields /\ text = earlier.text
    BY <1>3, <1>5 DEF QuietInv, PastInv
  <2>2. [file' EXCEPT !.fields = earlier'.fields] = h
    BY <1>2, <1>3, <1>5 DEF FileOver
  <2>3. file'.fields = text
    BY <1>2, <1>3 DEF FileOver
  <2>4. round' # 0
    BY <1>2, <1>3
  <2> HIDE DEF h, g
  <2> QED BY <1>4, <1>5, <2>1, <2>2, <2>3, <2>4 DEF PastInv
<1>6. CASE earlier' = None
  BY <1>4, <1>6 DEF PastInv
<1> QED BY <1>3, <1>5, <1>6

\* Each way to judge an identifier counts it where it belongs.
LEMMA CountIsQuiet ==
  ASSUME NEW C, QuietInv(C), CountEmpty \/ CountValid \/ CountInvalid \/ FlagIt \/ ChangeIt
  PROVE  PassInv' /\ PastInv(C)'
<1>1. Judging /\ refs' = Tail(refs) /\ UNCHANGED <<request, file, text, earlier, round, phase>>
  BY DEF CountEmpty, CountValid, CountInvalid, FlagIt, ChangeIt, judgingSame
<1>2. /\ Verdict = JudgedIn(file, request, Ref) /\ Said = SaidOf(file, request, Ref)
      /\ (Empty <=> EmptyIn(file, Ref))
  BY AtHand
<1>3. DOMAIN report = {"total", "valid", "corrected", "flagged", "invalid", "empty"}
  BY DEF QuietInv, CorrectionInv, NoReport
<1>4. PastInv(C)'
  BY <1>1, PastStays DEF QuietInv
<1>5. CorrectionInv(C) /\ PassInv
  BY DEF QuietInv
<1>6. CASE CountEmpty
  <2>1. EmptyIn(file, Ref) /\ report' = [report EXCEPT !.empty = @ + 1] /\ edits' = edits
    BY <1>2, <1>6 DEF CountEmpty
  <2>2. ~ValidIn(file, request, Ref) /\ ~CorrectedIn(file, request, Ref)
        /\ ~FlaggedIn(file, request, Ref) /\ ~InvalidIn(file, request, Ref)
    BY <2>1, OneClass
  <2>3. Grown(file, request, Ref, report, report') /\ report'.total = report.total
    BY <1>3, <2>1, <2>2 DEF Grown
  <2>4. edits' = edits \cup (IF CorrectedIn(file, request, Ref) THEN Edits ELSE {})
    BY <2>1, <2>2
  <2> QED BY <1>1, <1>4, <1>5, <2>1, <2>3, <2>4, PassGrows
<1>7. CASE CountValid
  <2>1. ValidIn(file, request, Ref) /\ report' = [report EXCEPT !.valid = @ + 1] /\ edits' = edits
    BY <1>2, <1>7 DEF CountValid, ValidIn
  <2>2. ~EmptyIn(file, Ref) /\ ~CorrectedIn(file, request, Ref)
        /\ ~FlaggedIn(file, request, Ref) /\ ~InvalidIn(file, request, Ref)
    BY <2>1, OneClass
  <2>3. Grown(file, request, Ref, report, report') /\ report'.total = report.total
    BY <1>3, <2>1, <2>2 DEF Grown
  <2>4. edits' = edits \cup (IF CorrectedIn(file, request, Ref) THEN Edits ELSE {})
    BY <2>1, <2>2
  <2> QED BY <1>1, <1>4, <1>5, <2>1, <2>3, <2>4, PassGrows
<1>8. CASE CountInvalid
  <2>1. InvalidIn(file, request, Ref) /\ report' = [report EXCEPT !.invalid = @ + 1] /\ edits' = edits
    BY <1>2, <1>8 DEF CountInvalid, InvalidIn
  <2>2. ~ValidIn(file, request, Ref) /\ ~EmptyIn(file, Ref) /\ ~CorrectedIn(file, request, Ref)
        /\ ~FlaggedIn(file, request, Ref)
    BY <2>1, OneClass
  <2>3. Grown(file, request, Ref, report, report') /\ report'.total = report.total
    BY <1>3, <2>1, <2>2 DEF Grown
  <2>4. edits' = edits \cup (IF CorrectedIn(file, request, Ref) THEN Edits ELSE {})
    BY <2>1, <2>2
  <2> QED BY <1>1, <1>4, <1>5, <2>1, <2>3, <2>4, PassGrows
<1>9. CASE FlagIt
  <2>1. FlaggedIn(file, request, Ref) /\ report' = [report EXCEPT !.flagged = @ \cup {Said}] /\ edits' = edits
    BY <1>2, <1>9 DEF FlagIt, FlaggedIn, NoSlot
  <2>2. ~ValidIn(file, request, Ref) /\ ~EmptyIn(file, Ref) /\ ~CorrectedIn(file, request, Ref)
        /\ ~InvalidIn(file, request, Ref)
    BY <2>1, OneClass
  <2>3. Grown(file, request, Ref, report, report') /\ report'.total = report.total
    BY <1>2, <1>3, <2>1, <2>2 DEF Grown
  <2>4. edits' = edits \cup (IF CorrectedIn(file, request, Ref) THEN Edits ELSE {})
    BY <2>1, <2>2
  <2> QED BY <1>1, <1>4, <1>5, <2>1, <2>3, <2>4, PassGrows
<1>10. CASE ChangeIt
  <2>1. CorrectedIn(file, request, Ref) /\ report' = [report EXCEPT !.corrected = @ \cup {Said}]
        /\ edits' = edits \cup Edits
    BY <1>2, <1>10 DEF ChangeIt, CorrectedIn
  <2>2. ~ValidIn(file, request, Ref) /\ ~EmptyIn(file, Ref) /\ ~FlaggedIn(file, request, Ref)
        /\ ~InvalidIn(file, request, Ref)
    BY <2>1, OneClass
  <2>3. Grown(file, request, Ref, report, report') /\ report'.total = report.total
    BY <1>2, <1>3, <2>1, <2>2 DEF Grown
  <2>4. edits' = edits \cup (IF CorrectedIn(file, request, Ref) THEN Edits ELSE {})
    BY <2>1
  <2> QED BY <1>1, <1>4, <1>5, <2>1, <2>3, <2>4, PassGrows
<1> QED BY <1>6, <1>7, <1>8, <1>9, <1>10

\* The end of a request; when the caller leaves, it becomes the past.
LEMMA EndsAreQuiet ==
  ASSUME NEW C, QuietInv(C), Answer \/ Fail \/ Leave
  PROVE  PassInv' /\ PastInv(C)'
<1>1. PassInv /\ PastInv(C) /\ CorrectionInv(C)
  BY DEF QuietInv
<1>2. CASE Answer
  <2>1. /\ phase = "judging" /\ phase' = "answered" /\ refs = <<>>
        /\ UNCHANGED <<request, file, refs, edits, report, earlier, round>>
    BY <1>2 DEF Answer
  <2>2. Passing'
    BY <1>1, <2>1 DEF PassInv, Passing, Tally
  <2>3. PastInv(C)'
    BY <1>1, <2>1 DEF PastInv
  <2> QED BY <2>1, <2>2, <2>3 DEF PassInv
<1>3. CASE Fail
  <2>1. phase' = "idle" /\ earlier' = None
    BY <1>3 DEF Fail
  <2> QED BY <2>1 DEF PassInv, PastInv
<1>4. CASE Leave
  <2>1. /\ phase = "answered" /\ phase' = "idle" /\ earlier'.request = request /\ earlier'.fields = file.fields
        /\ earlier'.report = report /\ earlier'.text = text
        /\ UNCHANGED <<request, file, refs, edits, report, text, round>>
    BY <1>4 DEF Leave
  <2>2. /\ Passing /\ refs = <<>> /\ file \in FileOver(C) /\ text = ApplyEdits(file.fields) /\ round # 0
    BY <1>1, <2>1 DEF PassInv, CorrectionInv
  <2>3. Seen(file) \ Range(refs) = Seen(file)
    BY <2>2 DEF Range
  <2>4. ReportOf(file, request, Seen(file), report) /\ edits = EditsIn(file, request, Seen(file))
    BY <2>2, <2>3 DEF Passing
  <2>5. [file EXCEPT !.fields = file.fields] = file
    BY <2>2, FileIs
  <2>6. text = Redone(file, request).fields
    BY <2>2, <2>4, AppliedIs
  <2>7. [file' EXCEPT !.fields = earlier'.fields] = file
    BY <2>1, <2>5
  <2>8. PastInv(C)'
    <3> DEFINE f == [file' EXCEPT !.fields = earlier'.fields]
    <3>1. f = file
      BY <2>7
    <3> HIDE DEF f
    <3>2. f \in FileOver(C) /\ ReportOf(f, earlier'.request, Seen(f), earlier'.report)
          /\ earlier'.text = Redone(f, earlier'.request).fields
      BY <2>1, <2>2, <2>4, <2>6, <3>1
    <3>3. round' # 0 /\ phase' = "idle" /\ text' = earlier'.text
      BY <2>1, <2>2
    <3> QED BY <3>2, <3>3 DEF PastInv, f
  <2> QED BY <2>1, <2>8 DEF PassInv
<1> QED BY <1>2, <1>3, <1>4

\* Every step keeps the invariant.
LEMMA QuietKeeps ==
  ASSUME NEW C, RequestsAreTexts(C), QuietInv(C), [Next]_corrVars
  PROVE  QuietInv(C)'
<1>1. CorrectionInv(C)'
  BY CorrectionKeeps DEF QuietInv
<1>2. CASE Upload
  BY <1>1, <1>2, UploadIsQuiet DEF QuietInv
<1>3. CASE UploadAgain
  BY <1>1, <1>3, UploadAgainIsQuiet DEF QuietInv
<1>4. CASE PutPolicy \/ UNCHANGED corrVars
  <2>1. UNCHANGED <<request, file, refs, edits, report, text, earlier, round, phase>>
    BY <1>4 DEF PutPolicy, corrVars
  <2>2. PassInv'
    BY <2>1 DEF QuietInv, PassInv, Passing, Tally
  <2>3. PastInv(C)'
    BY <2>1, PastStays DEF QuietInv
  <2> QED BY <1>1, <2>2, <2>3 DEF QuietInv
<1>5. CASE CountEmpty \/ CountValid \/ CountInvalid \/ FlagIt \/ ChangeIt
  BY <1>1, <1>5, CountIsQuiet DEF QuietInv
<1>6. CASE Answer \/ Fail \/ Leave
  BY <1>1, <1>6, EndsAreQuiet DEF QuietInv
<1> QED BY <1>2, <1>3, <1>4, <1>5, <1>6 DEF Next

(***************************************************************************)
(* A corrected file that comes back under the same rules is left alone:    *)
(* nothing is corrected again, what was flagged is flagged for the same    *)
(* reason, and both reports account for every identifier located           *)
(* (service.py, the locators and correctors of the formats).               *)
(***************************************************************************)
THEOREM SecondPassChangesNothing ==
  ASSUME NEW C, RequestsAreTexts(C)
  PROVE  Spec => []SecondPassIsQuiet
<1>1. Letter \cup Digit \subseteq C
  BY DEF RequestsAreTexts
<1>2. Init => QuietInv(C)
  BY QuietStarts
<1>3. QuietInv(C) /\ [Next]_corrVars => QuietInv(C)'
  BY QuietKeeps
<1>4. QuietInv(C) => SecondPassIsQuiet
  BY <1>1, InvIsQuiet
<1> QED BY <1>2, <1>3, <1>4, PTL DEF Spec

(* ---- the counters ---- *)

\* The recursive function by its equation.
CountingRec(g, table, sheet, n) ==
  g = [i \in 0 .. n |-> IF i = 0 THEN table ELSE Sighted(g[i - 1], sheet[i])]

\* The recursive equation of the counters has a solution.
LEMMA CountingExists ==
  ASSUME NEW table, NEW sheet, NEW N \in Nat
  PROVE  \E g : CountingRec(g, table, sheet, N)
<1> DEFINE S == {n \in 0 .. N : \E g : CountingRec(g, table, sheet, n)}
<1>1. 0 \in S
  <2> DEFINE g == [i \in 0 .. 0 |-> table]
  <2>1. CountingRec(g, table, sheet, 0)
    BY DEF CountingRec
  <2> QED BY <2>1
<1>2. ASSUME NEW n \in 0 .. N - 1, n \in S PROVE n + 1 \in S
  <2>1. PICK h : CountingRec(h, table, sheet, n)
    BY <1>2
  <2> DEFINE g == [i \in 0 .. n + 1 |-> IF i <= n THEN h[i] ELSE Sighted(h[n], sheet[n + 1])]
  <2>2. \A i \in 0 .. n : h[i] = IF i = 0 THEN table ELSE Sighted(h[i - 1], sheet[i])
    BY <2>1 DEF CountingRec
  <2>3. ASSUME NEW i \in 0 .. n + 1
        PROVE  g[i] = IF i = 0 THEN table ELSE Sighted(g[i - 1], sheet[i])
    <3>1. CASE i = 0
      <4>1. g[i] = h[i] /\ i \in 0 .. n BY <3>1
      <4> QED BY <2>2, <3>1, <4>1
    <3>2. CASE i \in 1 .. n
      <4>1. g[i] = h[i] /\ g[i - 1] = h[i - 1] BY <3>2
      <4> QED BY <2>2, <3>2, <4>1
    <3>3. CASE i = n + 1
      <4>1. i - 1 = n /\ i # 0 /\ ~(i <= n) BY <3>3
      <4>2. g[n] = h[n] /\ g[i] = Sighted(h[n], sheet[n + 1]) BY <4>1
      <4> HIDE DEF g
      <4> QED BY <3>3, <4>1, <4>2
    <3> QED BY <3>1, <3>2, <3>3
  <2>4. CountingRec(g, table, sheet, n + 1)
    <3>1. g = [i \in 0 .. n + 1 |-> g[i]] OBVIOUS
    <3> HIDE DEF g
    <3>2. [i \in 0 .. n + 1 |-> g[i]]
          = [i \in 0 .. n + 1 |-> IF i = 0 THEN table ELSE Sighted(g[i - 1], sheet[i])]
      BY <2>3
    <3> QED BY <3>1, <3>2 DEF CountingRec
  <2> QED BY <2>4
<1>3. 0 .. N \subseteq S
  <2> HIDE DEF S
  <2> QED BY <1>1, <1>2, IntervalInduction
<1> QED BY <1>3

\* The counters grow one row after the other.
LEMMA CountingIs ==
  ASSUME NEW table, NEW sheet, Len(sheet) \in Nat
  PROVE  /\ Counting(table, sheet)[0] = table
         /\ \A i \in 1 .. Len(sheet) :
              Counting(table, sheet)[i] = Sighted(Counting(table, sheet)[i - 1], sheet[i])
<1> DEFINE N == Len(sheet)
           h == CHOOSE h : h = [i \in 0 .. N |-> IF i = 0 THEN table ELSE Sighted(h[i - 1], sheet[i])]
<1>1. N \in Nat
  OBVIOUS
<1>2. \E g : g = [i \in 0 .. N |-> IF i = 0 THEN table ELSE Sighted(g[i - 1], sheet[i])]
  <2> HIDE DEF N, h
  <2>1. PICK g : CountingRec(g, table, sheet, N)
    BY <1>1, CountingExists
  <2> QED BY <2>1 DEF CountingRec
<1>3. CountingRec(h, table, sheet, N)
  BY <1>2 DEF CountingRec
<1>4. Counting(table, sheet) = h
  BY DEF Counting
<1> HIDE DEF h, N
<1>5. \A i \in 0 .. N : h[i] = IF i = 0 THEN table ELSE Sighted(h[i - 1], sheet[i])
  BY <1>3 DEF CountingRec
<1>6. h[0] = table
  <2>1. 0 \in 0 .. N BY DEF N
  <2> QED BY <1>5, <2>1, Zenon
<1>7. ASSUME NEW i \in 1 .. N PROVE h[i] = Sighted(h[i - 1], sheet[i])
  <2>1. i \in 0 .. N /\ i # 0 BY DEF N
  <2> QED BY <1>5, <2>1, Zenon
<1> QED BY <1>4, <1>6, <1>7 DEF N

\* What the events add up to, over finitely many rows.
Tables == [Eqid -> Counters \cup {NoValue}]

Tallied(table, log) ==
  /\ table \in Tables /\ AddUp(table, log)
  /\ \A e \in Eqid : IsFiniteSet(RowsOf(log, e)) /\ IsFiniteSet(Sightings(log, e))

\* next is log with one more row, in a place of its own.
Joins(log, next, p, row) ==
  /\ p \notin Places(log) /\ Places(next) = Places(log) \cup {p}
  /\ next[p[1]][p[2]] = row
  /\ \A q \in Places(log) : next[q[1]][q[2]] = log[q[1]][q[2]]

\* The rows of its container are one more, of others as many.
LEMMA RowsJoined ==
  ASSUME NEW log, NEW next, NEW p, NEW row, Joins(log, next, p, row), NEW e
  PROVE  /\ RowsOf(next, e) = RowsOf(log, e) \cup (IF row.eqid = e THEN {p} ELSE {})
         /\ \A role : InRole(next, e, role)
              = InRole(log, e, role) \cup (IF row.eqid = e /\ row.role = role THEN {p} ELSE {})
         /\ Sightings(next, e)
              = Sightings(log, e) \cup (IF row.eqid = e THEN {p} \X (1 .. row.occurrences) ELSE {})
         /\ Sightings(log, e) \cap ({p} \X (1 .. row.occurrences)) = {}
<1>1. RowsOf(next, e) = RowsOf(log, e) \cup (IF row.eqid = e THEN {p} ELSE {})
  BY DEF RowsOf, Joins
<1>2. \A q \in RowsOf(log, e) : q # p /\ next[q[1]][q[2]] = log[q[1]][q[2]]
  BY DEF RowsOf, Joins
<1>3. next[p[1]][p[2]] = row
  BY DEF Joins
<1>4. ASSUME NEW role
      PROVE  InRole(next, e, role)
               = InRole(log, e, role) \cup (IF row.eqid = e /\ row.role = role THEN {p} ELSE {})
  BY <1>1, <1>2, <1>3 DEF InRole
<1>5. Sightings(next, e)
        = Sightings(log, e) \cup (IF row.eqid = e THEN {p} \X (1 .. row.occurrences) ELSE {})
  <2>1. \A s : s \in Sightings(next, e) <=> \E q \in RowsOf(next, e) : s \in {q} \X (1 .. next[q[1]][q[2]].occurrences)
    BY DEF Sightings
  <2>2. \A s : s \in Sightings(log, e) <=> \E q \in RowsOf(log, e) : s \in {q} \X (1 .. log[q[1]][q[2]].occurrences)
    BY DEF Sightings
  <2>3. \A s : s \in Sightings(log, e) <=> \E q \in RowsOf(log, e) : s \in {q} \X (1 .. next[q[1]][q[2]].occurrences)
    BY <1>2, <2>2
  <2>4. CASE row.eqid = e
    <3>1. RowsOf(next, e) = RowsOf(log, e) \cup {p}
      BY <1>1, <2>4
    <3>2. \A s : s \in Sightings(next, e) <=> s \in Sightings(log, e) \/ s \in {p} \X (1 .. row.occurrences)
      BY <1>3, <2>1, <2>3, <3>1, Zenon
    <3> QED BY <2>4, <3>2
  <2>5. CASE row.eqid # e
    <3>1. RowsOf(next, e) = RowsOf(log, e)
      BY <1>1, <2>5
    <3>2. \A s : s \in Sightings(next, e) <=> s \in Sightings(log, e)
      BY <2>1, <2>3, <3>1, Zenon
    <3> QED BY <2>5, <3>2
  <2> QED BY <2>4, <2>5
<1>6. Sightings(log, e) \cap ({p} \X (1 .. row.occurrences)) = {}
  BY <1>2 DEF Sightings
<1> QED BY <1>1, <1>4, <1>5, <1>6

\* A row that joins a report is counted where it belongs.
LEMMA RowCounts ==
  ASSUME WarehouseBounds, NEW table, NEW log, NEW next, NEW p, NEW row \in InventoryRow,
         Tallied(table, log), Joins(log, next, p, row)
  PROVE  Tallied(Sighted(table, row), next)
<1> DEFINE e == row.eqid
           after == CountedIn(table[e], row)
<1>1. e \in Eqid /\ row.occurrences \in Nat /\ row.basis \in STRING
  BY DEF InventoryRow
<1>2. table \in Tables
  BY DEF Tallied
<1>3. One("corrected", row) \in {0, 1} /\ One("flagged", row) \in {0, 1}
  BY DEF One
<1>4. table[e] = NoValue \/ table[e] \in Counters
  BY <1>1, <1>2 DEF Tables
<1>5. /\ after \in Counters
      /\ after.seen = row.occurrences + (IF table[e] = NoValue THEN 0 ELSE table[e].seen)
      /\ after.corrected = One("corrected", row) + (IF table[e] = NoValue THEN 0 ELSE table[e].corrected)
      /\ after.flagged = One("flagged", row) + (IF table[e] = NoValue THEN 0 ELSE table[e].flagged)
  <2>1. CASE table[e] = NoValue
    BY <1>1, <1>3, <2>1 DEF CountedIn, Counters
  <2>2. CASE table[e] \in Counters /\ table[e] # NoValue
    <3>1. table[e].seen \in Nat /\ table[e].corrected \in Nat /\ table[e].flagged \in Nat
      BY <2>2 DEF Counters
    <3> QED BY <1>1, <1>3, <2>2, <3>1 DEF CountedIn, Counters
  <2> QED BY <1>4, <2>1, <2>2
<1>6. Sighted(table, row) = [table EXCEPT ![e] = after]
  BY DEF Sighted
<1> HIDE DEF after
<1>7. /\ Sighted(table, row) \in Tables /\ Sighted(table, row)[e] = after /\ after # NoValue
      /\ \A d \in Eqid \ {e} : Sighted(table, row)[d] = table[d]
  BY <1>1, <1>2, <1>5, <1>6 DEF Tables, WarehouseBounds
<1>8. ASSUME NEW d \in Eqid
      PROVE  IsFiniteSet(RowsOf(log, d)) /\ IsFiniteSet(Sightings(log, d))
  BY DEF Tallied
<1>9. ASSUME NEW d \in Eqid, d # e
      PROVE  /\ RowsOf(next, d) = RowsOf(log, d) /\ Sightings(next, d) = Sightings(log, d)
             /\ \A role : InRole(next, d, role) = InRole(log, d, role)
  <2>1. /\ RowsOf(next, d) = RowsOf(log, d) \cup (IF row.eqid = d THEN {p} ELSE {})
        /\ \A role : InRole(next, d, role)
             = InRole(log, d, role) \cup (IF row.eqid = d /\ row.role = role THEN {p} ELSE {})
        /\ Sightings(next, d)
             = Sightings(log, d) \cup (IF row.eqid = d THEN {p} \X (1 .. row.occurrences) ELSE {})
    BY RowsJoined
  <2>2. row.eqid # d
    BY <1>9
  <2>3. ASSUME NEW role PROVE InRole(next, d, role) = InRole(log, d, role)
    BY <2>1, <2>2
  <2> QED BY <2>1, <2>2, <2>3
<1>10. /\ RowsOf(next, e) = RowsOf(log, e) \cup {p}
       /\ \A role : InRole(next, e, role) = InRole(log, e, role) \cup (IF row.role = role THEN {p} ELSE {})
       /\ Sightings(next, e) = Sightings(log, e) \cup ({p} \X (1 .. row.occurrences))
       /\ Sightings(log, e) \cap ({p} \X (1 .. row.occurrences)) = {}
  BY RowsJoined
<1>11. /\ IsFiniteSet({p} \X (1 .. row.occurrences))
       /\ Cardinality({p} \X (1 .. row.occurrences)) = row.occurrences
  <2>1. IsFiniteSet({p}) /\ Cardinality({p}) = 1
    BY FS_Singleton
  <2>2. IsFiniteSet(1 .. row.occurrences) /\ Cardinality(1 .. row.occurrences) = row.occurrences
    <3>1. 1 \in Int /\ row.occurrences \in Int
      BY <1>1
    <3>2. IsFiniteSet(1 .. row.occurrences)
          /\ Cardinality(1 .. row.occurrences) = IF 1 > row.occurrences THEN 0 ELSE row.occurrences - 1 + 1
      BY <3>1, FS_Interval
    <3> QED BY <1>1, <3>2
  <2>3. /\ IsFiniteSet({p} \X (1 .. row.occurrences))
        /\ Cardinality({p} \X (1 .. row.occurrences)) = Cardinality({p}) * Cardinality(1 .. row.occurrences)
    BY <2>1, <2>2, FS_Product
  <2> QED BY <1>1, <2>1, <2>2, <2>3
<1>12. IsFiniteSet(Sightings(next, e))
       /\ Cardinality(Sightings(next, e)) = Cardinality(Sightings(log, e)) + row.occurrences
  <2> DEFINE A == Sightings(log, e)
             B == {p} \X (1 .. row.occurrences)
  <2>1. Cardinality({}) = 0 /\ IsFiniteSet(A) /\ Cardinality(A) \in Nat
    BY <1>1, <1>8, FS_EmptySet, FS_CardinalityType
  <2>2. IsFiniteSet(B) /\ Cardinality(B) = row.occurrences
    BY <1>11
  <2>3. Sightings(next, e) = A \cup B /\ A \cap B = {}
    BY <1>10
  <2> HIDE DEF A, B
  <2>4. IsFiniteSet(A \cup B) /\ Cardinality(A \cup B) = Cardinality(A) + Cardinality(B) - Cardinality(A \cap B)
    BY <2>1, <2>2, FS_Union
  <2>5. Cardinality(A \cap B) = 0
    BY <2>1, <2>3
  <2>6. Cardinality(A \cup B) = Cardinality(A) + row.occurrences
    <3> DEFINE n == row.occurrences
    <3>1. n \in Nat /\ Cardinality(B) = n
      BY <1>1, <2>2
    <3> HIDE DEF n
    <3>2. Cardinality(A \cup B) = Cardinality(A) + n
      BY <2>1, <2>4, <2>5, <3>1
    <3> QED BY <3>2 DEF n
  <2> QED BY <2>3, <2>4, <2>6 DEF A
<1>13. IsFiniteSet(RowsOf(next, e))
  BY <1>1, <1>8, <1>10, FS_AddElement
<1>14. ASSUME NEW role
       PROVE  Cardinality(InRole(next, e, role)) = Cardinality(InRole(log, e, role)) + One(role, row)
              /\ Cardinality(InRole(log, e, role)) \in Nat
  <2>1. InRole(log, e, role) \subseteq RowsOf(log, e)
    BY DEF InRole
  <2>2. IsFiniteSet(InRole(log, e, role)) /\ Cardinality(InRole(log, e, role)) \in Nat
    BY <1>1, <1>8, <2>1, FS_Subset, FS_CardinalityType
  <2>3. p \notin InRole(log, e, role)
    BY <2>1 DEF RowsOf, Joins
  <2>4. CASE row.role = role
    BY <1>10, <2>2, <2>3, <2>4, FS_AddElement DEF One
  <2>5. CASE row.role # role
    <3>1. InRole(next, e, role) = InRole(log, e, role)
      BY <1>10, <2>5
    <3> QED BY <2>2, <2>5, <3>1 DEF One
  <2> QED BY <2>4, <2>5
<1>15. /\ after.seen = Cardinality(Sightings(next, e))
       /\ after.corrected = Cardinality(InRole(next, e, "corrected"))
       /\ after.flagged = Cardinality(InRole(next, e, "flagged"))
  <2>1. CASE table[e] = NoValue
    <3>1. RowsOf(log, e) = {}
      BY <1>1, <2>1 DEF Tallied, AddUp
    <3>2. Sightings(log, e) = {} /\ \A role : InRole(log, e, role) = {}
      BY <3>1 DEF Sightings, InRole
    <3>3. Cardinality({}) = 0
      BY FS_EmptySet
    <3>4. /\ Cardinality(Sightings(next, e)) = 0 + row.occurrences
          /\ Cardinality(InRole(next, e, "corrected")) = 0 + One("corrected", row)
          /\ Cardinality(InRole(next, e, "flagged")) = 0 + One("flagged", row)
      BY <1>12, <1>14, <3>2, <3>3
    <3> QED BY <1>1, <1>3, <1>5, <2>1, <3>4
  <2>2. CASE table[e] # NoValue
    <3>1. /\ table[e].seen = Cardinality(Sightings(log, e))
          /\ table[e].corrected = Cardinality(InRole(log, e, "corrected"))
          /\ table[e].flagged = Cardinality(InRole(log, e, "flagged"))
      BY <1>1, <2>2 DEF Tallied, AddUp
    <3>2. Cardinality(Sightings(log, e)) \in Nat
      BY <1>1, <1>8, FS_CardinalityType
    <3> QED BY <1>1, <1>3, <1>5, <1>12, <1>14, <2>2, <3>1, <3>2
  <2> QED BY <2>1, <2>2
<1>16. AddUp(Sighted(table, row), next)
  <2> SUFFICES ASSUME NEW d \in Eqid
               PROVE  IF Sighted(table, row)[d] = NoValue THEN RowsOf(next, d) = {}
                      ELSE /\ Sighted(table, row)[d].seen = Cardinality(Sightings(next, d))
                           /\ Sighted(table, row)[d].corrected = Cardinality(InRole(next, d, "corrected"))
                           /\ Sighted(table, row)[d].flagged = Cardinality(InRole(next, d, "flagged"))
    BY DEF AddUp
  <2>1. CASE d = e
    BY <1>7, <1>15, <2>1
  <2>2. CASE d # e
    <3>1. IF table[d] = NoValue THEN RowsOf(log, d) = {}
          ELSE /\ table[d].seen = Cardinality(Sightings(log, d))
               /\ table[d].corrected = Cardinality(InRole(log, d, "corrected"))
               /\ table[d].flagged = Cardinality(InRole(log, d, "flagged"))
      BY DEF Tallied, AddUp
    <3>2. Sighted(table, row)[d] = table[d]
      BY <1>7, <2>2
    <3> QED BY <1>9, <2>2, <3>1, <3>2
  <2> QED BY <2>1, <2>2
<1>17. ASSUME NEW d \in Eqid PROVE IsFiniteSet(RowsOf(next, d)) /\ IsFiniteSet(Sightings(next, d))
  <2>1. CASE d = e
    BY <1>12, <1>13, <2>1
  <2>2. CASE d # e
    BY <1>8, <1>9, <2>2
  <2> QED BY <2>1, <2>2
<1> QED BY <1>7, <1>16, <1>17 DEF Tallied

\* The first rows of a sheet, and the log that ends with them.
Upto(sheet, i)     == [k \in 1 .. i |-> sheet[k]]
LogUpto(log, sheet, i) == Append(log, Upto(sheet, i))

\* A further upload adds its own places.
LEMMA PlacesGrow ==
  ASSUME NEW log \in Seq(Seq(InventoryRow)), NEW r \in Seq(InventoryRow)
  PROVE  /\ Places(Append(log, r)) = Places(log) \cup ({Len(log) + 1} \X DOMAIN r)
         /\ \A q \in Places(log) : q[1] \in 1 .. Len(log) /\ Append(log, r)[q[1]][q[2]] = log[q[1]][q[2]]
         /\ \A k \in DOMAIN r : Append(log, r)[Len(log) + 1][k] = r[k]
<1>1. /\ Append(log, r) \in Seq(Seq(InventoryRow)) /\ Len(Append(log, r)) = Len(log) + 1
      /\ \A i \in 1 .. Len(log) : Append(log, r)[i] = log[i]
      /\ Append(log, r)[Len(log) + 1] = r
  BY AppendProperties
<1>2. /\ Len(log) \in Nat /\ DOMAIN log = 1 .. Len(log)
      /\ DOMAIN Append(log, r) = 1 .. Len(log) + 1
  BY <1>1, LenProperties
<1>3. \A q : q \in Places(log) <=> \E n \in 1 .. Len(log) : q \in {n} \X DOMAIN log[n]
  BY <1>2 DEF Places
<1>4. \A q : q \in Places(Append(log, r))
             <=> \E n \in 1 .. Len(log) + 1 : q \in {n} \X DOMAIN Append(log, r)[n]
  BY <1>2 DEF Places
<1>5. 1 .. Len(log) + 1 = (1 .. Len(log)) \cup {Len(log) + 1}
  BY <1>2
<1>6. \A q : q \in Places(Append(log, r)) <=> q \in Places(log) \/ q \in {Len(log) + 1} \X DOMAIN r
  BY <1>1, <1>3, <1>4, <1>5
<1>7. \A q \in Places(log) : q[1] \in 1 .. Len(log)
  BY <1>3
<1> QED BY <1>1, <1>6, <1>7

\* The rows of an upload up to one of them.
LEMMA UptoIs ==
  ASSUME NEW r \in Seq(InventoryRow), NEW i \in 0 .. Len(r)
  PROVE  Upto(r, i) \in Seq(InventoryRow) /\ DOMAIN Upto(r, i) = 1 .. i /\ \A k \in 1 .. i : Upto(r, i)[k] = r[k]
<1>1. Len(r) \in Nat /\ \A k \in 1 .. Len(r) : r[k] \in InventoryRow
  BY LenProperties, ElementOfSeq
<1>2. \A k \in 1 .. i : r[k] \in InventoryRow
  BY <1>1
<1>3. Upto(r, i) \in [1 .. i -> InventoryRow]
  BY <1>2 DEF Upto
<1>4. i \in Nat
  BY <1>1
<1> QED BY <1>3, <1>4 DEF Upto

\* A sheet is counted in, row by row.
LEMMA ReportCounts ==
  ASSUME WarehouseBounds, NEW table, NEW log \in Seq(Seq(InventoryRow)), NEW sheet \in Seq(InventoryRow),
         Tallied(table, log)
  PROVE  Tallied(Counting(table, sheet)[Len(sheet)], Append(log, sheet))
<1> DEFINE N == Len(sheet)
           S == {i \in 0 .. N : Tallied(Counting(table, sheet)[i], LogUpto(log, sheet, i))}
<1>1. N \in Nat /\ \A i \in 1 .. N : sheet[i] \in InventoryRow
  BY LenProperties, ElementOfSeq
<1>2. /\ Counting(table, sheet)[0] = table
      /\ \A i \in 1 .. N : Counting(table, sheet)[i] = Sighted(Counting(table, sheet)[i - 1], sheet[i])
  BY <1>1, CountingIs
<1>3. ASSUME NEW i \in 0 .. N
      PROVE  /\ Upto(sheet, i) \in Seq(InventoryRow) /\ DOMAIN Upto(sheet, i) = 1 .. i
             /\ Places(LogUpto(log, sheet, i)) = Places(log) \cup ({Len(log) + 1} \X (1 .. i))
             /\ \A q \in Places(log) : q[1] \in 1 .. Len(log) /\ LogUpto(log, sheet, i)[q[1]][q[2]] = log[q[1]][q[2]]
             /\ \A k \in 1 .. i : LogUpto(log, sheet, i)[Len(log) + 1][k] = sheet[k]
  <2>1. /\ Upto(sheet, i) \in Seq(InventoryRow) /\ DOMAIN Upto(sheet, i) = 1 .. i
        /\ \A k \in 1 .. i : Upto(sheet, i)[k] = sheet[k]
    BY UptoIs
  <2> QED BY <2>1, PlacesGrow DEF LogUpto
<1>4. Len(log) \in Nat
  BY LenProperties
<1>5. 0 \in S
  <2>1. /\ Places(LogUpto(log, sheet, 0)) = Places(log)
        /\ \A q \in Places(log) : LogUpto(log, sheet, 0)[q[1]][q[2]] = log[q[1]][q[2]]
    <3>1. 0 \in 0 .. N BY <1>1
    <3>2. {Len(log) + 1} \X (1 .. 0) = {} OBVIOUS
    <3> QED BY <1>3, <3>1, <3>2
  <2>2. \A e : RowsOf(LogUpto(log, sheet, 0), e) = RowsOf(log, e)
    BY <2>1 DEF RowsOf
  <2>3. ASSUME NEW e
        PROVE  /\ Sightings(LogUpto(log, sheet, 0), e) = Sightings(log, e)
               /\ \A role : InRole(LogUpto(log, sheet, 0), e, role) = InRole(log, e, role)
    <3>1. \A q \in RowsOf(log, e) : LogUpto(log, sheet, 0)[q[1]][q[2]] = log[q[1]][q[2]]
      BY <2>1 DEF RowsOf
    <3>2. ASSUME NEW role PROVE InRole(LogUpto(log, sheet, 0), e, role) = InRole(log, e, role)
      <4>1. \A q : q \in InRole(LogUpto(log, sheet, 0), e, role) <=> q \in InRole(log, e, role)
        BY <2>2, <3>1 DEF InRole
      <4> QED BY <4>1
    <3>3. \A s : s \in Sightings(LogUpto(log, sheet, 0), e) <=> s \in Sightings(log, e)
      BY <2>2, <3>1 DEF Sightings
    <3> QED BY <3>2, <3>3
  <2>4. Tallied(table, LogUpto(log, sheet, 0))
    BY <2>2, <2>3 DEF Tallied, AddUp
  <2> QED BY <1>1, <1>2, <2>4
<1>6. ASSUME NEW i \in 0 .. N - 1, i \in S PROVE i + 1 \in S
  <2> DEFINE p == <<Len(log) + 1, i + 1>>
             now == LogUpto(log, sheet, i)
             next == LogUpto(log, sheet, i + 1)
  <2>1. i \in 0 .. N /\ i + 1 \in 0 .. N /\ i + 1 \in 1 .. N /\ i + 1 - 1 = i
    BY <1>1
  <2>2. /\ Places(now) = Places(log) \cup ({Len(log) + 1} \X (1 .. i))
        /\ \A q \in Places(log) : q[1] \in 1 .. Len(log) /\ now[q[1]][q[2]] = log[q[1]][q[2]]
        /\ \A k \in 1 .. i : now[Len(log) + 1][k] = sheet[k]
    BY <1>3, <2>1
  <2>3. /\ Places(next) = Places(log) \cup ({Len(log) + 1} \X (1 .. i + 1))
        /\ \A q \in Places(log) : next[q[1]][q[2]] = log[q[1]][q[2]]
        /\ \A k \in 1 .. i + 1 : next[Len(log) + 1][k] = sheet[k]
    BY <1>3, <2>1
  <2> HIDE DEF now, next
  <2>4. Joins(now, next, p, sheet[i + 1])
    <3>1. p \notin Places(now)
      <4>1. p \notin Places(log) BY <1>4, <2>2
      <4>2. p \notin {Len(log) + 1} \X (1 .. i) BY <2>1
      <4> QED BY <2>2, <4>1, <4>2
    <3>2. Places(next) = Places(now) \cup {p}
      <4>1. {Len(log) + 1} \X (1 .. i + 1) = ({Len(log) + 1} \X (1 .. i)) \cup {p} BY <2>1
      <4> HIDE DEF p
      <4> QED BY <2>2, <2>3, <4>1
    <3>3. next[p[1]][p[2]] = sheet[i + 1]
      BY <2>1, <2>3
    <3>4. ASSUME NEW q \in Places(now) PROVE next[q[1]][q[2]] = now[q[1]][q[2]]
      <4>1. CASE q \in Places(log)
        BY <2>2, <2>3, <4>1
      <4>2. CASE q \in {Len(log) + 1} \X (1 .. i)
        <5>1. q[1] = Len(log) + 1 /\ q[2] \in 1 .. i /\ q[2] \in 1 .. i + 1
          BY <2>1, <4>2
        <5> QED BY <2>2, <2>3, <5>1
      <4> QED BY <2>2, <4>1, <4>2
    <3> QED BY <3>1, <3>2, <3>3, <3>4 DEF Joins
  <2>5. Tallied(Counting(table, sheet)[i], now)
    BY <1>6 DEF now
  <2>6. Tallied(Sighted(Counting(table, sheet)[i], sheet[i + 1]), next)
    BY <1>1, <2>1, <2>4, <2>5, RowCounts
  <2>7. Counting(table, sheet)[i + 1] = Sighted(Counting(table, sheet)[i], sheet[i + 1])
    BY <1>2, <2>1
  <2> QED BY <2>1, <2>6, <2>7 DEF next
<1>7. 0 .. N \subseteq S
  <2> HIDE DEF S, N
  <2> QED BY <1>1, <1>5, <1>6, IntervalInduction
<1>8. Upto(sheet, N) = sheet
  BY <1>1 DEF Upto
<1>9. Tallied(Counting(table, sheet)[N], LogUpto(log, sheet, N))
  BY <1>1, <1>7
<1> QED BY <1>8, <1>9 DEF LogUpto

(* ---- what is filed ---- *)

\* Of what fetches delivered each transport event is there once, under the first of them, and
\* nothing was kept whole that may not be.
Honest(log) ==
  /\ log.fetches \in Seq(Fetch)
  /\ \A d \in log.carrier : d.fetch \in DOMAIN log.fetches
  /\ \A d, d2 \in log.carrier : <<d.eqid, d.key, d.source>> = <<d2.eqid, d2.key, d2.source>> => d = d2
  /\ \A d \in log.carrier : \A i \in 1 .. d.fetch :
       /\ log.fetches[i].eqid = d.eqid /\ log.fetches[i].source = d.source
       /\ log.fetches[i].payload # NoValue /\ d.key \in log.fetches[i].payload
       => i = d.fetch
  /\ \A i \in DOMAIN log.fetches :
       log.fetches[i].payload # NoValue => log.fetches[i].source \in OptedIn \ Restricted
  /\ \A i \in DOMAIN log.fetches : log.fetches[i].payload # NoValue =>
       \A k \in log.fetches[i].payload : \E d \in log.carrier :
         d.eqid = log.fetches[i].eqid /\ d.key = k /\ d.source = log.fetches[i].source

\* An answer in hand holds no more than its terms allow.
Lawful(answer) ==
  /\ answer.source \in DOMAIN Answers /\ answer.payload \in Payloads
  /\ answer.payload # NoValue => answer.source \in OptedIn \ Restricted

\* Filing one lawful answer keeps the ledger of fetches honest.
LEMMA FiledIsHonest ==
  ASSUME NEW log, Honest(log), NEW e \in Eqid, NEW answer, Lawful(answer)
  PROVE  Honest(Filed(log, e, answer))
<1> DEFINE F == log.fetches
           C == log.carrier
           at == Len(F) + 1
           row == [eqid |-> e, source |-> answer.source, payload |-> answer.payload]
           new == IF answer.payload = NoValue THEN {}
                  ELSE {k \in answer.payload : \A d \in C : <<d.eqid, d.key, d.source>> # <<e, k, answer.source>>}
           Row(k) == [eqid |-> e, key |-> k, source |-> answer.source, fetch |-> at]
           F2 == Append(F, row)
           C2 == C \cup {Row(k) : k \in new}
<1>1. Filed(log, e, answer).fetches = F2 /\ Filed(log, e, answer).carrier = C2
  BY DEF Filed
<1>2. F \in Seq(Fetch) /\ row \in Fetch
  BY DEF Honest, Lawful, Fetch
<1>3. /\ F2 \in Seq(Fetch) /\ Len(F2) = Len(F) + 1 /\ F2[at] = row
      /\ \A i \in 1 .. Len(F) : F2[i] = F[i]
  BY <1>2, AppendProperties
<1>4. Len(F) \in Nat /\ DOMAIN F = 1 .. Len(F) /\ DOMAIN F2 = 1 .. at
  BY <1>2, <1>3, LenProperties
<1>5. \A d \in C : d.fetch \in 1 .. Len(F)
  BY <1>4 DEF Honest
<1>6. /\ row.eqid = e /\ row.source = answer.source /\ row.payload = answer.payload
      /\ \A k : Row(k).eqid = e /\ Row(k).key = k /\ Row(k).source = answer.source /\ Row(k).fetch = at
  OBVIOUS
<1>7. \A k \in new : /\ answer.payload # NoValue /\ k \in answer.payload
                     /\ \A d \in C : ~(d.eqid = e /\ d.key = k /\ d.source = answer.source)
  OBVIOUS
<1>8. ASSUME answer.payload # NoValue, NEW k \in answer.payload, k \notin new
      PROVE  \E d \in C : d.eqid = e /\ d.key = k /\ d.source = answer.source
  BY <1>8
<1> HIDE DEF F2, row, new, Row
<1>9. \A d \in C2 : d.fetch \in DOMAIN F2
  BY <1>4, <1>5, <1>6
<1>10. ASSUME NEW d \in C2, NEW d2 \in C2, d.eqid = d2.eqid, d.key = d2.key, d.source = d2.source
       PROVE  d = d2
  <2>1. CASE d \in C /\ d2 \in C
    BY <1>10, <2>1 DEF Honest
  <2>2. CASE d \in C /\ d2 \notin C
    BY <1>6, <1>7, <1>10, <2>2
  <2>3. CASE d \notin C /\ d2 \in C
    BY <1>6, <1>7, <1>10, <2>3
  <2>4. CASE d \notin C /\ d2 \notin C
    BY <1>6, <1>10, <2>4
  <2> QED BY <2>1, <2>2, <2>3, <2>4
<1>11. ASSUME NEW d \in C2, NEW i \in 1 .. d.fetch, F2[i].eqid = d.eqid, F2[i].source = d.source,
              F2[i].payload # NoValue, d.key \in F2[i].payload
       PROVE  i = d.fetch
  <2>1. CASE d \in C
    <3>1. i \in 1 .. Len(F) /\ F2[i] = F[i]
      BY <1>3, <1>4, <1>5, <2>1
    <3> QED BY <1>11, <2>1, <3>1 DEF Honest
  <2>2. CASE d \notin C
    <3>1. PICK k \in new : d = Row(k)
      BY <2>2
    <3>2. SUFFICES ASSUME i # at PROVE FALSE
      BY <1>6, <3>1
    <3>3. i \in 1 .. Len(F) /\ F2[i] = F[i] /\ i \in DOMAIN F
      BY <1>3, <1>4, <1>6, <3>1, <3>2
    <3>4. PICK old \in C : old.eqid = F[i].eqid /\ old.key = d.key /\ old.source = F[i].source
      BY <1>11, <3>3 DEF Honest
    <3> QED BY <1>6, <1>7, <1>11, <3>1, <3>3, <3>4
  <2> QED BY <2>1, <2>2
<1>12. ASSUME NEW i \in DOMAIN F2, F2[i].payload # NoValue
       PROVE  /\ F2[i].source \in OptedIn \ Restricted
              /\ \A k \in F2[i].payload : \E d \in C2 : d.eqid = F2[i].eqid /\ d.key = k /\ d.source = F2[i].source
  <2>1. CASE i \in 1 .. Len(F)
    <3>1. F2[i] = F[i] /\ i \in DOMAIN F
      BY <1>3, <1>4, <2>1
    <3> QED BY <1>12, <3>1 DEF Honest
  <2>2. CASE i = at
    <3>1. F2[i] = row
      BY <1>3, <2>2
    <3>2. F2[i].source \in OptedIn \ Restricted
      BY <1>6, <1>12, <3>1 DEF Lawful
    <3>3. ASSUME NEW k \in answer.payload
          PROVE  \E d \in C2 : d.eqid = e /\ d.key = k /\ d.source = answer.source
      <4>1. CASE k \in new
        <5>1. Row(k) \in C2 BY <4>1
        <5> QED BY <1>6, <5>1
      <4>2. CASE k \notin new
        BY <1>6, <1>8, <1>12, <3>1, <4>2
      <4> QED BY <4>1, <4>2
    <3> QED BY <1>6, <3>1, <3>2, <3>3
  <2>3. i \in 1 .. Len(F) \/ i = at
    BY <1>4
  <2> QED BY <2>1, <2>2, <2>3
<1> QED BY <1>1, <1>3, <1>9, <1>10, <1>11, <1>12 DEF Honest

\* The recursive function by its equation.
FilingRec(g, e, got, n) ==
  g = [i \in 0 .. n |-> IF i = 0 THEN [fetches |-> fetches, carrier |-> carrier]
                        ELSE IF i \in DOMAIN got THEN Filed(g[i - 1], e, got[i]) ELSE g[i - 1]]

\* The recursive equation of the filing has a solution.
LEMMA FilingExists ==
  ASSUME NEW e, NEW got, NEW N \in Nat
  PROVE  \E g : FilingRec(g, e, got, N)
<1> DEFINE S == {n \in 0 .. N : \E g : FilingRec(g, e, got, n)}
           base == [fetches |-> fetches, carrier |-> carrier]
<1>1. 0 \in S
  <2> DEFINE g == [i \in 0 .. 0 |-> base]
  <2>1. FilingRec(g, e, got, 0)
    BY DEF FilingRec
  <2> QED BY <2>1
<1>2. ASSUME NEW n \in 0 .. N - 1, n \in S PROVE n + 1 \in S
  <2>1. PICK h : FilingRec(h, e, got, n)
    BY <1>2
  <2> DEFINE last == IF n + 1 \in DOMAIN got THEN Filed(h[n], e, got[n + 1]) ELSE h[n]
             g == [i \in 0 .. n + 1 |-> IF i <= n THEN h[i] ELSE last]
  <2>2. \A i \in 0 .. n : h[i] = IF i = 0 THEN base
                                 ELSE IF i \in DOMAIN got THEN Filed(h[i - 1], e, got[i]) ELSE h[i - 1]
    BY <2>1 DEF FilingRec
  <2>3. ASSUME NEW i \in 0 .. n + 1
        PROVE  g[i] = IF i = 0 THEN base
                      ELSE IF i \in DOMAIN got THEN Filed(g[i - 1], e, got[i]) ELSE g[i - 1]
    <3>1. CASE i = 0
      <4>1. g[i] = h[i] /\ i \in 0 .. n BY <3>1
      <4> QED BY <2>2, <3>1, <4>1
    <3>2. CASE i \in 1 .. n
      <4>1. g[i] = h[i] /\ g[i - 1] = h[i - 1] BY <3>2
      <4> QED BY <2>2, <3>2, <4>1
    <3>3. CASE i = n + 1
      <4>1. i - 1 = n /\ i # 0 /\ ~(i <= n) BY <3>3
      <4>2. g[n] = h[n] /\ g[i] = last BY <4>1
      <4> HIDE DEF g
      <4> QED BY <3>3, <4>1, <4>2
    <3> QED BY <3>1, <3>2, <3>3
  <2>4. FilingRec(g, e, got, n + 1)
    <3>1. g = [i \in 0 .. n + 1 |-> g[i]] OBVIOUS
    <3> HIDE DEF g
    <3>2. [i \in 0 .. n + 1 |-> g[i]]
          = [i \in 0 .. n + 1 |-> IF i = 0 THEN base
                                  ELSE IF i \in DOMAIN got THEN Filed(g[i - 1], e, got[i]) ELSE g[i - 1]]
      BY <2>3
    <3> QED BY <3>1, <3>2 DEF FilingRec
  <2> QED BY <2>4
<1>3. 0 .. N \subseteq S
  <2> HIDE DEF S
  <2> QED BY <1>1, <1>2, IntervalInduction
<1> QED BY <1>3

\* Answers are filed one after the other.
LEMMA FilingIs ==
  ASSUME NEW e, NEW got, Len(Sources) \in Nat
  PROVE  /\ Filing(e, got)[0] = [fetches |-> fetches, carrier |-> carrier]
         /\ \A i \in 1 .. Len(Sources) :
              Filing(e, got)[i] = IF i \in DOMAIN got THEN Filed(Filing(e, got)[i - 1], e, got[i])
                                  ELSE Filing(e, got)[i - 1]
<1> DEFINE N == Len(Sources)
           base == [fetches |-> fetches, carrier |-> carrier]
           h == CHOOSE h : h = [i \in 0 .. N |-> IF i = 0 THEN [fetches |-> fetches, carrier |-> carrier]
                                ELSE IF i \in DOMAIN got THEN Filed(h[i - 1], e, got[i]) ELSE h[i - 1]]
<1>1. N \in Nat
  OBVIOUS
<1>2. \E g : g = [i \in 0 .. N |-> IF i = 0 THEN [fetches |-> fetches, carrier |-> carrier]
                                   ELSE IF i \in DOMAIN got THEN Filed(g[i - 1], e, got[i]) ELSE g[i - 1]]
  <2> HIDE DEF N, h
  <2>1. PICK g : FilingRec(g, e, got, N)
    BY <1>1, FilingExists
  <2> QED BY <2>1 DEF FilingRec
<1>3. FilingRec(h, e, got, N)
  BY <1>2 DEF FilingRec
<1>4. Filing(e, got) = h
  BY DEF Filing
<1> HIDE DEF h, N
<1>5. \A i \in 0 .. N : h[i] = IF i = 0 THEN base
                               ELSE IF i \in DOMAIN got THEN Filed(h[i - 1], e, got[i]) ELSE h[i - 1]
  BY <1>3 DEF FilingRec
<1>6. h[0] = base
  <2>1. 0 \in 0 .. N BY DEF N
  <2> QED BY <1>5, <2>1, Zenon
<1>7. ASSUME NEW i \in 1 .. N
      PROVE  h[i] = IF i \in DOMAIN got THEN Filed(h[i - 1], e, got[i]) ELSE h[i - 1]
  <2>1. i \in 0 .. N /\ i # 0 BY DEF N
  <2> QED BY <1>5, <2>1, Zenon
<1> QED BY <1>4, <1>6, <1>7 DEF N

\* Filing what the sources answered keeps the ledger honest.
LEMMA FilingIsHonest ==
  ASSUME WarehouseBounds, Honest([fetches |-> fetches, carrier |-> carrier]),
         NEW e \in Eqid, NEW got, \A i \in DOMAIN got : Lawful(got[i])
  PROVE  Honest(Filing(e, got)[Len(Sources)])
<1> DEFINE N == Len(Sources)
           S == {i \in 0 .. N : Honest(Filing(e, got)[i])}
<1>1. N \in Nat
  BY LenProperties DEF WarehouseBounds
<1>2. /\ Filing(e, got)[0] = [fetches |-> fetches, carrier |-> carrier]
      /\ \A i \in 1 .. N :
           Filing(e, got)[i] = IF i \in DOMAIN got THEN Filed(Filing(e, got)[i - 1], e, got[i])
                               ELSE Filing(e, got)[i - 1]
  BY <1>1, FilingIs
<1>3. 0 \in S
  BY <1>1, <1>2
<1>4. ASSUME NEW i \in 0 .. N - 1, i \in S PROVE i + 1 \in S
  <2>1. i + 1 \in 1 .. N /\ i + 1 - 1 = i /\ i + 1 \in 0 .. N
    BY <1>1
  <2>2. Filing(e, got)[i + 1] = IF i + 1 \in DOMAIN got THEN Filed(Filing(e, got)[i], e, got[i + 1])
                                ELSE Filing(e, got)[i]
    BY <1>2, <2>1
  <2>3. Honest(Filing(e, got)[i])
    BY <1>4
  <2>4. Honest(Filing(e, got)[i + 1])
    BY <2>2, <2>3, FiledIsHonest
  <2> QED BY <2>1, <2>4
<1>5. 0 .. N \subseteq S
  <2> HIDE DEF S, N
  <2> QED BY <1>1, <1>3, <1>4, IntervalInduction
<1> QED BY <1>1, <1>5

(* ---- the steps ---- *)

Placed(t) == t.step \in {"persist", "merge"} => t.of \in Eqid

TasksOK == task \in [Client -> Task] /\ \A c \in Client : Placed(task[c])

CountsOK  == events \in Seq(Seq(InventoryRow)) /\ Len(events) <= MaxEvents /\ Tallied(containers, events)
CachesOK  == DOMAIN owners = Prefix /\ DOMAIN cache = Eqid
FetchesOK == Honest([fetches |-> fetches, carrier |-> carrier])

WarehouseInv == CountsOK /\ CachesOK /\ FetchesOK /\ TasksOK

\* The invariant says more than the property.
LEMMA InvAgrees == ASSUME WarehouseInv PROVE TablesAgree
<1>1. WarehouseTypeOK
  BY DEF WarehouseInv, WarehouseTypeOK, CountsOK, CachesOK, FetchesOK, TasksOK, Placed, Tallied, Tables, Honest
<1>2. CountersAgree
  BY DEF WarehouseInv, CountsOK, Tallied, CountersAgree
<1>3. FetchesAreHonest
  BY DEF WarehouseInv, FetchesOK, Honest, FetchesAreHonest
<1> QED BY <1>1, <1>2, <1>3 DEF TablesAgree

\* One task moves on, the others stand where they were.
LEMMA OneTask ==
  ASSUME TasksOK, NEW c \in Client, NEW t \in Task, Placed(t), task' = [task EXCEPT ![c] = t]
  PROVE  TasksOK'
BY DEF TasksOK, Placed

\* A task that asked nobody yet holds no answer.
LEMMA NothingHeld == <<>> \in HeldAnswers
<1>1. <<>> \in [{} -> KeptAnswers]
  OBVIOUS
<1>2. {} \in SUBSET DOMAIN Sources
  OBVIOUS
<1> QED BY <1>1, <1>2, Zenon DEF HeldAnswers

\* A client without a task is in a state of the type.
LEMMA AtRest == NoTask \in Task /\ Placed(NoTask)
BY NothingHeld DEF Task, Placed, NoTask, TaskSteps

\* An upload keeps the counters right.
LEMMA Counted ==
  ASSUME WarehouseBounds, CountsOK, Len(events) < MaxEvents, NEW sheet \in Seq(InventoryRow), Record(sheet)
  PROVE  CountsOK'
<1>1. Tallied(containers', events')
  BY ReportCounts DEF CountsOK, Record
<1>2. events' \in Seq(Seq(InventoryRow)) /\ Len(events') = Len(events) + 1
  BY AppendProperties DEF CountsOK, Record
<1>3. Len(events) \in Nat /\ MaxEvents \in Nat
  BY LenProperties DEF CountsOK, WarehouseBounds
<1> QED BY <1>1, <1>2, <1>3 DEF CountsOK

\* The counters depend on uploads alone.
LEMMA CountsStay == ASSUME CountsOK, UNCHANGED <<events, containers>> PROVE CountsOK'
BY DEF CountsOK

\* The ledger of fetches depends on itself alone.
LEMMA FetchesStay == ASSUME FetchesOK, UNCHANGED <<fetches, carrier>> PROVE FetchesOK'
BY DEF FetchesOK

\* An enrichment adds no container and no owner to the tables.
LEMMA Upserted ==
  ASSUME CachesOK, NEW e, NEW data, Upsert(e, data)
  PROVE  CachesOK'
<1>1. DOMAIN cache' = DOMAIN cache
  BY DEF Upsert
<1>2. DOMAIN owners' = DOMAIN owners
  BY DEF Upsert, NamedOwner
<1> QED BY <1>1, <1>2 DEF CachesOK

\* A task that is over, by its own or because it failed.
LEMMA RestKeeps ==
  ASSUME TasksOK, NEW c \in Client, task' = [task EXCEPT ![c] = NoTask]
  PROVE  TasksOK'
BY OneTask, AtRest

\* A rejected upload is kept without rows.
LEMMA RejectKeeps == ASSUME WarehouseBounds, WarehouseInv, NEW c \in Client, Reject(c) PROVE WarehouseInv'
<1>1. CountsOK'
  <2>1. <<>> \in Seq(InventoryRow)
    OBVIOUS
  <2> QED BY <2>1, Counted DEF Reject, Idle, WarehouseInv
<1>2. TasksOK'
  <2> DEFINE t == [task[c] EXCEPT !.step = "rejected"]
  <2>1. task \in [Client -> Task]
    BY DEF WarehouseInv, TasksOK
  <2>2. t \in Task /\ t.step = "rejected"
    BY <2>1 DEF Task, TaskSteps
  <2>3. task' = [task EXCEPT ![c] = t]
    BY DEF Reject
  <2> HIDE DEF t
  <2>4. Placed(t)
    BY <2>2 DEF Placed
  <2> QED BY <2>2, <2>3, <2>4, OneTask DEF WarehouseInv
<1> QED BY <1>1, <1>2, FetchesStay DEF WarehouseInv, Reject, CachesOK

\* An upload counts its rows and starts a task.
LEMMA UploadKeeps ==
  ASSUME WarehouseBounds, WarehouseInv, NEW c \in Client, NEW sheet \in Reports, ProcessUpload(c, sheet)
  PROVE  WarehouseInv'
<1>1. sheet \in Seq(InventoryRow)
  BY DEF WarehouseBounds
<1>2. CountsOK'
  BY <1>1, Counted DEF ProcessUpload, Idle, WarehouseInv
<1>3. TasksOK'
  <2> DEFINE ids == {sheet[i].eqid : i \in DOMAIN sheet}
             t == [NoTask EXCEPT !.step = "owners", !.left = ids, !.all = ids]
  <2>1. ids \subseteq Eqid
    <3>1. \A i \in DOMAIN sheet : sheet[i] \in InventoryRow
      BY <1>1, LenProperties, ElementOfSeq
    <3> QED BY <3>1 DEF InventoryRow
  <2>2. task' = [task EXCEPT ![c] = t]
    BY DEF ProcessUpload
  <2> HIDE DEF ids
  <2>3. t \in Task /\ t.step = "owners"
    BY <2>1, AtRest DEF Task, NoTask, TaskSteps
  <2> HIDE DEF t
  <2>4. Placed(t)
    BY <2>3 DEF Placed
  <2> QED BY <2>2, <2>3, <2>4, OneTask DEF WarehouseInv
<1> QED BY <1>2, <1>3, FetchesStay DEF WarehouseInv, ProcessUpload, CachesOK

\* A task that only has fewer containers left, or goes to another step.
LEMMA MovesOn ==
  ASSUME TasksOK, NEW c \in Client, NEW s \in TaskSteps, NEW l \in SUBSET Eqid,
         s \in {"persist", "merge"} => task[c].of \in Eqid,
         task' = [task EXCEPT ![c] = [task[c] EXCEPT !.step = s, !.left = l]]
  PROVE  TasksOK'
<1> DEFINE t == [task[c] EXCEPT !.step = s, !.left = l]
<1>1. task[c] \in Task
  BY DEF TasksOK
<1>2. t \in Task /\ t.step = s /\ t.of = task[c].of
  BY <1>1 DEF Task
<1> HIDE DEF t
<1>3. Placed(t)
  BY <1>2 DEF Placed
<1> QED BY <1>2, <1>3, OneTask DEF t

\* A task fills in the owner of a container.
LEMMA EnrichKeeps == ASSUME WarehouseInv, NEW c \in Client, EnrichOwner(c) PROVE WarehouseInv'
<1>1. PICK e \in task[c].left :
        /\ LET name == IF PrefixOf[e] = NoValue THEN NoValue ELSE Registry[PrefixOf[e]]
           IN  IF name = NoValue THEN UNCHANGED <<cache, owners>>
               ELSE Upsert(e, [owner |-> name, source |-> {"registry"}, details |-> NoValue])
        /\ task' = [task EXCEPT ![c].left = @ \ {e}]
  BY DEF EnrichOwner
<1>2. CachesOK'
  BY <1>1, Upserted DEF CachesOK, WarehouseInv
<1>3. TasksOK'
  <2>1. task \in [Client -> Task] /\ task[c] \in Task /\ Placed(task[c])
    BY DEF WarehouseInv, TasksOK
  <2>2. task' = [task EXCEPT ![c] = [task[c] EXCEPT !.step = task[c].step, !.left = task[c].left \ {e}]]
    BY <1>1, <2>1 DEF Task
  <2>3. task[c].left \ {e} \in SUBSET Eqid
    BY <2>1 DEF Task
  <2>4. task[c].step \in {"persist", "merge"} => task[c].of \in Eqid
    BY <2>1 DEF Placed
  <2>5. task[c].step \in TaskSteps
    BY <2>1 DEF Task
  <2> HIDE DEF TaskSteps
  <2> QED BY <2>2, <2>3, <2>4, <2>5, MovesOn DEF WarehouseInv
<1> QED BY <1>2, <1>3, FetchesStay, CountsStay DEF WarehouseInv, EnrichOwner

\* An answer leaves the tables alone.
LEMMA RespondKeeps == ASSUME WarehouseInv, NEW c \in Client, Respond(c) PROVE WarehouseInv'
<1>1. TasksOK'
  <2>1. task \in [Client -> Task] /\ task[c] \in Task /\ Placed(task[c])
    BY DEF WarehouseInv, TasksOK
  <2>2. task' = [task EXCEPT ![c] = [task[c] EXCEPT !.step = "ask", !.left = task[c].all]]
    BY <2>1 DEF Respond, Task
  <2>3. task[c].all \in SUBSET Eqid /\ "ask" \in TaskSteps
    BY <2>1 DEF Task, TaskSteps
  <2> QED BY <2>2, <2>3, MovesOn DEF WarehouseInv
<1> QED BY <1>1, FetchesStay, CountsStay DEF WarehouseInv, Respond, CachesOK

\* What a source answers is cut down to what may be kept before it is passed on.
LEMMA KeptIsLawful == ASSUME NEW answer \in KeptAnswers PROVE Lawful(answer)
<1>1. PICK s \in DOMAIN Answers : \E told \in Answers[s] : answer = Kept(s, told)
  BY DEF KeptAnswers
<1> PICK told \in Answers[s] : answer = Kept(s, told)
  BY <1>1
<1>2. answer.source = s
      /\ answer.payload = IF s \in OptedIn \ Restricted THEN told.keys ELSE NoValue
  BY DEF Kept
<1>3. told.keys \in Payloads /\ NoValue \in Payloads
  BY DEF Payloads
<1> QED BY <1>2, <1>3 DEF Lawful

\* A task holds lawful answers only.
LEMMA HeldIsLawful == ASSUME NEW got \in HeldAnswers, NEW i \in DOMAIN got PROVE Lawful(got[i])
<1>1. got[i] \in KeptAnswers
  BY DEF HeldAnswers
<1> QED BY <1>1, KeptIsLawful

\* Asking the sources changes what the task holds.
LEMMA AskKeeps == ASSUME WarehouseBounds, WarehouseInv, NEW c \in Client, AskSources(c) PROVE WarehouseInv'
<1>1. PICK e \in task[c].left :
        \E told \in [DOMAIN Sources -> UNION {Answers[Sources[i]] : i \in DOMAIN Sources} \cup {NoValue}] :
          /\ \A i \in DOMAIN Sources : told[i] \in Answers[Sources[i]] \cup {NoValue}
          /\ LET some == {i \in DOMAIN Sources : told[i] # NoValue}
             IN  task' = [task EXCEPT ![c].left = @ \ {e}, ![c].of = e,
                                      ![c].got = [i \in some |-> Kept(Sources[i], told[i])],
                                      ![c].step = IF some = {} THEN "ask" ELSE "persist"]
  BY DEF AskSources
<1>2. PICK told \in [DOMAIN Sources -> UNION {Answers[Sources[i]] : i \in DOMAIN Sources} \cup {NoValue}] :
        /\ \A i \in DOMAIN Sources : told[i] \in Answers[Sources[i]] \cup {NoValue}
        /\ LET some == {i \in DOMAIN Sources : told[i] # NoValue}
           IN  task' = [task EXCEPT ![c].left = @ \ {e}, ![c].of = e,
                                    ![c].got = [i \in some |-> Kept(Sources[i], told[i])],
                                    ![c].step = IF some = {} THEN "ask" ELSE "persist"]
  BY <1>1, Zenon
<1> DEFINE some == {i \in DOMAIN Sources : told[i] # NoValue}
           got == [i \in some |-> Kept(Sources[i], told[i])]
           s == IF some = {} THEN "ask" ELSE "persist"
           t == [task[c] EXCEPT !.left = @ \ {e}, !.of = e, !.got = got, !.step = s]
<1>3. \A i \in DOMAIN Sources : Sources[i] \in DOMAIN Answers
  BY LenProperties, ElementOfSeq DEF WarehouseBounds
<1>4. got \in HeldAnswers
  <2>1. ASSUME NEW i \in some PROVE Kept(Sources[i], told[i]) \in KeptAnswers
    <3> DEFINE answer == told[i]
               source == Sources[i]
    <3>1. source \in DOMAIN Answers /\ answer \in Answers[source]
      BY <1>2, <1>3
    <3> HIDE DEF answer, source
    <3>2. Kept(source, answer) \in {Kept(source, x) : x \in Answers[source]}
      BY <3>1
    <3>3. {Kept(source, x) : x \in Answers[source]} \in {{Kept(s2, x) : x \in Answers[s2]} : s2 \in DOMAIN Answers}
      BY <3>1
    <3>4. Kept(source, answer) \in KeptAnswers
      BY <3>2, <3>3 DEF KeptAnswers
    <3> QED BY <3>4 DEF answer, source
  <2>2. got \in [some -> KeptAnswers] /\ some \in SUBSET DOMAIN Sources
    BY <2>1
  <2> HIDE DEF some, got
  <2> QED BY <2>2 DEF HeldAnswers
<1>5. task' = [task EXCEPT ![c].left = @ \ {e}, ![c].of = e, ![c].got = got, ![c].step = s]
  BY <1>2
<1>6. s \in {"ask", "persist"}
  OBVIOUS
<1> HIDE DEF some, got, s
<1>7. task \in [Client -> Task] /\ task[c] \in Task
  BY DEF WarehouseInv, TasksOK
<1>8. task' = [task EXCEPT ![c] = t]
  BY <1>5, <1>7
<1>9. t \in Task /\ t.of = e /\ e \in Eqid
  BY <1>4, <1>6, <1>7 DEF Task, TaskSteps
<1>10. TasksOK'
  <2> HIDE DEF t
  <2>1. Placed(t)
    BY <1>9 DEF Placed
  <2> QED BY <1>8, <1>9, <2>1, OneTask DEF WarehouseInv
<1> QED BY <1>10, FetchesStay, CountsStay DEF WarehouseInv, AskSources, CachesOK

\* A task files what it holds.
LEMMA PersistKeeps == ASSUME WarehouseBounds, WarehouseInv, NEW c \in Client, Persist(c) PROVE WarehouseInv'
<1>1. task \in [Client -> Task] /\ task[c] \in Task /\ Placed(task[c])
  BY DEF WarehouseInv, TasksOK
<1>2. FetchesOK'
  <2> DEFINE log == Filing(task[c].of, task[c].got)[Len(Sources)]
  <2>1. task[c].of \in Eqid /\ \A i \in DOMAIN task[c].got : Lawful(task[c].got[i])
    BY <1>1, HeldIsLawful DEF Persist, Placed, Task
  <2>2. Honest(log)
    BY <2>1, FilingIsHonest DEF WarehouseInv, FetchesOK
  <2>3. fetches' = log.fetches /\ carrier' = log.carrier
    BY DEF Persist
  <2> HIDE DEF log
  <2> QED BY <2>2, <2>3 DEF FetchesOK, Honest
<1>3. TasksOK'
  <2>1. task' = [task EXCEPT ![c] = [task[c] EXCEPT !.step = "merge", !.left = task[c].left]]
    BY <1>1 DEF Persist, Task
  <2>2. task[c].left \in SUBSET Eqid /\ "merge" \in TaskSteps /\ task[c].of \in Eqid
    BY <1>1 DEF Persist, Placed, Task, TaskSteps
  <2> QED BY <2>1, <2>2, MovesOn DEF WarehouseInv
<1> QED BY <1>2, <1>3, CountsStay DEF WarehouseInv, Persist, CachesOK

\* A task merges what it filed into the cache.
LEMMA MergeKeeps == ASSUME WarehouseInv, NEW c \in Client, Merge(c) PROVE WarehouseInv'
<1>1. task \in [Client -> Task] /\ task[c] \in Task /\ Placed(task[c])
  BY DEF WarehouseInv, TasksOK
<1>2. CachesOK'
  BY Upserted DEF Merge, WarehouseInv
<1>3. TasksOK'
  <2> DEFINE t == [task[c] EXCEPT !.step = "ask", !.got = <<>>, !.of = NoValue]
  <2>1. task' = [task EXCEPT ![c] = t]
    BY <1>1 DEF Merge
  <2>2. t \in Task /\ t.step = "ask"
    BY <1>1, NothingHeld DEF Task, TaskSteps
  <2> HIDE DEF t
  <2>3. Placed(t)
    BY <2>2 DEF Placed
  <2> QED BY <2>1, <2>2, <2>3, OneTask DEF WarehouseInv
<1> QED BY <1>2, <1>3, FetchesStay, CountsStay DEF WarehouseInv, Merge

\* A task that fails or finishes leaves the tables as they are.
LEMMA EndKeeps == ASSUME WarehouseInv, NEW c \in Client, TaskFails(c) \/ Finish(c) PROVE WarehouseInv'
<1>1. TasksOK'
  BY RestKeeps DEF TaskFails, Finish, WarehouseInv
<1> QED BY <1>1, FetchesStay, CountsStay DEF WarehouseInv, TaskFails, Finish, CachesOK

\* Empty tables agree.
LEMMA WarehouseStarts == ASSUME WarehouseBounds, WarehouseInit PROVE WarehouseInv
<1>1. CountsOK
  <2>1. <<>> \in Seq(Seq(InventoryRow)) /\ Len(<<>>) = 0 /\ DOMAIN <<>> = {}
    OBVIOUS
  <2>2. Places(<<>>) = {}
    BY DEF Places
  <2>3. \A e : RowsOf(<<>>, e) = {}
    BY <2>2 DEF RowsOf
  <2>4. \A e : Sightings(<<>>, e) = {}
    BY <2>3 DEF Sightings
  <2>5. IsFiniteSet({})
    BY FS_EmptySet
  <2>6. containers \in Tables /\ \A e \in Eqid : containers[e] = NoValue
    BY DEF WarehouseInit, Tables
  <2>7. Tallied(containers, <<>>)
    BY <2>3, <2>4, <2>5, <2>6 DEF Tallied, AddUp
  <2>8. events = <<>> /\ 0 <= MaxEvents
    BY DEF WarehouseInit, WarehouseBounds
  <2> QED BY <2>1, <2>7, <2>8 DEF CountsOK
<1>2. CachesOK
  BY DEF WarehouseInit, CachesOK
<1>3. FetchesOK
  BY DEF WarehouseInit, FetchesOK, Honest
<1>4. TasksOK
  BY AtRest DEF WarehouseInit, TasksOK
<1> QED BY <1>1, <1>2, <1>3, <1>4 DEF WarehouseInv

\* Every step of the warehouse keeps the invariant.
LEMMA WarehouseKeeps == ASSUME WarehouseBounds, WarehouseInv, [WarehouseNext]_warehouseVars PROVE WarehouseInv'
<1>1. ASSUME NEW c \in Client, Reject(c) PROVE WarehouseInv'
  BY <1>1, RejectKeeps
<1>2. ASSUME NEW c \in Client, NEW r \in Reports, ProcessUpload(c, r) PROVE WarehouseInv'
  BY <1>2, UploadKeeps
<1>3. ASSUME NEW c \in Client, EnrichOwner(c) PROVE WarehouseInv'
  BY <1>3, EnrichKeeps
<1>4. ASSUME NEW c \in Client, Respond(c) PROVE WarehouseInv'
  BY <1>4, RespondKeeps
<1>5. ASSUME NEW c \in Client, AskSources(c) PROVE WarehouseInv'
  BY <1>5, AskKeeps
<1>6. ASSUME NEW c \in Client, Persist(c) PROVE WarehouseInv'
  BY <1>6, PersistKeeps
<1>7. ASSUME NEW c \in Client, Merge(c) PROVE WarehouseInv'
  BY <1>7, MergeKeeps
<1>8. ASSUME NEW c \in Client, TaskFails(c) \/ Finish(c) PROVE WarehouseInv'
  BY <1>8, EndKeeps
<1>9. CASE UNCHANGED warehouseVars
  <2>1. CountsOK' /\ FetchesOK'
    BY <1>9, CountsStay, FetchesStay DEF warehouseVars, WarehouseInv
  <2> QED BY <1>9, <2>1 DEF warehouseVars, WarehouseInv, CachesOK, TasksOK
<1> QED BY <1>1, <1>2, <1>3, <1>4, <1>5, <1>6, <1>7, <1>8, <1>9 DEF WarehouseNext

\* The counters of each container are what its rows in all events add up to; a transport event
\* is stored once, under the first fetch that delivered it; no response is kept whole that its
\* terms or the operator do not allow (record_event, record_carrier_events, storage_policy_for).
THEOREM CountersNeverDrift ==
  ASSUME WarehouseBounds PROVE WarehouseSpec => []TablesAgree
<1>1. WarehouseInit => WarehouseInv
  BY WarehouseStarts
<1>2. WarehouseInv /\ [WarehouseNext]_warehouseVars => WarehouseInv'
  BY WarehouseKeeps
<1>3. WarehouseInv => TablesAgree
  BY InvAgrees
<1> QED BY <1>1, <1>2, <1>3, PTL DEF WarehouseSpec

(* ---- proposals ---- *)

CONSTANTS Fleets, Tokens, PerProbe
VARIABLES fleet, token, probe, found, cut, proposals

N == INSTANCE NearMiss

\* Two sequences that agree from one place to another have the same part there.
LEMMA SamePart ==
  ASSUME NEW C, NEW s \in Seq(C), NEW t \in Seq(C), NEW m \in Nat \ {0}, NEW n \in Nat, n <= Len(s), n <= Len(t),
         \A i \in m .. n : s[i] = t[i]
  PROVE  SubSeq(s, m, n) = SubSeq(t, m, n)
<1>1. SubSeq(s, m, n) = [i \in 1 .. (n - m + 1) |-> s[i + m - 1]]
  OBVIOUS
<1>2. SubSeq(t, m, n) = [i \in 1 .. (n - m + 1) |-> t[i + m - 1]]
  OBVIOUS
<1>3. \A i \in 1 .. (n - m + 1) : i + m - 1 \in m .. n
  OBVIOUS
<1> QED BY <1>1, <1>2, <1>3

\* The body of a number, character by character.
LEMMA BodyIs ==
  ASSUME NEW C, NEW t \in Seq(C), Len(t) >= 10
  PROVE  /\ N!Body(t) \in Seq(C) /\ Len(N!Body(t)) = 10 /\ DOMAIN N!Body(t) = 1 .. 10
         /\ \A i \in 1 .. 10 : N!Body(t)[i] = t[i]
<1>1. Len(t) \in Nat
  BY LenProperties
<1>2. N!Body(t) = [i \in 1 .. 10 |-> t[i]]
  BY <1>1 DEF N!Body
<1>3. \A i \in 1 .. 10 : t[i] \in C
  BY <1>1, LenProperties
<1> QED BY <1>2, <1>3

\* No letter is a digit, so that what stands where is told apart.
LEMMA LettersAreNoDigits == N!Letter \cap N!Digit = {}
BY DEF N!Letter, N!Digit, N!Digits, N!LetterValue, N!Range

\* One of the probes meets a number that is one slip away.
LEMMA SlipIsHit ==
  ASSUME NEW C, token \in Seq(C), Len(token) >= 10, N!BodyShaped(N!Body(token)),
         NEW row \in Seq(C), Len(row) = 11, N!BodyShaped(N!Body(row)),
         N!Slip(N!Body(token), N!Body(row))
  PROVE  \E n \in 1 .. N!Probes : N!Hits(n, row)
<1> DEFINE b == N!Body(token)
           r == N!Body(row)
<1>1. b \in Seq(C) /\ Len(b) = 10 /\ DOMAIN b = 1 .. 10
  BY BodyIs
<1>2. r \in Seq(C) /\ Len(r) = 10 /\ DOMAIN r = 1 .. 10 /\ (\A i \in 1 .. 10 : r[i] = row[i]) /\ r = SubSeq(row, 1, 10)
  <2>1. Len(row) >= 10
    OBVIOUS
  <2> QED BY <2>1, BodyIs DEF N!Body
<1>3. N!Probes = 13
  BY DEF N!Probes
<1>4. N!Slip(b, r) /\ N!BodyShaped(b) /\ N!BodyShaped(r)
  OBVIOUS
<1>5. /\ N!Hits(1, row) <=> SubSeq(row, 5, 10) = SubSeq(b, 5, 10)
      /\ \A n \in 3 .. 8 : N!Hits(n, row) <=> /\ N!Begins(row, SubSeq(b, 1, n + 1))
                                              /\ SubSeq(row, n + 3, 10) = SubSeq(b, n + 3, 10)
      /\ \A n \in 9 .. 13 : N!Hits(n, row) <=> N!SwapAt(b, n - 4) # b /\ N!Begins(row, N!SwapAt(b, n - 4))
  BY DEF N!Hits
<1> HIDE DEF b, r
<1>6. ASSUME NEW m \in 1 .. 11, NEW n \in 0 .. 10, \A i \in m .. n : r[i] = b[i]
      PROVE  SubSeq(row, m, n) = SubSeq(b, m, n)
  <2>1. m \in Nat \ {0} /\ n \in Nat /\ n <= Len(row) /\ n <= Len(b) /\ \A i \in m .. n : i \in 1 .. 10
    BY <1>1
  <2>2. \A i \in m .. n : row[i] = b[i]
    BY <1>2, <1>6, <2>1
  <2> QED BY <1>1, <2>1, <2>2, SamePart
<1>7. CASE \A i \in 5 .. 10 : r[i] = b[i]
  BY <1>3, <1>5, <1>6, <1>7
<1>8. ASSUME NEW p \in 5 .. 10, \A i \in 1 .. 10 : i # p => r[i] = b[i]
      PROVE  \E n \in 1 .. 13 : N!Hits(n, row)
  <2> DEFINE n == p - 2
  <2>1. n \in 3 .. 8 /\ n \in 1 .. 13 /\ n + 1 \in 0 .. 10 /\ n + 3 \in 1 .. 11
        /\ (\A i \in 1 .. n + 1 : i \in 1 .. 10 /\ i # p) /\ (\A i \in n + 3 .. 10 : i \in 1 .. 10 /\ i # p)
    OBVIOUS
  <2> HIDE DEF n
  <2>2. SubSeq(row, 1, n + 1) = SubSeq(b, 1, n + 1) /\ SubSeq(row, n + 3, 10) = SubSeq(b, n + 3, 10)
    <3>1. (\A i \in 1 .. n + 1 : r[i] = b[i]) /\ (\A i \in n + 3 .. 10 : r[i] = b[i])
      BY <1>8, <2>1
    <3>2. 1 \in 1 .. 11 /\ 10 \in 0 .. 10
      OBVIOUS
    <3> QED BY <1>6, <2>1, <3>1, <3>2
  <2>3. Len(SubSeq(b, 1, n + 1)) = n + 1
    <3>1. ASSUME NEW k \in 0 .. 10 PROVE Len(SubSeq(b, 1, k)) = k
      BY <1>1
    <3> QED BY <2>1, <3>1
  <2>4. N!Begins(row, SubSeq(b, 1, n + 1))
    BY <2>2, <2>3 DEF N!Begins
  <2> QED BY <1>5, <2>1, <2>2, <2>4
<1>9. CASE Cardinality(N!Apart(b, r)) <= 1
  <2> DEFINE S == N!Apart(b, r)
  <2>1. S \subseteq 1 .. 10 /\ \A i \in 1 .. 10 : i \in S <=> b[i] # r[i]
    BY <1>1 DEF N!Apart
  <2> HIDE DEF S
  <2>2. IsFiniteSet(S)
    <3>1. \A n \in Nat : IsFiniteSet(1 .. n)
      BY FS_Interval
    <3> QED BY <2>1, <3>1, FS_Subset
  <2>3. S = {} \/ \E x : S = {x}
    <3>1. Cardinality(S) \in Nat /\ Cardinality(S) <= 1
      BY <1>9, <2>2, FS_CardinalityType DEF S
    <3>2. Cardinality(S) = 0 \/ Cardinality(S) = 1
      BY <3>1
    <3>3. Cardinality(S) = 0 => S = {}
      BY <2>2, FS_EmptySet
    <3>4. Cardinality(S) = 1 => \E x : S = {x}
      BY <2>2, FS_Singleton
    <3> QED BY <3>2, <3>3, <3>4
  <2>4. CASE S \cap 5 .. 10 = {}
    <3>1. \A i \in 5 .. 10 : r[i] = b[i]
      BY <2>1, <2>4
    <3> QED BY <1>7, <3>1
  <2>5. CASE S \cap 5 .. 10 # {}
    <3>1. PICK p \in 5 .. 10 : S = {p}
      BY <2>3, <2>5
    <3>2. \A i \in 1 .. 10 : i # p => r[i] = b[i]
      BY <2>1, <3>1
    <3> QED BY <1>3, <1>8, <3>2
  <2> QED BY <2>4, <2>5
<1>10. CASE N!Swapped(b, r)
  <2>1. PICK i \in 1 .. 9 : N!Apart(b, r) = {i, i + 1} /\ r = N!SwapAt(b, i)
    BY <1>10 DEF N!Swapped
  <2>2. /\ r[i] = b[i + 1] /\ r[i + 1] = b[i] /\ b[i] # r[i]
        /\ \A k \in 1 .. 10 : k \notin {i, i + 1} => r[k] = b[k]
    BY <1>1, <2>1 DEF N!SwapAt, N!Apart
  <2>3. CASE i \in 1 .. 3
    <3>1. \A k \in 5 .. 10 : r[k] = b[k]
      BY <2>2, <2>3
    <3> QED BY <1>7, <3>1
  <2>4. CASE i = 4
    <3>1. ASSUME NEW t \in Seq(C), Len(t) = 10, N!BodyShaped(t) PROVE t[4] \in N!Letter /\ t[5] \in N!Digit
      <4>1. SubSeq(t, 1, 4)[4] = t[4] /\ 4 \in DOMAIN SubSeq(t, 1, 4) /\ SubSeq(t, 5, 10)[1] = t[5] /\ 1 \in DOMAIN SubSeq(t, 5, 10)
        BY <3>1
      <4> QED BY <3>1, <4>1 DEF N!BodyShaped, N!AllIn
    <3>2. b[4] \in N!Letter /\ r[5] \in N!Digit
      BY <1>1, <1>2, <1>4, <3>1
    <3> QED BY <2>2, <2>4, <3>2, LettersAreNoDigits
  <2>5. CASE i \in 5 .. 9
    <3> DEFINE n == i + 4
    <3>1. n \in 9 .. 13 /\ n - 4 = i /\ n \in 1 .. 13
      BY <2>5
    <3> HIDE DEF n
    <3>2. N!SwapAt(b, i) # b
      BY <2>1, <2>2
    <3>3. N!Begins(row, N!SwapAt(b, i))
      BY <1>2, <2>1 DEF N!Begins
    <3> QED BY <1>3, <1>5, <3>1, <3>2, <3>3
  <2>6. i \in 1 .. 3 \/ i = 4 \/ i \in 5 .. 9
    OBVIOUS
  <2> QED BY <2>3, <2>4, <2>5, <2>6, Zenon
<1>11. N!Cardinality(N!Apart(b, r)) = Cardinality(N!Apart(b, r))
  BY DEF N!Cardinality, Cardinality
<1> QED BY <1>4, <1>9, <1>10, <1>11 DEF N!Slip

\* The probes made so far found what they looked for, unless they left rows out.
MetInv ==
  /\ fleet \in Fleets /\ token \in Tokens /\ probe \in Nat
  /\ \A n \in 1 .. (probe - 1) : n \notin cut => \A row \in DOMAIN fleet : N!Hits(n, row) => row \in found

\* A probe finds its rows or is marked.
LEMMA ProbeKeeps ==
  ASSUME MetInv, [N!Next]_N!nearVars
  PROVE  MetInv'
<1>1. CASE N!Probe
  <2>1. /\ probe' = probe + 1 /\ fleet' = fleet /\ token' = token
    BY <1>1 DEF N!Probe
  <2> DEFINE hits == {row \in DOMAIN fleet : N!Hits(probe, row)}
  <2>2. PICK rows \in SUBSET hits : found' = found \cup rows /\ cut' = IF rows = hits THEN cut ELSE cut \cup {probe}
    BY <1>1 DEF N!Probe
  <2>3. cut \subseteq cut' /\ found \subseteq found' /\ (probe \notin cut' => hits \subseteq found')
    BY <2>2
  <2>4. \A n \in 1 .. (probe' - 1) : n \in 1 .. (probe - 1) \/ n = probe
    BY <2>1 DEF MetInv
  <2>5. \A n, row : N!Hits(n, row)' <=> N!Hits(n, row)
    BY <2>1 DEF N!Hits
  <2>6. \A row \in DOMAIN fleet : N!Hits(probe, row) => row \in hits
    OBVIOUS
  <2> HIDE DEF hits
  <2>7. ASSUME NEW n \in 1 .. (probe' - 1), n \notin cut', NEW row \in DOMAIN fleet, N!Hits(n, row) PROVE row \in found'
    <3>1. CASE n = probe
      BY <2>3, <2>6, <2>7, <3>1
    <3>2. CASE n \in 1 .. (probe - 1)
      BY <2>3, <2>7, <3>2 DEF MetInv
    <3> QED BY <2>4, <3>1, <3>2
  <2> QED BY <2>1, <2>5, <2>7 DEF MetInv
<1>2. CASE N!Suggest \/ UNCHANGED N!nearVars
  <2>1. UNCHANGED <<fleet, token, probe, found, cut>>
    BY <1>2 DEF N!Suggest, N!nearVars
  <2>2. \A n, row : N!Hits(n, row)' <=> N!Hits(n, row)
    BY <2>1 DEF N!Hits
  <2> QED BY <2>1, <2>2 DEF MetInv
<1> QED BY <1>1, <1>2 DEF N!Next

(***************************************************************************)
(* For any table and any number at hand: unless a probe left rows out, the *)
(* thirteen probes together meet every number seen that one misread        *)
(* character, or two swapped neighbours, make of it (candidate_neighbors). *)
(***************************************************************************)
THEOREM EverySlipIsMet ==
  ASSUME NEW C, N!NumbersAreShaped(C)
  PROVE  N!Spec => []N!SlipsAreMet
<1>1. N!Init => MetInv
  BY DEF N!Init, MetInv
<1>2. MetInv /\ [N!Next]_N!nearVars => MetInv'
  BY ProbeKeeps
<1>3. MetInv => N!SlipsAreMet
  <2> SUFFICES ASSUME MetInv, probe > N!Probes, cut = {}, NEW row \in DOMAIN fleet, N!Slip(N!Body(token), N!Body(row))
               PROVE  row \in found
    BY DEF N!SlipsAreMet
  <2>1. /\ token \in Seq(C) /\ Len(token) >= 10 /\ N!BodyShaped(N!Body(token))
        /\ row \in Seq(C) /\ Len(row) = 11 /\ N!BodyShaped(N!Body(row))
    BY DEF MetInv, N!NumbersAreShaped
  <2>2. PICK n \in 1 .. N!Probes : N!Hits(n, row)
    BY <2>1, SlipIsHit
  <2>3. n \in 1 .. (probe - 1) /\ n \notin cut
    BY DEF MetInv, N!Probes
  <2> QED BY <2>2, <2>3 DEF MetInv
<1> QED BY <1>1, <1>2, <1>3, PTL DEF N!Spec
=============================================================================
