------------------------------- MODULE Kernel --------------------------------
(***************************************************************************)
(* The check-digit kernel (equipment_checkdigit.py) under the operator's   *)
(* rules (policy.py), as operators.                                        *)
(*                                                                         *)
(* A token is a sequence of characters.  A result is a record: its status, *)
(* the kind of identifier, the normalized token, the check digit printed   *)
(* and the one computed (None when there is none) and the corrected token  *)
(* (<<>> unless the status is corrected).                                  *)
(***************************************************************************)
EXTENDS Integers, Sequences, FiniteSets, SequencesExt, FiniteSetsExt

CONSTANT None   \* no policy, no digit

(* ---- characters ---- *)

LetterValue ==
  [A |-> 10, B |-> 12, C |-> 13, D |-> 14, E |-> 15, F |-> 16, G |-> 17, H |-> 18, I |-> 19,
   J |-> 20, K |-> 21, L |-> 23, M |-> 24, N |-> 25, O |-> 26, P |-> 27, Q |-> 28, R |-> 29,
   S |-> 30, T |-> 31, U |-> 32, V |-> 34, W |-> 35, X |-> 36, Y |-> 37, Z |-> 38]

Digits == <<"0", "1", "2", "3", "4", "5", "6", "7", "8", "9">>
Letter == DOMAIN LetterValue
Digit  == Range(Digits)

DigitValue == [d \in Digit |-> CHOOSE n \in 0..9 : Digits[n + 1] = d]
Value(ch)  == IF ch \in Digit THEN DigitValue[ch] ELSE LetterValue[ch]
Char(n)    == Digits[n + 1]

Upper == [l |-> "L", e |-> "E", a |-> "A", u |-> "U"]
Blank == {" ", "-"}

AllIn(t, chars)  == \A i \in DOMAIN t : t[i] \in chars
Shaped(t, chars) == Len(t) = 11 /\ AllIn(SubSeq(t, 1, 4), chars) /\ AllIn(SubSeq(t, 5, 11), Digit)

BicLike(t)         == Shaped(t, Letter)
ContainerShaped(t) == Shaped(t, Letter \cup Digit)
UicLike(t)         == Len(t) = 12 /\ AllIn(t, Digit)

\* The elements of t that are in S, in their order.
Selecting(t, S) ==
  LET kept[i \in 0 .. Len(t)] ==
        IF i = 0 THEN <<>> ELSE IF t[i] \in S THEN Append(kept[i - 1], t[i]) ELSE kept[i - 1]
  IN  kept
Only(t, S) == Selecting(t, S)[Len(t)]

Normalize(t) ==
  LET kept == Only(t, Range(t) \ Blank)
  IN  [i \in DOMAIN kept |-> IF kept[i] \in DOMAIN Upper THEN Upper[kept[i]] ELSE kept[i]]

(* ---- check digits ---- *)

Adding(terms) ==
  LET sum[i \in 0 .. Len(terms)] == IF i = 0 THEN 0 ELSE sum[i - 1] + terms[i]
  IN  sum
SumOf(terms) == Adding(terms)[Len(terms)]

Weight == <<1, 2, 4, 8, 16, 32, 64, 128, 256, 512>>

Iso6346CheckDigit(body) ==
  LET remainder == SumOf([i \in 1 .. 10 |-> Value(body[i]) * Weight[i]]) % 11
  IN  IF remainder = 10 THEN 0 ELSE remainder

UicCheckDigit(body) ==
  LET Product(i) == Value(body[i]) * (IF i % 2 = 1 THEN 2 ELSE 1)
      DigitSum(n) == (n \div 10) + (n % 10)
  IN  (10 - (SumOf([i \in 1 .. 11 |-> DigitSum(Product(i))]) % 10)) % 10

Category(ch) == CASE ch \in {"U", "J", "Z"} -> "iso6346"
                  [] ch \in {"A", "B", "D", "E", "K"} -> "ilu"
                  [] OTHER -> "unknown"

(* ---- the operator's rules ---- *)

(* default: strict or lenient; allow and deny: sets of keys; perPrefix: a  *)
(* function from keys to strict or lenient.  A key is an owner code, or    *)
(* the beginning of some and "*".                                          *)
DefaultPolicy  == [default |-> "strict", allow |-> {}, deny |-> {}, perPrefix |-> <<>>]
Accepted(policy) == policy.allow \cap policy.deny = {}

\* The keys that match best: the owner code itself, otherwise its longest beginning.
Match(prefix, keys) ==
  LET Matches(k) == k # <<>> /\ Last(k) = "*" /\ IsPrefix(Front(k), prefix)
      wild == {k \in keys : Matches(k)}
  IN  IF prefix \in keys THEN {prefix}
      ELSE {k \in wild : \A other \in wild : Len(other) <= Len(k)}

Treatment(owner, flag, known) == [ownerPolicy |-> owner, forceFlag |-> flag, corroborated |-> known]

Resolve(policy, prefix) ==
  LET hit == Match(prefix, DOMAIN policy.perPrefix)
  IN  IF Match(prefix, policy.deny) # {} THEN Treatment(policy.default, TRUE, FALSE)
      ELSE IF Match(prefix, policy.allow) # {} THEN Treatment(policy.default, FALSE, TRUE)
      ELSE IF hit # {} THEN Treatment(policy.perPrefix[CHOOSE k \in hit : TRUE], FALSE, FALSE)
      ELSE Treatment(policy.default, FALSE, FALSE)

OwnerCode(t) == SubSeq(t, 1, IF Len(t) < 3 THEN Len(t) ELSE 3)

(* ---- results ---- *)

Result(status, type, norm, printed, computed) ==
  [status |-> status, type |-> type, norm |-> norm, printed |-> printed, computed |-> computed,
   corrected |-> IF status = "corrected" THEN SubSeq(norm, 1, IF type = "uic" THEN 11 ELSE 10) \o <<computed>> ELSE <<>>]

\* The printed digit is right, or it is wrong and the field is trusted, or it is not trusted.
Decide(trusted, type, norm, printed, computed) ==
  Result(IF printed = computed THEN "valid" ELSE IF trusted THEN "corrected" ELSE "flagged",
         type, norm, printed, computed)

Declared(context) == context \in {"equipment_id", "unknown"}

DecideBic(norm, context, known) ==
  LET body == SubSeq(norm, 1, 10)
      computed == Char(Iso6346CheckDigit(body))
      trusted  == Declared(context) \/ (context = "free_text" /\ OwnerCode(norm) \in known)
  IN  IF Category(norm[4]) = "unknown" THEN Result("flagged", "unknown", norm, norm[11], computed)
      ELSE Decide(trusted, Category(norm[4]), norm, norm[11], computed)

\* The owner code is not three letters: what it says counts only when the caller is lenient.
DecidePseudo(norm, context, ownerPolicy) ==
  LET computed == Char(Iso6346CheckDigit(SubSeq(norm, 1, 10)))
  IN  IF ownerPolicy = "lenient" /\ Declared(context) THEN Decide(TRUE, "iso6346", norm, norm[11], computed)
      ELSE Result("flagged", "iso6346", norm, norm[11], computed)

DecideUic(norm, context) ==
  LET computed == Char(UicCheckDigit(SubSeq(norm, 1, 11)))
  IN  IF context = "rail_vehicle" THEN Decide(TRUE, "uic", norm, norm[12], computed)
      ELSE Result("flagged", "uic", norm, norm[12], computed)

Evaluate(norm, context, known, ownerPolicy) ==
  IF context = "size_type" THEN Result("not_a_target", "size_type", norm, None, None)
  ELSE IF BicLike(norm) THEN DecideBic(norm, context, known)
  ELSE IF ContainerShaped(norm) THEN DecidePseudo(norm, context, ownerPolicy)
  ELSE IF UicLike(norm) THEN DecideUic(norm, context)
  ELSE Result("invalid_structure", "unknown", norm, None, None)

\* A denied prefix is flagged whatever the kernel says of its token.
Ruled(treatment, result) ==
  IF treatment.forceFlag /\ result.status \in {"valid", "corrected", "flagged"}
  THEN [result EXCEPT !.status = "flagged", !.corrected = <<>>]
  ELSE result

\* known: the corroborated owners; policy: the operator's rules, or None.
CorrectIdentifier(token, context, known, ownerPolicy, policy) ==
  LET norm   == Normalize(token)
      prefix == OwnerCode(norm)
      t      == Resolve(policy, prefix)
  IN  IF policy = None THEN Evaluate(norm, context, known, ownerPolicy)
      ELSE Ruled(t, Evaluate(norm, context, IF t.corroborated THEN known \cup {prefix} ELSE known, t.ownerPolicy))

\* An X12 number comes in parts; the check digit may not have been transmitted (<<>>).
EvaluateX12(init, num, printed) ==
  LET norm     == init \o [i \in 1..(6 - Len(num)) |-> "0"] \o num
      computed == Char(Iso6346CheckDigit(norm))
      type     == Category(norm[4])
  IN  IF Len(init) # 4 \/ ~AllIn(init, Letter) THEN Result("invalid_structure", "unknown", init \o num, None, None)
      ELSE IF Len(num) > 6 THEN Result("flagged", "unknown", init \o num, None, None)
      ELSE IF type = "unknown" THEN Result("flagged", "unknown", norm, None, computed)
      ELSE IF printed = <<computed>> THEN Result("valid", type, norm \o printed, computed, computed)
      ELSE Result("corrected", type, norm \o printed, IF printed = <<>> THEN None ELSE printed[1], computed)

CorrectX12Equipment(initial, number, printed, policy) ==
  LET init == Normalize(initial)
      num  == Only(number, Digit)
      base == EvaluateX12(init, num, printed)
  IN  IF policy = None THEN base ELSE Ruled(Resolve(policy, OwnerCode(init)), base)
=============================================================================
