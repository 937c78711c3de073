---------------------------- MODULE MCCorrection -----------------------------
(* Small files and rules for Correction.                                   *)
EXTENDS Correction, TLC

LEAU == <<"L", "E", "A", "U">>
LEAX == <<"L", "E", "A", "X">>
EALJ == <<"E", "A", "L", "J">>
L01U == <<"L", "0", "1", "U">>

Serial == <<"1", "1", "5", "0", "1", "0">>
Zeros  == <<"1", "0", "0", "0", "0", "2">>    \* LEAU100002 has remainder 10

Right(prefix, serial) == prefix \o serial \o <<Char(Iso6346CheckDigit(prefix \o serial))>>
Wrong(prefix, serial) == prefix \o serial \o <<Char((Iso6346CheckDigit(prefix \o serial) + 3) % 10)>>
Wagon == <<"2", "1", "8", "1", "2", "4", "7", "1", "2", "1", "7", "0">>

Clean == {Right(LEAU, Serial), Wrong(LEAU, Serial), Wrong(LEAU, Zeros), Wrong(EALJ, Serial), Wrong(LEAX, Serial),
          Right(L01U, Serial), Wrong(L01U, Serial)}
Rough == {<<"l", "e", "a", "u", " ">> \o Serial \o <<"-", "7">>, Wagon, <<"L">>}

Seqs(S, n) == UNION {[1..k -> S] : k \in 1..n}
File(format, fields) == [format |-> format, fields |-> fields]

Singles ==
  {File("edifact", <<Field("cn", t), Field("other", Wrong(LEAU, Serial)), Field("cn", u)>>) :
     t \in Clean \cup Rough, u \in {<<>>, Wrong(LEAU, Serial)}}
  \cup {File("x12", <<Field("eq", t), Field("initial", LEAU), Field("number", Serial)>>) : t \in Clean \cup Rough}
Many ==
  {File("snx", [i \in DOMAIN s |-> Field("eqid", s[i])]) : s \in Seqs(Clean \cup {<<>>}, 3)}
  \cup {File("txt", [i \in DOMAIN s |-> Field("word", s[i])]) : s \in Seqs(Clean \cup Rough, 2)}
  \cup {File("csv", <<Field("column", s[1]), Field("other", s[2]), Field("column", s[2])>>) : s \in [1..2 -> Clean]}
  \cup {File("fixed", <<Field("column", s[1]), Field(r, s[2]), Field("other", s[1])>>) :
           s \in [1..2 -> Clean], r \in {"column", "overlap"}}
  \cup {File("xlsx", <<Field("inline", s[1]), Field("shared", s[2]), Field(r, s[1]), Field("runs", s[2])>>) :
           s \in [1..2 -> Clean], r \in {"formula", "shared"}}
  \cup {File(b, <<Field("flaw", <<>>), Field("inline", Wrong(LEAU, Serial))>>) : b \in {"pdf", "xlsx", "fixed"}}

N7(init, num, slot) ==
  <<Field("initial", init), Field("number", num)>> \o IF slot = None THEN <<>> ELSE <<Field("check", slot)>>
Halves == {N7(i, n, s) : i \in {LEAU, LEAX, L01U, EALJ, <<"l", "e", "a", "u">>},
                         n \in {Serial, <<"1", "-", "2">>, Serial \o <<"1">>},
                         s \in {None, <<>>, <<"0">>, <<"7">>}}
SplitOnes == {File("x12", a \o b) : a \in Halves, b \in {N7(LEAU, Serial, None), N7(EALJ, Serial, <<"1">>)}}

AllFiles == Singles \cup Many \cup SplitOnes

Asks(door, owner, trust, known) == [door |-> door, ownerPolicy |-> owner, trust |-> trust, known |-> known]

AllRequests == {Asks("api", "strict", FALSE, {}), Asks("api", "lenient", TRUE, {}),
                Asks("watch", "lenient", FALSE, {<<"E", "A", "L">>}), Asks("watch", "strict", TRUE, {})}

Rules(default, allow, deny, per) == [default |-> default, allow |-> allow, deny |-> deny, perPrefix |-> per]

LEA == <<"L", "E", "A">>
LStar == <<"L", "*">>
EStar == <<"E", "*">>

AllPolicies == {Rules("strict", {LEA}, {LStar}, <<>>), Rules("lenient", {EStar}, {LEA}, <<>>),
                Rules("strict", {}, {}, LEA :> "lenient" @@ LStar :> "lenient" @@ <<"L", "0", "1">> :> "strict"),
                Rules("strict", {LEA}, {LEA}, <<>>)}

ASSUME MCCorrectionAssumption == RequestsAreTexts(STRING)
=============================================================================
