------------------------------ MODULE MCReaders -------------------------------
(* Small documents for Readers: every short text of each format, and texts *)
(* put together of whole constructs.                                       *)
EXTENDS Readers

Texts(chars, n) == UNION {[1..k -> chars] : k \in 0..n}

Doc(reader, text) == [reader |-> reader, text |-> text, found |-> <<>>, refused |-> FALSE]

CsvTexts == {t \in Texts({"a", Delim, Quote, "CR", "LF"}, 6) \cup Texts({"a", " ", Delim, Quote, "LF"}, 5) : WellFormed(t)}

\* Every second text has a service string advice, or the beginning of one.
Advice == {<<>>, Una, Una \o <<":", "+", ".", "?", " ", "'">>}
\* No identifier has a released character: the code would look for it in vain.
Eqd    == {<<"E", "+", "C", "+", "x", "y">>, <<"E", "+", "C", "+", "x", "y", "?", "?", "+", "?", "+">>, <<"E", "+", "C">>,
           <<"E", "+", "C", "+", "x", ":", "y", "+", "?">>, <<"D", "+", "x">>}
EdifactTexts ==
  {a \o t : a \in Advice, t \in Texts({"a", "?", "'", "LF"}, 5)}
  \cup {s \o <<"?", "'">> \o e \o <<"'", " ">> \o e2 : s \in {<<>>, <<"D">>}, e \in Eqd, e2 \in Eqd}

X12Segments == {<<"N", "*", "x", "*", "y">>, <<"N", "*", "x", "*", "y", "*", "4">>, <<"N", "*", "*", "*", "*", "5", "*", "z">>,
          <<"R", "*", "E", "*", "x", "y", "*", "z">>}
X12Texts == {e \o <<"'", "LF">> \o e2 : e \in X12Segments, e2 \in X12Segments} \cup Texts({"?", "'", "LF"}, 5)

\* Constructs of XML: [text, tag (is it a start tag), bad (must it be refused)].
Piece(text, tag, bad) == [text |-> text, tag |-> tag, bad |-> bad]
Pieces ==
  {Piece(<<"<", "e", " ", "a", "=", "'", ">", "'", ">">>, TRUE, FALSE),
   Piece(<<"<", "e", " ", "a", "=", Quote, "'", Quote, "/", ">">>, TRUE, FALSE),
   Piece(<<"<", "!", "-", "-", "<", "e", " ", "-", "-", ">">>, FALSE, FALSE),
   Piece(CdataMark \o <<"<", "e", ">", "]", "]", "]", ">">>, FALSE, FALSE),
   Piece(<<"<", "?", "x", " ", ">", " ", " ", "?", ">">>, FALSE, FALSE),
   Piece(<<"<", "!", "D", "O", "C", "T", "Y", "P", "E", ">">>, FALSE, TRUE),
   Piece(<<"x", ">">>, FALSE, FALSE)}

Ending == <<"<", "/", "e", "l", "e", "m", "e", "n", "t", ">">>

XmlDoc(list) ==
  LET Before(i) == Len(FlattenSeq([k \in 1..(i - 1) |-> list[k].text]))
      tags == SelectSeq([i \in DOMAIN list |-> i], LAMBDA i : list[i].tag)
  IN  [reader |-> "xml", text |-> FlattenSeq([i \in DOMAIN list |-> list[i].text]) \o Ending,
       found |-> [k \in DOMAIN tags |-> <<Before(tags[k]) + 1, Before(tags[k]) + Len(list[tags[k]].text) + 1>>],
       refused |-> \E i \in DOMAIN list : list[i].bad]

AllDocuments ==
  {Doc("csv", t) : t \in CsvTexts} \cup {Doc("lines", t) : t \in Texts({"a", "CR", "LF"}, 6)}
  \cup {Doc("edifact", t) : t \in EdifactTexts} \cup {Doc("x12", t) : t \in X12Texts}
  \cup {XmlDoc(list) : list \in Texts(Pieces, 2)}

\* Well-formed tables as spreadsheets export them: behind a byte order mark.
ExportedTables == {Doc("csv", <<"BOM">> \o t) : t \in {t \in Texts({"a", Delim, Quote, "LF"}, 4) : WellFormed(t)}}
=============================================================================
