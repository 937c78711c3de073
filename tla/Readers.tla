------------------------------- MODULE Readers --------------------------------
(***************************************************************************)
(* The chunked readers of workspace/stream.py and what ingest.py locates   *)
(* in what they yield: CSV records, lines, delimited segments (EDIFACT and *)
(* X12) and XML start tags.                                                *)
(*                                                                         *)
(* A behavior reads one document.  Its text arrives in chunks of any       *)
(* length: cut is how much of it has arrived, pos the next character to    *)
(* look at, and everything else is what the reader carries from one chunk  *)
(* to the next.  Positions count from 1; a span ends before its end.       *)
(***************************************************************************)
EXTENDS Integers, Sequences, FiniteSets, SequencesExt

CONSTANTS
  Documents,   \* [reader, text, found]: what is read, and the spans a reader of the whole text finds
  Blank,       \* white space other than CR and LF
  Slot         \* the element of an N7 segment that has the check digit (18)

VARIABLES
  doc,         \* the document
  cut,         \* how much of the text has arrived
  pos,         \* the next character to look at
  mode,        \* where in a record, a segment or a construct the reader is
  start,       \* where the current record, line or segment begins
  pendingCr,   \* the last chunk ended in CR
  field,       \* the current CSV field: where it begins, whether it is quoted, its value so far
  row,         \* the fields of the current CSV record
  out,         \* what was yielded
  phase        \* head, reading, done or refused

readVars == <<doc, cut, pos, mode, start, pendingCr, field, row, out, phase>>

Text     == doc.text
Reader   == doc.reader
AfterUna == 10     \* a service string advice has nine characters
LookAhead == 9     \* enough to tell the constructs of XML apart

Field(p)  == [start |-> p, quoted |-> FALSE, value |-> <<>>]
StartMode == IF Reader \in {"edifact", "x12"} THEN "space" ELSE "plain"

Init ==
  /\ doc \in Documents
  /\ cut = 0 /\ pos = 1 /\ mode = StartMode /\ start = 1 /\ pendingCr = FALSE
  /\ field = Field(1) /\ row = <<>> /\ out = <<>>
  /\ phase = IF Reader = "edifact" THEN "head" ELSE "reading"

(* ---- chunks ---- *)

Here(kind) == phase = "reading" /\ Reader \in kind /\ pos <= cut /\ mode # "wait"
Ch         == Text[pos]

\* The first of these characters at p or behind it that has arrived; cut + 1 when there is none.
NextOf(chars, p) ==
  LET at == {q \in p..cut : Text[q] \in chars}
  IN  IF at = {} THEN cut + 1 ELSE CHOOSE q \in at : \A r \in at : q <= r

NextChunkKeepingLf ==
  /\ phase = "reading" /\ (pos > cut \/ mode = "wait")
  /\ \E c \in (cut + 1)..Len(Text) : cut' = c
  /\ pendingCr' = FALSE /\ mode' = IF mode = "wait" THEN "plain" ELSE mode
  /\ UNCHANGED <<doc, pos, start, field, row, out, phase>>
NextChunk ==
  /\ phase = "reading" /\ (pos > cut \/ mode = "wait")
  /\ \E c \in (cut + 1)..Len(Text) : cut' = c
  /\ pendingCr' = FALSE /\ mode' = IF mode = "wait" THEN "plain" ELSE mode
  /\ IF pendingCr /\ Text[cut + 1] = "LF"
     THEN pos' = pos + 1 /\ start' = pos + 1 /\ field' = Field(pos + 1)
     ELSE UNCHANGED <<pos, start, field>>
  /\ UNCHANGED <<doc, row, out, phase>>

AtEnd == phase = "reading" /\ (pos > cut \/ mode = "wait") /\ cut = Len(Text)

Yield(item) == out' = Append(out, item)

(* ---- CSV records (csv_records) ---- *)

Quote == "\""
Delim == ","
Break == {"CR", "LF"}

csvSame == <<doc, cut, start, pendingCr, row, out, phase>>

\* The second of two quotes within a quoted field.
EscapedQuote ==
  /\ Here({"csv"}) /\ mode = "afterQuote" /\ Ch = Quote
  /\ field' = [field EXCEPT !.value = Append(@, Quote)]
  /\ pos' = pos + 1 /\ mode' = "quoted"
  /\ UNCHANGED csvSame

InQuotes ==
  /\ Here({"csv"}) /\ mode = "quoted"
  /\ LET q == NextOf({Quote}, pos)
     IN  /\ field' = [field EXCEPT !.value = @ \o SubSeq(Text, pos, q - 1)]
         /\ pos' = IF q > cut THEN q ELSE q + 1
         /\ mode' = IF q > cut THEN "quoted" ELSE "afterQuote"
  /\ UNCHANGED csvSame

Unquoted == Here({"csv"}) /\ mode # "quoted" /\ ~(mode = "afterQuote" /\ Ch = Quote)

OpenQuote ==
  /\ Unquoted /\ Ch = Quote /\ pos = field.start
  /\ mode' = "quoted" /\ field' = [field EXCEPT !.quoted = TRUE] /\ pos' = pos + 1
  /\ UNCHANGED csvSame

Ended == Append(row, [start |-> field.start, end |-> pos, quoted |-> field.quoted, value |-> field.value])

EndField ==
  /\ Unquoted /\ Ch = Delim
  /\ row' = Ended /\ field' = Field(pos + 1) /\ pos' = pos + 1 /\ mode' = "plain"
  /\ UNCHANGED <<doc, cut, start, pendingCr, out, phase>>

\* CR LF is one break; when the chunk ends between the two, the LF is left to NextChunk.
Past == IF Ch = "CR" /\ pos < cut /\ Text[pos + 1] = "LF" THEN pos + 2 ELSE pos + 1

EndRecord ==
  /\ Unquoted /\ Ch \in Break
  /\ Yield(Ended) /\ row' = <<>>
  /\ pendingCr' = (Ch = "CR" /\ pos = cut)
  /\ pos' = Past /\ start' = Past /\ field' = Field(Past) /\ mode' = "plain"
  /\ UNCHANGED <<doc, cut, phase>>

\* A run of ordinary characters is copied up to the next special one, and a quote is special.
PlainRun ==
  /\ Unquoted /\ Ch \notin Break \cup {Delim} /\ ~(Ch = Quote /\ pos = field.start)
  /\ LET q == NextOf(Break \cup {Delim, Quote}, pos)
     IN  field' = [field EXCEPT !.value = @ \o SubSeq(Text, pos, q - 1)] /\ pos' = q
  /\ mode' = "plain"
  /\ UNCHANGED csvSame

LastRecord ==
  /\ AtEnd /\ Reader = "csv"
  /\ IF row # <<>> \/ field.value # <<>> \/ field.quoted \/ pos > start THEN Yield(Ended) ELSE UNCHANGED out
  /\ phase' = "done"
  /\ UNCHANGED <<doc, cut, pos, mode, start, pendingCr, field, row>>

(* ---- lines (line_records) ---- *)

NoRow == UNCHANGED <<doc, field, row>>

Line ==
  /\ Here({"lines"})
  /\ LET q == NextOf(Break, pos)
     IN  IF q > cut
         THEN pos' = q /\ UNCHANGED <<start, out, pendingCr>>
         ELSE /\ Yield([start |-> start, end |-> q])
              /\ pendingCr' = (Text[q] = "CR" /\ q = cut)
              /\ pos' = IF Text[q] = "CR" /\ q < cut /\ Text[q + 1] = "LF" THEN q + 2 ELSE q + 1
              /\ start' = pos'
  /\ NoRow /\ UNCHANGED <<cut, mode, phase>>

LastLine ==
  /\ AtEnd /\ Reader = "lines"
  /\ IF start <= Len(Text) THEN Yield([start |-> start, end |-> pos]) ELSE UNCHANGED out
  /\ phase' = "done"
  /\ NoRow /\ UNCHANGED <<cut, pos, mode, start, pendingCr>>

(* ---- delimited segments (delimited_segments) ---- *)

Una        == <<"U", "N", "A">>
Terminator == "'"
Release    == "?"
Escapes    == Reader = "edifact"
Segments   == {"edifact", "x12"}

segSame == <<doc, cut, pendingCr, field, row, phase>>

\* Chunks are collected until it is clear whether the text begins with a service string advice.
Undecided == cut < AfterUna - 1 /\ IsPrefix(SubSeq(Una, 1, IF cut < 3 THEN cut ELSE 3), SubSeq(Text, 1, cut))

UnaHead ==
  /\ phase = "head"
  /\ IF cut < Len(Text) /\ (cut = 0 \/ Undecided)
     THEN /\ \E c \in (cut + 1)..Len(Text) : cut' = c
          /\ UNCHANGED <<pos, start, phase>>
     ELSE /\ IF IsPrefix(Una, SubSeq(Text, 1, cut)) /\ cut >= AfterUna - 1
             THEN pos' = AfterUna /\ start' = AfterUna
             ELSE UNCHANGED <<pos, start>>
          /\ phase' = "reading" /\ UNCHANGED cut
  /\ NoRow /\ UNCHANGED <<mode, pendingCr, out>>

SkipSpace ==
  /\ Here(Segments) /\ mode = "space" /\ Ch \in Break \cup Blank
  /\ pos' = pos + 1 /\ start' = pos + 1
  /\ UNCHANGED <<segSame, mode, out>>

\* What the release character stands before is an ordinary character.
Released ==
  /\ Here(Segments) /\ mode = "escaped"
  /\ mode' = "plain" /\ pos' = pos + 1
  /\ UNCHANGED <<segSame, start, out>>

Unreleased == Here(Segments) /\ mode # "escaped" /\ ~(mode = "space" /\ Ch \in Break \cup Blank)

Releases ==
  /\ Unreleased /\ Escapes /\ Ch = Release
  /\ mode' = "escaped" /\ pos' = pos + 1
  /\ UNCHANGED <<segSame, start, out>>

EndSegment ==
  /\ Unreleased /\ Ch = Terminator
  /\ IF pos > start THEN Yield([start |-> start, end |-> pos]) ELSE UNCHANGED out
  /\ pos' = pos + 1 /\ start' = pos + 1 /\ mode' = "space"
  /\ UNCHANGED segSame

SegmentRun ==
  /\ Unreleased /\ Ch # Terminator /\ ~(Escapes /\ Ch = Release)
  /\ pos' = NextOf({Terminator} \cup (IF Escapes THEN {Release} ELSE {}), pos)
  /\ mode' = "plain"
  /\ UNCHANGED <<segSame, start, out>>

LastSegment ==
  /\ AtEnd /\ Reader \in Segments
  /\ IF pos > start THEN Yield([start |-> start, end |-> pos]) ELSE UNCHANGED out
  /\ phase' = "done"
  /\ NoRow /\ UNCHANGED <<cut, pos, mode, start, pendingCr>>

(* ---- XML start tags (xml_start_tags) ---- *)

Starts(p, what) == p + Len(what) - 1 <= cut /\ SubSeq(Text, p, p + Len(what) - 1) = what

\* Just past the first end mark at p or behind it, or 0 when it has not arrived.
Closing(mark, p) ==
  LET at == {q \in p..cut : Starts(q, mark)}
  IN  IF at = {} THEN 0 ELSE (CHOOSE q \in at : \A r \in at : q <= r) + Len(mark)

\* The quote character that is open before each position of a tag, or none.
OpenQuotes(p) ==
  LET open[q \in p..(cut + 1)] ==
        IF q = p THEN ""
        ELSE LET before == open[q - 1] ch == Text[q - 1]
             IN  IF before = "" THEN (IF ch \in {"'", Quote} THEN ch ELSE "")
                 ELSE IF ch = before THEN "" ELSE before
  IN  open

\* Just past the first > that does not stand within quotes, or 0.
TagEnd(p) ==
  LET open == OpenQuotes(p)
      at   == {q \in p..cut : Text[q] = ">" /\ open[q] = ""}
  IN  IF at = {} THEN 0 ELSE (CHOOSE q \in at : \A r \in at : q <= r) + 1

CommentMark == <<"<", "!", "-", "-">>
CdataMark   == <<"<", "!", "[", "C", "D", "A", "T", "A", "[">>

\* Where the construct at p ends; 0 when its end has not arrived.
ConstructEnd(p) ==
  CASE Starts(p, CommentMark)   -> Closing(<<"-", "-", ">">>, p + 4)
    [] Starts(p, CdataMark)     -> Closing(<<"]", "]", ">">>, p + 9)
    [] Starts(p, <<"<", "?">>)  -> Closing(<<"?", ">">>, p + 2)
    [] OTHER                    -> TagEnd(p + 1)

Refused(p) == Starts(p, <<"<", "!">>) /\ ~Starts(p, CommentMark) /\ ~Starts(p, CdataMark)
IsStart(p) == Text[p + 1] \notin {"/", "!", "?"}

Construct ==
  /\ Here({"xml"})
  /\ LET lt == NextOf({"<"}, pos)
     IN  CASE lt > cut -> pos' = lt /\ UNCHANGED <<mode, out, phase>>
           [] lt <= cut /\ cut - lt + 1 < LookAhead -> pos' = lt /\ mode' = "wait" /\ UNCHANGED <<out, phase>>
           [] lt <= cut /\ cut - lt + 1 >= LookAhead /\ Refused(lt) ->
                phase' = "refused" /\ UNCHANGED <<pos, mode, out>>
           [] OTHER ->
                LET end == ConstructEnd(lt)
                IN  IF end = 0
                    THEN pos' = lt /\ mode' = "wait" /\ UNCHANGED <<out, phase>>
                    ELSE /\ IF IsStart(lt) THEN Yield([start |-> lt, end |-> end]) ELSE UNCHANGED out
                         /\ pos' = end /\ UNCHANGED <<mode, phase>>
  /\ NoRow /\ UNCHANGED <<cut, start, pendingCr>>

\* What is left at the end of the text is dropped, unless it begins a declaration.
LastConstruct ==
  /\ AtEnd /\ Reader = "xml"
  /\ phase' = IF Starts(pos, <<"<", "!">>) THEN "refused" ELSE "done"
  /\ NoRow /\ UNCHANGED <<cut, pos, mode, start, pendingCr, out>>

(* ---- specification ---- *)

Next ==
  \/ NextChunk
  \/ EscapedQuote \/ InQuotes \/ OpenQuote \/ EndField \/ EndRecord \/ PlainRun \/ LastRecord
  \/ Line \/ LastLine
  \/ UnaHead \/ SkipSpace \/ Released \/ Releases \/ EndSegment \/ SegmentRun \/ LastSegment
  \/ Construct \/ LastConstruct

Spec == Init /\ [][Next]_readVars

\* A reader runs by itself.
FairSpec == Spec /\ WF_readVars(Next)

(* ---- what is located in a record (ingest.py) ---- *)

\* The identifier in a CSV field, without the blanks around it; none when it is empty or has
\* a quote of its own.
IsBlank(ch) == ch \in Blank \cup Break

ItemOfField(f) ==
  LET solid == {i \in DOMAIN f.value : ~IsBlank(f.value[i])}
      first == CHOOSE i \in solid : \A j \in solid : i <= j
      last  == CHOOSE i \in solid : \A j \in solid : i >= j
  IN  IF solid = {} \/ (f.quoted /\ Quote \in ToSet(SubSeq(f.value, first, last)))
      THEN [raw |-> <<>>, offset |-> f.start + (IF f.quoted THEN 1 ELSE 0)]
      ELSE [raw |-> SubSeq(f.value, first, last),
            offset |-> f.start + (IF f.quoted THEN 1 ELSE 0) + first - 1]

\* The parts of an element string between its separators, without release characters.
Split(string, separator, escapes) ==
  LET Take(acc, ch) ==
        CASE acc.escaped                           -> [acc EXCEPT !.escaped = FALSE, !.part = Append(@, ch)]
          [] ~acc.escaped /\ escapes /\ ch = Release -> [acc EXCEPT !.escaped = TRUE]
          [] ~acc.escaped /\ ch = separator         -> [acc EXCEPT !.parts = Append(@, acc.part), !.part = <<>>]
          [] OTHER                                 -> [acc EXCEPT !.part = Append(@, ch)]
      all == FoldLeft(Take, [parts |-> <<>>, part |-> <<>>, escaped |-> FALSE], string)
  IN  Append(all.parts, all.part)

Raw(span) == SubSeq(Text, span.start, span.end - 1)

\* The container of EQD+CN+id: its first component, where the segment first has it.
ItemOfEqd(span) ==
  LET els == Split(Raw(span), "+", TRUE)
      id  == IF Len(els) > 2 THEN Split(els[3], ":", TRUE)[1] ELSE <<>>
      at  == {p \in span.start..(span.end - Len(id)) : SubSeq(Text, p, p + Len(id) - 1) = id}
  IN  IF els[1] # <<"E">> \/ Len(els) < 2 \/ id = <<>> THEN [raw |-> <<>>, offset |-> span.start]
      ELSE [raw |-> id, offset |-> IF at = {} THEN span.start - 1 ELSE CHOOSE p \in at : \A r \in at : p <= r]

\* The check digit of N7, behind the elements before it; a segment that ends earlier has none.
ItemOfN7(span) ==
  LET els   == Split(Raw(span), "*", FALSE)
      ahead == FoldLeft(LAMBDA n, e : n + Len(e) + 1, 0, SubSeq(els, 1, Slot))
  IN  IF els[1] # <<"N">> \/ Len(els) <= Slot THEN [raw |-> <<>>, offset |-> span.end]
      ELSE [raw |-> els[Slot + 1], offset |-> span.start + ahead]

\* The identifier of N9*EQ, behind two elements.
ItemOfN9(span) ==
  LET els == Split(Raw(span), "*", FALSE)
  IN  IF Len(els) < 3 \/ els[1] # <<"R">> \/ els[2] # <<"E">> THEN [raw |-> <<>>, offset |-> span.start]
      ELSE [raw |-> els[3], offset |-> span.start + Len(els[1]) + 1 + Len(els[2]) + 1]

\* The value of the first attribute of a tag.
ItemOfTag(span) ==
  LET quotes == {p \in span.start..(span.end - 1) : Text[p] \in {"'", Quote}}
      first  == CHOOSE p \in quotes : \A q \in quotes : p <= q
      rest   == {p \in quotes : p > first /\ Text[p] = Text[first]}
  IN  IF quotes = {} THEN [raw |-> <<>>, offset |-> span.start]
      ELSE [raw |-> SubSeq(Text, first + 1, (CHOOSE p \in rest : \A q \in rest : p <= q) - 1),
            offset |-> first + 1]

Items ==
  CASE Reader = "csv"     -> {ItemOfField(f) : f \in UNION {ToSet(out[i]) : i \in DOMAIN out}}
    [] Reader = "edifact" -> {ItemOfEqd(out[i]) : i \in DOMAIN out}
    [] Reader = "x12"     -> {ItemOfN7(out[i]) : i \in DOMAIN out} \cup {ItemOfN9(out[i]) : i \in DOMAIN out}
    [] Reader = "xml"     -> {ItemOfTag(out[i]) : i \in DOMAIN out}
    [] OTHER              -> {}

(* ---- what the formats say, over a whole text ---- *)

Within(t, p) == Cardinality({q \in 1..(p - 1) : t[q] = Quote}) % 2 = 1

\* Every field is quoted whole or not at all (RFC 4180).
WellFormed(t) ==
  /\ ~Within(t, Len(t) + 1)
  /\ \A p \in DOMAIN t : t[p] = Quote =>
       IF Within(t, p) THEN p = Len(t) \/ t[p + 1] \in Break \cup {Delim, Quote}
       ELSE p = 1 \/ t[p - 1] \in Break \cup {Delim, Quote}

\* The spans between breaks, each of which is a set of adjacent positions.
Between(t, from, Breaks) ==
  LET Clear(a, b) == \A p \in a..(b - 1) : p \notin Breaks
      found == {ab \in (from..(Len(t) + 1)) \X (from..(Len(t) + 1)) :
                  /\ ab[1] <= ab[2] /\ Clear(ab[1], ab[2])
                  /\ ab[1] = from \/ ab[1] - 1 \in Breaks
                  /\ ab[2] = Len(t) + 1 \/ ab[2] \in Breaks}
  IN  SetToSortSeq(found, LAMBDA x, y : x[1] < y[1])

\* CR, LF and CR LF end a line; what is behind the last one is a line unless it is empty.
LinesOf(t, InQuotes_(_)) ==
  LET ends  == {p \in DOMAIN t : t[p] \in Break /\ ~InQuotes_(p)}
      Inner(p) == t[p] = "LF" /\ p - 1 \in ends /\ t[p - 1] = "CR"
  IN  SelectSeq(Between(t, 1, ends), LAMBDA ab : ab[1] <= Len(t) /\ ~(ab[1] = ab[2] /\ ab[2] \in ends /\ Inner(ab[2])))

FieldsOf(t, ab) ==
  LET marks == {p \in ab[1]..(ab[2] - 1) : t[p] = Delim /\ ~Within(t, p)}
  IN  Between(SubSeq(t, 1, ab[2] - 1), ab[1], marks)

\* A terminator counts when the release characters right before it come in pairs.
SegmentsOf(t, escapes) ==
  LET from  == IF escapes /\ IsPrefix(Una, t) /\ Len(t) >= AfterUna - 1 THEN AfterUna ELSE 1
      Signs(p) == {q \in from..(p - 1) : \A r \in q..(p - 1) : t[r] = Release}
      ends  == {p \in from..Len(t) : t[p] = Terminator /\ (escapes => Cardinality(Signs(p)) % 2 = 0)}
      Solid(ab) == {p \in ab[1]..(ab[2] - 1) : ~IsBlank(t[p])}
      First(ab) == CHOOSE p \in Solid(ab) : \A q \in Solid(ab) : p <= q
      some  == SelectSeq(Between(t, from, ends), LAMBDA ab : Solid(ab) # {})
  IN  [i \in DOMAIN some |-> <<First(some[i]), some[i][2]>>]

Spans(list) == [i \in DOMAIN list |-> <<list[i].start, list[i].end>>]

Expected ==
  CASE Reader = "csv"   -> LET rows == LinesOf(Text, LAMBDA p : Within(Text, p))
                           IN  [i \in DOMAIN rows |-> FieldsOf(Text, rows[i])]
    [] Reader = "lines" -> LinesOf(Text, LAMBDA p : FALSE)
    [] Reader = "xml"   -> doc.found
    [] OTHER            -> SegmentsOf(Text, Escapes)

(* ---- properties ---- *)

\* However the text is cut into chunks, the reader yields the records the format says, with
\* their places in the whole text ("Streaming readers that keep decoder and parser state
\* across chunk boundaries", CAPABILITIES.md:59); a declaration in XML is always refused.
ReadAsWhole ==
  /\ phase = "done" =>
       (IF Reader = "csv" THEN [i \in DOMAIN out |-> Spans(out[i])] ELSE Spans(out)) = Expected
  /\ phase = "refused" => Reader = "xml" /\ doc.refused
  /\ phase = "done" /\ Reader = "xml" => ~doc.refused

\* What is handed on as an identifier stands in the text at the offset that is handed on with
\* it, so that an approved correction replaces it and nothing else (_csv_stream and the rest).
ItemsAreLocated ==
  \A item \in Items : SubSeq(Text, item.offset, item.offset + Len(item.raw) - 1) = item.raw

\* Reading a text in chunks is reading it whole: the same records, the same places, and every
\* identifier where it is said to be.
ReadsLikeTheWhole == ReadAsWhole /\ ItemsAreLocated

\* Reading a text comes to its end (csv_records: "RFC 4180 state machine over a stream of
\* text chunks").
ReadEnds == <>(phase \in {"done", "refused"})

=============================================================================
