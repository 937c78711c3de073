----------------------------- MODULE Correction ------------------------------
(***************************************************************************)
(* One request of the service after another: dispatcher.py, the locators   *)
(* and correctors of the formats, substitution.py and the report.          *)
(*                                                                         *)
(* A file is its format and its fields in order, [role, value]: the values *)
(* an identifier may be in, with everything between them left out.  The    *)
(* position of a field stands for its offset in the text.                  *)
(*   cn        an EQD segment with qualifier CN (EDIFACT)                  *)
(*   initial, number, check   N7-01, N7-02 and, when the segment is long   *)
(*             enough, N7-18; eq: N9*EQ (X12)                              *)
(*   eqid      an attribute that carries the container number (SNX)        *)
(*   word      a word of a plain text                                      *)
(*   column    a cell of a column chosen, or the columns of a line that one *)
(*             of the ranges given covers; overlap: that two of them cover *)
(*   inline, shared    text of a workbook that stands in its sheet, or in  *)
(*             the table of strings for all the cells that refer to it     *)
(*   formula, runs     what a formula left in its cell, and text split     *)
(*             over differently formatted runs: seen, never edited         *)
(*   flaw      what makes a workbook or a table unusable                   *)
(*   other     everything else                                             *)
(***************************************************************************)
EXTENDS Kernel

CONSTANTS
  Files,      \* the files that are uploaded
  Requests,   \* [door, ownerPolicy, trust, known]: how
  Policies,   \* the rules an operator may put in force
  MaxRounds, MaxSwaps   \* bounds: requests, changes of the rules

VARIABLES
  operator,   \* the rules in force (api._POLICY)
  swaps,      \* how often they were replaced
  request,    \* the request being served, with the rules it is served under
  file,       \* its file
  refs,       \* the identifiers located that are not judged yet
  edits,      \* [start, old, new]
  report,     \* what is reported so far
  text,       \* the fields of the answer
  earlier,    \* the request before, its report and its answer
  round, phase

corrVars == <<operator, swaps, request, file, refs, edits, report, text, earlier, round, phase>>

Field(role, value) == [role |-> role, value |-> value]

NoReport == [total |-> 0, valid |-> 0, corrected |-> {}, flagged |-> {}, invalid |-> 0, empty |-> 0]

Init ==
  /\ operator = DefaultPolicy /\ swaps = 0
  /\ request = None /\ file = None /\ refs = <<>> /\ edits = {} /\ report = NoReport
  /\ text = <<>> /\ earlier = None /\ round = 0 /\ phase = "idle"

(* ---- locating ---- *)

RoleOf(format) ==
  CASE format = "edifact" -> {"cn"}
    [] format = "x12" -> {"initial", "eq"}
    [] format = "snx" -> {"eqid"}
    [] format \in {"txt", "csv", "fixed"} -> {"word", "column", "overlap"}
    [] format = "xlsx" -> {"inline", "shared"}
    [] OTHER -> {}

\* A member of a workbook over one of its limits, a column or a range given
\* that does not exist.
Sound(f) == \A p \in DOMAIN f.fields : f.fields[p].role # "flaw"

\* Everything else is turned away, as are a PDF and an archive that is no workbook.
Readable(f) == f.format \in {"edifact", "x12", "snx", "txt", "csv", "fixed", "xlsx"} /\ Sound(f)

\* These are searched for whatever looks like a container number.
Searched(format) == format \in {"txt", "csv", "fixed", "xlsx"}

\* Attributes, words and cells are taken once for every value they have.
Distinct(format) == Searched(format) \/ format = "snx"

Alike(f, p) == {q \in DOMAIN f.fields : f.fields[q].role \in RoleOf(f.format) /\ f.fields[q].value = f.fields[p].value}

Located(f, p) ==
  /\ f.fields[p].role \in RoleOf(f.format)
  /\ f.format = "snx" => f.fields[p].value # <<>>
  /\ Searched(f.format) => BicLike(f.fields[p].value)
  /\ Distinct(f.format) => \A q \in Alike(f, p) : p <= q

\* What the parser of the workbook sees and no edit could reach.
SeenOnly(f, p) == f.format = "xlsx" /\ f.fields[p].role \in {"formula", "runs"} /\ BicLike(f.fields[p].value)

\* The element behind N7-02, unless the segment ends there.
CheckSlot(f, p) == {q \in {p + 2} : q \in DOMAIN f.fields /\ f.fields[q].role = "check"}

RefAt(f, p) ==
  LET here == f.fields[p]
  IN  [at |-> p, token |-> here.value, split |-> here.role = "initial",
       number |-> IF here.role = "initial" THEN f.fields[p + 1].value ELSE <<>>,
       places |-> IF here.role = "initial" THEN CheckSlot(f, p)
                  ELSE IF SeenOnly(f, p) THEN {}
                  ELSE IF Distinct(f.format) THEN Alike(f, p)
                  ELSE {p}]

Locate(f) ==
  LET places == [p \in DOMAIN f.fields |-> p]
      found == Only(places, {p \in DOMAIN f.fields : Located(f, p)}) \o Only(places, {p \in DOMAIN f.fields : SeenOnly(f, p)})
  IN  [i \in DOMAIN found |-> RefAt(f, found[i])]

\* A workbook counts a number once, however often it is seen only.
Total(f) == IF f.format = "xlsx" THEN Cardinality({ref.token : ref \in Range(Locate(f))}) ELSE Len(Locate(f))

(* ---- requests ---- *)

\* The service passes the rules in force; the watch folder passes none.
PolicyFor(door) == IF door = "api" THEN operator ELSE None

Serve(r, f) ==
  /\ phase = "idle" /\ round < MaxRounds
  /\ request' = [door |-> r.door, ownerPolicy |-> r.ownerPolicy, trust |-> r.trust, known |-> r.known,
                 policy |-> PolicyFor(r.door)]
  /\ file' = f /\ refs' = Locate(f) /\ edits' = {} /\ text' = f.fields
  /\ report' = [NoReport EXCEPT !.total = Total(f)]
  /\ round' = round + 1
  /\ IF Readable(f) THEN phase' = "judging" /\ UNCHANGED earlier ELSE phase' = "idle" /\ earlier' = None
  /\ UNCHANGED <<operator, swaps>>

Upload == round = 0 /\ \E r \in Requests, f \in Files : Serve(r, f)

\* The corrected file comes back.
UploadAgain ==
  /\ round > 0 /\ \E r \in Requests : Serve(r, [file EXCEPT !.fields = text])

\* PUT /policy: refused when a key is both allowed and denied.
PutPolicy ==
  /\ swaps < MaxSwaps /\ \E p \in Policies : p # operator /\ Accepted(p) /\ operator' = p
  /\ swaps' = swaps + 1
  /\ UNCHANGED <<request, file, refs, edits, report, text, earlier, round, phase>>

(* ---- judging one identifier after the other ---- *)

Ref == Head(refs)

Printed == IF Ref.places = {} THEN <<>> ELSE file.fields[CHOOSE p \in Ref.places : TRUE].value

Context == IF Searched(file.format) /\ ~request.trust THEN "free_text" ELSE "equipment_id"

JudgedUnder(policy) ==
  IF Ref.split THEN CorrectX12Equipment(Ref.token, Ref.number, Printed, policy)
  ELSE CorrectIdentifier(Ref.token, Context, IF Searched(file.format) THEN request.known ELSE {},
                         request.ownerPolicy, policy)

VerdictByOperator == JudgedUnder(IF request.policy = None THEN None ELSE operator)
Verdict == JudgedUnder(request.policy)

Judging == phase = "judging" /\ refs # <<>>
judgingSame == <<operator, swaps, request, file, text, earlier, round, phase>>

\* An EQD+CN without an identifier.
Empty == file.format = "edifact" /\ Ref.token = <<>>

CountEmpty ==
  /\ Judging /\ Empty /\ refs' = Tail(refs)
  /\ report' = [report EXCEPT !.empty = @ + 1]
  /\ UNCHANGED <<edits, judgingSame>>

CountValid ==
  /\ Judging /\ ~Empty /\ Verdict.status = "valid" /\ refs' = Tail(refs)
  /\ report' = [report EXCEPT !.valid = @ + 1]
  /\ UNCHANGED <<edits, judgingSame>>

CountInvalid ==
  /\ Judging /\ ~Empty /\ Verdict.status = "invalid_structure" /\ refs' = Tail(refs)
  /\ report' = [report EXCEPT !.invalid = @ + 1]
  /\ UNCHANGED <<edits, judgingSame>>

Said == [ref |-> Ref, norm |-> Verdict.norm, printed |-> Verdict.printed, computed |-> Verdict.computed]

\* Nothing is changed where the segment has no element for the check digit,
\* and in no part of a workbook that is seen only.
NoSlot == Verdict.status = "corrected" /\ Ref.places = {}

FlagIt ==
  /\ Judging /\ ~Empty /\ (Verdict.status = "flagged" \/ NoSlot) /\ refs' = Tail(refs)
  /\ report' = [report EXCEPT !.flagged = @ \cup {Said}]
  /\ UNCHANGED <<edits, judgingSame>>

EditsFirstPlace ==
  LET p == CHOOSE p \in Ref.places : \A q \in Ref.places : p <= q
  IN  {[start |-> p, old |-> file.fields[p].value,
        new |-> IF Ref.split THEN <<Verdict.computed>> ELSE Verdict.corrected]}
Edits == {[start |-> p, old |-> file.fields[p].value,
           new |-> IF Ref.split THEN <<Verdict.computed>> ELSE Verdict.corrected] : p \in Ref.places}

ChangeIt ==
  /\ Judging /\ ~Empty /\ Verdict.status = "corrected" /\ Ref.places # {} /\ refs' = Tail(refs)
  /\ edits' = edits \cup Edits
  /\ report' = [report EXCEPT !.corrected = @ \cup {Said}]
  /\ UNCHANGED judgingSame

(* ---- the answer ---- *)

\* Every edit finds what it replaces, and no two overlap: where two ranges
\* cover the same columns the same edit is made twice.
Fits(fields) ==
  /\ \A e \in edits : fields[e.start].role # "overlap"
  /\ \A e \in edits : fields[e.start].value = e.old
  /\ \A e1, e2 \in edits : e1.start = e2.start => e1 = e2

ApplyEdits(fields) ==
  [p \in DOMAIN fields |->
     IF \E e \in edits : e.start = p THEN [fields[p] EXCEPT !.value = (CHOOSE e \in edits : e.start = p).new]
     ELSE fields[p]]

Answer ==
  /\ phase = "judging" /\ refs = <<>> /\ Fits(file.fields)
  /\ text' = ApplyEdits(file.fields) /\ phase' = "answered"
  /\ UNCHANGED <<operator, swaps, request, file, refs, edits, report, earlier, round>>

\* SubstitutionError: the request fails, nothing is answered.
Fail ==
  /\ phase = "judging" /\ refs = <<>> /\ ~Fits(file.fields)
  /\ phase' = "idle" /\ earlier' = None
  /\ UNCHANGED <<operator, swaps, request, file, refs, edits, report, text, round>>

Leave ==
  /\ phase = "answered" /\ phase' = "idle"
  /\ earlier' = [request |-> request, fields |-> file.fields, edits |-> edits, report |-> report, text |-> text]
  /\ UNCHANGED <<operator, swaps, request, file, refs, edits, report, text, round>>

Next == Upload \/ UploadAgain \/ PutPolicy \/ CountEmpty \/ CountValid \/ CountInvalid \/ FlagIt \/ ChangeIt \/ Answer
        \/ Fail \/ Leave

Spec == Init /\ [][Next]_corrVars

(* ---- types ---- *)

\* Files of fields over an alphabet; a number has two parts, one behind the other.
FieldOver(alphabet) == [role : STRING, value : Seq(alphabet)]
FileOver(alphabet) ==
  {f \in [format : STRING, fields : Seq(FieldOver(alphabet))] :
     \A p \in DOMAIN f.fields :
       f.fields[p].role = "initial" => p + 1 \in DOMAIN f.fields /\ f.fields[p + 1].role = "number"}

\* What the theorems assume of the constants: files and the keys of rules are texts.
RequestsAreTexts(alphabet) ==
  /\ Letter \cup Digit \subseteq alphabet
  /\ Files \subseteq FileOver(alphabet)
  /\ \A policy \in Policies : policy.deny \cup policy.allow \subseteq Seq(alphabet)

(* ---- properties ---- *)

Answered == phase = "answered"

\* One of the rules names this owner, by its code or by a beginning of it.
Named(keys, owner) ==
  \E k \in keys : k = owner \/ (k # <<>> /\ Last(k) = "*" /\ Len(k) <= Len(owner) + 1 /\ SubSeq(owner, 1, Len(k) - 1) = Front(k))

(* An answer differs from what was sent in the check digits reported as    *)
(* corrected and in nothing else; no owner on the deny list that was in    *)
(* force when the request arrived is touched, whatever rules were put in   *)
(* force meanwhile; a text nobody vouches for is only corrected for owners *)
(* that the register or the rules of that time corroborate; and what Excel *)
(* computes, or splits over runs, stays as it was.                         *)
EditsArePermitted ==
  Answered =>
    \A p \in DOMAIN text : text[p] # file.fields[p] =>
      LET split == text[p].role = "check"
          token == Normalize(IF split THEN file.fields[p - 2].value ELSE file.fields[p].value)
          owner == SubSeq(token, 1, 3)
          rules == request.policy
      IN  /\ text[p].role = file.fields[p].role
          /\ IF split THEN Len(text[p].value) = 1
             ELSE Front(text[p].value) = Front(token)
          /\ rules # None => ~Named(rules.deny, owner)
          /\ text[p].role \notin {"formula", "runs", "other"}
          /\ Searched(file.format) /\ ~request.trust =>
               \/ owner \in request.known
               \/ rules # None /\ Named(rules.allow, owner)
          /\ \E c \in report.corrected : p \in c.ref.places

(* A corrected file that comes back under the same rules is left alone:    *)
(* what was corrected is found valid at every place it stands, what was    *)
(* flagged is flagged again for the same reason, and the report accounts   *)
(* for every identifier both times (a workbook counts a number once and    *)
(* judges it wherever it is seen only).                                    *)
SecondPassIsQuiet ==
  Answered =>
    /\ LET judged == report.valid + Cardinality(report.corrected) + Cardinality(report.flagged)
                     + report.invalid + report.empty
       IN  IF file.format = "xlsx" THEN report.total <= judged ELSE report.total = judged
    /\ earlier # None /\ earlier.request = request =>
         /\ text = earlier.text /\ report.corrected = {}
         /\ report.flagged = earlier.report.flagged
         /\ report.invalid = earlier.report.invalid /\ report.empty = earlier.report.empty

(* README.md:22-24 and checkdigit_app.jsx:1156: a caller who asks for the  *)
(* lenient treatment gets a pseudo-prefix corrected, unless a rule of the  *)
(* operator names it.                                                      *)
LenientCorrects ==
  Answered /\ request.ownerPolicy = "lenient" =>
    \A f \in report.flagged :
      ContainerShaped(f.norm) /\ ~BicLike(f.norm) /\ ~f.ref.split =>
        \/ Context = "free_text"
        \/ /\ request.policy # None
           /\ Named(request.policy.deny \cup request.policy.allow \cup DOMAIN request.policy.perPrefix, SubSeq(f.norm, 1, 3))
=============================================================================
