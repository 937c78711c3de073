------------------------------ MODULE MCReview -------------------------------
(* Small instances of Artifacts (which extends Review), Envelopes and      *)
(* Lifecycle for TLC.  They share no state here: a behavior is one of a    *)
(* review, of the collector of messages or of the life cycle of messages.  *)
EXTENDS Artifacts, Lifecycle, TLC

(* ---- reviews ---- *)

CONSTANTS c1, c2, x, y, k1

\* What the first analysis makes of the observations, and what the later one may: another
\* candidate for the first, or the same and one for the second.
Same == <<x, None>>
Results == {<<y, None>>, <<x, x>>}

OneRecord == [o \in Ordinal |-> 1]

\* c1 decides and builds, c2 analyses again.
OneKey == c1 :> {k1} @@ c2 :> {}

(* ---- the messages of a file ---- *)

S(t, v) == [tag |-> t, value |-> v]

\* Stowage before the container, as in a bay plan, or behind it.
Before == <<S("UNB", None), S("UNH", None), S("TDT", "v1"), S("LOC", "a"), S("EQD", None),
            S("LOC", "b"), S("EQD", None), S("UNT", 6),
            S("UNH", None), S("EQD", None), S("TDT", "v1"), S("EQD", None), S("UNT", 5)>>
Behind == <<S("UNH", None), S("TDT", "v1"), S("EQD", None), S("LOC", "a"), S("EQD", None),
            S("EQD", None), S("LOC", "b"), S("UNT", 9),
            S("UNH", None), S("TDT", "v1"), S("EQD", None), S("LOC", "c")>>
Stray  == <<S("EQD", None), S("UNH", None), S("EQD", None), S("UNH", None), S("LOC", "a"),
            S("EQD", None), S("UNT", 3), S("LOC", "b"), S("UNT", 1), S("EQD", None)>>
Files == {Before, Behind, Stray}

M(key, revision, digest, function, seq, sound) ==
  [key |-> key, revision |-> revision, digest |-> digest, function |-> function, seq |-> seq,
   sound |-> sound]

Original   == M("k", "r1", "d1", "original", 2, TRUE)
Repayload  == M("k", "r1", "d2", "original", 2, TRUE)
Addition   == M("k", "r0", "d1", "addition", Null, TRUE)
Change     == M("k", "r3", "d1", "change", 3, TRUE)
Earlier    == M("k", "r2", "d1", "replacement", 1, TRUE)
Cancel     == M("k", "r4", "d1", "cancellation", 4, TRUE)
Strange    == M("k", "r5", "d1", "unsupported", 5, FALSE)
OtherOne   == M("o", "r1'", "d1", "original", Null, TRUE)

Contents == {<<Original>>, <<Repayload>>, <<Addition>>, <<Change>>, <<Earlier>>, <<Cancel>>,
             <<Strange, OtherOne>>, <<Change, Cancel>>, <<Cancel, OtherOne>>, <<Earlier, Change>>,
             <<Original, Repayload>>}

VARIABLES file, follows, pos, message, closed, rows, ordinal, resume, ckpt, tables, crashes

fileVars == <<file, follows, pos, message, closed, rows, ordinal, resume, ckpt, tables, crashes>>

E == INSTANCE Envelopes WITH File <- Files, Batch <- 2, Crashes <- 2

VARIABLE side

InitAll ==
  /\ InitArtifacts /\ E!Init /\ LifeInit
  /\ side \in {"review", "file", "jobs"}
  /\ side # "file" => file = Before /\ ~follows

NextAll ==
  /\ UNCHANGED side
  /\ \/ side = "review" /\ Next /\ UNCHANGED <<fileVars, lifeVars>>
     \/ side = "file" /\ E!Next /\ UNCHANGED <<vars, lifeVars>>
     \/ side = "jobs" /\ LifeNext /\ UNCHANGED <<vars, fileVars>>

SpecAll == InitAll /\ [][NextAll]_<<vars, fileVars, lifeVars, side>>

TablesMatchFile == E!TablesMatchFile
=============================================================================
