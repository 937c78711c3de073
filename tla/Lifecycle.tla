------------------------------ MODULE Lifecycle ------------------------------
(***************************************************************************)
(* The life of messages across jobs (workspace/messages.py): the feed      *)
(* gates resolve the messages of a job against those already applied, the  *)
(* transaction after them compares the generation, and publication applies *)
(* what was resolved.  The lines of fleet versions are those of module     *)
(* Generations, reduced to the pointer and the pinned baselines.           *)
(***************************************************************************)
EXTENDS Naturals, Sequences, FiniteSets

CONSTANTS
  NJobs,        \* jobs with a generation each, in the order of submission
  Content,      \* what the messages of a file may be
  Replaces,     \* original_on_existing = "replace" in the profile
  PinsAny,      \* intents may pin a generation that is not published
  Null          \* NULL

ASSUME LifecycleAssumption ==
  /\ NJobs \in Nat
  /\ \A messages \in Content : Len(messages) \in Nat /\ DOMAIN messages = 1 .. Len(messages)

Job == 1 .. NJobs

VARIABLES
  content,   \* the messages of each job, set when it is submitted
  base,      \* the pinned baseline of its intent
  gen,       \* generations.state
  verdict,   \* the gates that stood between the two transactions of finish_job
  row,       \* lifecycle_resolution, superseded_by and applied_at
  current,   \* workspaces.current_generation_id
  effects    \* no table: every application, in order, with what it displaced

lifeVars == <<content, base, gen, verdict, row, current, effects>>

\* A message: business key, revision key, payload digest, function, sequence
\* number, and whether its syntax and schema checks passed; those of an
\* unsupported function or with unresolved keys do not.
Functions == {"original", "addition", "change", "replacement", "cancellation", "unsupported"}
Resolutions == {"staged", "blocked_unsupported", "held_predecessor_unresolved",
                "held_older_revision", "applied_scoped", "superseded", "cancelled"}

Fresh == [resolution |-> "staged", by |-> Null, order |-> 0]

LifeInit ==
  /\ content = [j \in Job |-> <<>>]
  /\ base = [j \in Job |-> 0]
  /\ gen = [j \in Job |-> "none"]
  /\ verdict = [j \in Job |-> "none"]
  /\ row = [j \in Job |-> <<>>]
  /\ current = 0
  /\ effects = <<>>

-----------------------------------------------------------------------------
Ids == UNION {{<<j, i>> : i \in DOMAIN content[j]} : j \in Job}
Msg(m) == content[m[1]][m[2]]
Res(m) == row[m[1]][m[2]].resolution

LifeTypeOK ==
  /\ DOMAIN content = Job /\ \A j \in Job : content[j] \in Content \cup {<<>>}
  /\ gen \in [Job -> {"none", "candidate", "publishable", "published", "superseded"}]
  /\ verdict \in [Job -> {"none", "clear", "blocked"}]
  /\ DOMAIN row = Job
  /\ \A j \in Job : row[j] \in [DOMAIN content[j] -> [resolution : Resolutions, by : Ids \cup {Null}, order : Nat]]
  /\ base \in [Job -> 0 .. NJobs] /\ current \in 0 .. NJobs
  /\ effects \in Seq([id : Ids, over : SUBSET Ids])

-----------------------------------------------------------------------------
\* A page pins the generation it read as published; any other that exists may be named.
Submit(j, messages, b) ==
  /\ gen[j] = "none"
  /\ \A h \in Job : h < j => gen[h] # "none"
  /\ b \in {0} \cup {h \in Job : gen[h] \in {"published", "superseded"} \/ (PinsAny /\ gen[h] # "none")}
  /\ content' = [content EXCEPT ![j] = messages]
  /\ base' = [base EXCEPT ![j] = b]
  /\ gen' = [gen EXCEPT ![j] = "candidate"]
  /\ row' = [row EXCEPT ![j] = [i \in DOMAIN messages |-> Fresh]]
  /\ UNCHANGED <<verdict, current, effects>>

Some(ms) == CHOOSE m \in ms : TRUE

\* Of the rows ORDER BY applied_at DESC, the first.
Latest(ms) ==
  IF ms = {} THEN Null
  ELSE Some({m \in ms : \A n \in ms : row[n[1]][n[2]].order <= row[m[1]][m[2]].order})

SameRevision(j, m) ==
  Latest({n \in Ids : /\ n[1] # j
                      /\ Msg(n).revision = m.revision
                      /\ Res(n) \in {"applied_scoped", "superseded", "cancelled"}})

Current(j, m) ==
  Latest({n \in Ids : n[1] # j /\ Msg(n).key = m.key /\ Res(n) = "applied_scoped"})

Older(m, than) == m.seq # Null /\ Msg(than).seq # Null /\ m.seq < Msg(than).seq

Amends(m) == m.function \in {"change", "replacement", "cancellation"}

\* resolve_lifecycle, per message.
Resolution(j, m) ==
  LET same == SameRevision(j, m)
      cur == Current(j, m)
  IN CASE m.function = "unsupported" -> "blocked_unsupported"
       [] m.function # "unsupported" /\ same = Null /\ Amends(m) /\ cur = Null ->
            "held_predecessor_unresolved"
       [] m.function # "unsupported" /\ same = Null /\ Amends(m) /\ cur # Null /\ Older(m, cur) ->
            "held_older_revision"
       [] OTHER -> "staged"

\* What keeps the job from being published.  A message that is unsupported or
\* older is left out without blocking the others; its schema issue blocks.
Blocks(j, m) ==
  \/ ~m.sound
  \/ /\ m.function # "unsupported"
     /\ LET same == SameRevision(j, m) IN
        IF same # Null THEN Msg(same).digest # m.digest
        ELSE IF Amends(m) THEN Current(j, m) = Null
        ELSE Current(j, m) # Null /\ ~Replaces

\* feed_gates: one transaction that rewrites the resolution of every message.
FeedGates(j) ==
  /\ gen[j] \in {"candidate", "publishable"}
  /\ verdict[j] = "none"
  /\ row' = [row EXCEPT ![j] =
       [i \in DOMAIN content[j] |-> [@[i] EXCEPT !.resolution = Resolution(j, content[j][i])]]]
  /\ verdict' = [verdict EXCEPT ![j] =
       IF \E i \in DOMAIN content[j] : Blocks(j, content[j][i]) THEN "blocked" ELSE "clear"]
  /\ UNCHANGED <<content, base, gen, current, effects>>

\* Mutant of Compare: the verdict of the gates is not carried over.
CompareBlindly(j) ==
  /\ verdict[j] # "none"
  /\ gen[j] \in {"candidate", "publishable"}
  /\ gen' = [gen EXCEPT ![j] = IF base[j] = current THEN "publishable" ELSE "candidate"]
  /\ verdict' = [verdict EXCEPT ![j] = "none"]
  /\ UNCHANGED <<content, base, row, current, effects>>

\* The transaction after it.
Compare(j) ==
  /\ verdict[j] # "none"
  /\ gen[j] \in {"candidate", "publishable"}
  /\ gen' = [gen EXCEPT ![j] = IF verdict[j] = "clear" /\ base[j] = current
                               THEN "publishable" ELSE "candidate"]
  /\ verdict' = [verdict EXCEPT ![j] = "none"]
  /\ UNCHANGED <<content, base, row, current, effects>>

-----------------------------------------------------------------------------
(* apply_on_publish, message by message.                                   *)

\* s is a pair of the rows so far and the effects so far.
Clash(s, j, m) ==
  {n \in Ids : /\ n[1] # j
               /\ Msg(n).revision = m.revision
               /\ s.row[n[1]][n[2]].resolution \in {"applied_scoped", "superseded", "cancelled"}}

InForce(s, m, id) ==
  {n \in Ids : n # id /\ Msg(n).key = m.key /\ s.row[n[1]][n[2]].resolution = "applied_scoped"}

Displace(r, ns, id, how) ==
  [j \in Job |-> [i \in DOMAIN r[j] |->
     IF <<j, i>> \in ns THEN [r[j][i] EXCEPT !.resolution = how, !.by = id] ELSE r[j][i]]]

\* Mutant of Applied: what the message displaces stays in force.
AppliedBeside(s, id) ==
  LET m == Msg(id)
      clash == Clash(s, id[1], m)
  IN CASE s.row[id[1]][id[2]].resolution # "staged" -> s
       [] s.row[id[1]][id[2]].resolution = "staged" /\ clash # {} ->
            [s EXCEPT !.row[id[1]][id[2]].resolution = "superseded"]
       [] OTHER ->
            [row |-> [s.row EXCEPT ![id[1]][id[2]].resolution = "applied_scoped"],
             effects |-> Append(s.effects, [id |-> id, over |-> InForce(s, m, id)])]

Applied(s, id) ==
  LET m == Msg(id)
      clash == Clash(s, id[1], m)
      displaced == InForce(s, m, id)
      how == IF m.function = "cancellation" THEN "cancelled" ELSE "superseded"
      r == Displace(s.row, displaced, id, how)
      n == Len(s.effects) + 1
  IN CASE s.row[id[1]][id[2]].resolution # "staged" -> s
       [] s.row[id[1]][id[2]].resolution = "staged" /\ clash # {} ->
            [s EXCEPT !.row[id[1]][id[2]] =
               [resolution |-> "superseded", by |-> Some(clash), order |-> n]]
       [] OTHER ->
            [row |-> [r EXCEPT ![id[1]][id[2]].resolution = "applied_scoped",
                               ![id[1]][id[2]].order = n],
             effects |-> Append(s.effects, [id |-> id, over |-> displaced])]

\* The state after the first n messages of the job.
After(j) ==
  LET state[n \in 0 .. Len(content[j])] ==
        IF n = 0 THEN [row |-> row, effects |-> effects] ELSE Applied(state[n - 1], <<j, n>>)
  IN  state[Len(content[j])]

\* A message that conflicts with one applied meanwhile rolls everything back.
Conflicts(j) ==
  \E i \in DOMAIN content[j] :
    /\ Res(<<j, i>>) = "staged"
    /\ SameRevision(j, content[j][i]) # Null
    /\ Msg(SameRevision(j, content[j][i])).digest # content[j][i].digest

\* publish: the baseline is checked again, the rows and the pointer move together.
Publish(j) ==
  /\ gen[j] = "publishable"
  /\ base[j] = current
  /\ ~Conflicts(j)
  /\ row' = After(j).row
  /\ effects' = After(j).effects
  /\ gen' = [h \in Job |-> IF h = j THEN "published"
                           ELSE IF h = current /\ gen[h] = "published" THEN "superseded"
                           ELSE gen[h]]
  /\ current' = j
  /\ UNCHANGED <<content, base, verdict>>

LifeNext ==
  \E j \in Job :
    \/ \E messages \in Content, b \in 0 .. NJobs : Submit(j, messages, b)
    \/ FeedGates(j) \/ Compare(j) \/ Publish(j)

LifeSpec == LifeInit /\ [][LifeNext]_lifeVars

-----------------------------------------------------------------------------
\* At most one message of a business key is in force, however many jobs and
\* messages of a job carried it; and two files never both apply one revision
\* (DEFAULTS.md: "Same revision key and matching payload digest: duplicate,
\* effect applied once.  Same revision key, different payload: nothing applied").
OnePerKey ==
  \A m, n \in Ids : /\ Msg(m).key = Msg(n).key
                     /\ Res(m) = "applied_scoped" /\ Res(n) = "applied_scoped"
                     => m = n

OncePerRevision ==
  \A a, b \in DOMAIN effects :
    effects[a].id[1] # effects[b].id[1]
      => Msg(effects[a].id).revision # Msg(effects[b].id).revision

\* With the types of the variables.
OneInForce == LifeTypeOK /\ OnePerKey /\ OncePerRevision

\* "An older revision after a newer one is retained without replacing the
\* current version", and "A change, replacement or cancellation whose predecessor
\* is missing is held": at the time of its effect, not of the gates.
NewestStays ==
  \A a \in DOMAIN effects : LET m == effects[a].id IN
    Amends(Msg(m)) => /\ effects[a].over # {}
                      /\ \A n \in effects[a].over : n[1] # m[1] => ~Older(Msg(m), n)

\* "nothing applied automatically": a revision with another payload, or an
\* original of a business key in force, stays out of a generation on offer.
NothingConflicts ==
  \A j \in Job : gen[j] = "publishable" /\ base[j] = current =>
    \A i \in DOMAIN content[j] : ~Blocks(j, content[j][i])

\* What the gates said of a message still holds when it is offered and when it is applied,
\* though gates, comparison and publication are transactions of their own.
ConflictIsNeverOffered == NothingConflicts /\ NewestStays
=============================================================================
