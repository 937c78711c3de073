-------------------------------- MODULE Inbox --------------------------------
(***************************************************************************)
(* Polling an inbound directory (workspace/automation.py) and what is done *)
(* with the acknowledgments in it (workspace/feedback.py): a file becomes  *)
(* a job or receiver feedback, and a rejection starts a repair job.        *)
(*                                                                         *)
(* A client is a worker's tick or a request.  Each SELECT, each            *)
(* transaction and each use of the directory is a step, and a client may   *)
(* die between any two.  The job that run_once claims is left to the queue *)
(* (JobQueue); references to interchanges are left out of a correlation.   *)
(***************************************************************************)
EXTENDS Naturals, Sequences, FiniteSets, FiniteSetsExt

CONSTANTS
  Poller,      \* clients that poll the connection
  Desk,        \* clients that record acknowledgments and start repairs by hand
  Name,        \* files that may appear in the directory, in their sorted order
  Content,     \* digests of files
  ContentOf,   \* what is in a file
  Ack,         \* contents that look like an acknowledgment
  Verdict,     \* technical state of an acknowledgment
  Ref,         \* message references
  RefsOf,      \* those a content carries or answers
  MaxJobs      \* jobs in the model

ASSUME InboxAssumption ==
  /\ Name \subseteq Nat
  /\ Ack \subseteq Content
  /\ ContentOf \in [Name -> Content]
  /\ Verdict \in [Ack -> {"accepted", "rejected", "unrecognized"}]
  /\ RefsOf \in [Content -> SUBSET Ref]
  /\ MaxJobs \in Nat

VARIABLES
  came,        \* the files that were ever dropped
  dir,         \* the files in the directory
  inbox,       \* inbox_files of each content: state and feedback_id
  jobs,        \* jobs: content, options.repair and repair_of_feedback_id
  resolved,    \* jobs whose messages are staged or applied
  delivered,   \* jobs with a recorded delivery of an artifact
  feedback,    \* receiver_feedback
  pc, loc      \* where each client stands and what it remembers

Client    == Poller \cup Desk
farVars   == <<came, dir>>
jobVars   == <<jobs, resolved, delivered>>
clientVars == <<pc, loc>>
vars == <<came, dir, inbox, jobs, resolved, delivered, feedback, pc, loc>>

Job == 1 .. Len(jobs)
InboxRow    == [state : {"none", "registered", "job_created", "feedback_recorded", "failed"},
                feedback : Nat]
JobRow      == [content : Content, asked : Nat, repairs : Nat]
FeedbackRow == [text : Ack, state : {"exact", "ambiguous", "unmatched"},
                matched : SUBSET (1 .. MaxJobs), repair : 0 .. MaxJobs]
Places == {"idle", "next", "seen", "register", "head", "source", "submit", "find", "correlate",
           "insert", "decide", "repair", "resubmit", "link", "record", "failing",
           "archive"}

TypeOK ==
  /\ dir \subseteq came /\ came \subseteq Name
  /\ inbox \in [Content -> InboxRow]
  /\ \A j \in Job : jobs[j] \in JobRow
  /\ resolved \subseteq Job /\ delivered \subseteq Job
  /\ \A f \in DOMAIN feedback : feedback[f] \in FeedbackRow
  /\ pc \in [Client -> Places]

NoMatch == [state |-> "unmatched", matched |-> {}]
Blank == [names |-> {}, name |-> 0, text |-> 0, row |-> 0, corr |-> NoMatch, job |-> 0,
          hand |-> FALSE]

Init ==
  /\ came = {} /\ dir = {}
  /\ inbox = [d \in Content |-> [state |-> "none", feedback |-> 0]]
  /\ jobs = <<>> /\ feedback = <<>>
  /\ resolved = {} /\ delivered = {}
  /\ pc = [c \in Client |-> "idle"]
  /\ loc = [c \in Client |-> Blank]

Goto(c, place, l) ==
  /\ pc' = [pc EXCEPT ![c] = place]
  /\ loc' = [loc EXCEPT ![c] = IF place = "idle" THEN Blank ELSE l]

At(c, place) == pc[c] = place

\* The process dies, or an exception that nothing catches ends the poll.
GiveUp(c) ==
  /\ pc[c] # "idle"
  /\ Goto(c, "idle", Blank)
  /\ UNCHANGED <<farVars, inbox, jobVars, feedback>>

-----------------------------------------------------------------------------
(* poll_connection.                                                        *)

Drop(n) ==
  /\ n \notin came
  /\ came' = came \cup {n}
  /\ dir' = dir \cup {n}
  /\ UNCHANGED <<inbox, jobVars, feedback, clientVars>>

ListInbox(c) ==
  /\ At(c, "idle") /\ dir # {}
  /\ Goto(c, "next", [Blank EXCEPT !.names = dir])
  /\ UNCHANGED <<farVars, inbox, jobVars, feedback>>

\* A file that another poll has archived cannot be hashed: see GiveUp.
Fetch(c) ==
  /\ At(c, "next")
  /\ IF loc[c].names = {}
     THEN Goto(c, "idle", Blank)
     ELSE LET n == Min(loc[c].names) IN
            /\ n \in dir
            /\ Goto(c, "seen", [Blank EXCEPT !.names = loc[c].names \ {n}, !.name = n,
                                             !.text = ContentOf[n]])
  /\ UNCHANGED <<farVars, inbox, jobVars, feedback>>

CheckSeen(c) ==
  /\ At(c, "seen")
  /\ Goto(c, IF inbox[loc[c].text].state = "none" THEN "register" ELSE "archive", loc[c])
  /\ UNCHANGED <<farVars, inbox, jobVars, feedback>>

\* Mutant of Register: nothing keeps a digest unique.
RegisterAgain(c) ==
  /\ At(c, "register")
  /\ inbox' = [inbox EXCEPT ![loc[c].text].state = "registered"]
  /\ Goto(c, "head", loc[c])
  /\ UNCHANGED <<farVars, jobVars, feedback>>

\* UNIQUE (connection_id, sha256).
Register(c) ==
  /\ At(c, "register")
  /\ inbox[loc[c].text].state = "none"
  /\ inbox' = [inbox EXCEPT ![loc[c].text].state = "registered"]
  /\ Goto(c, "head", loc[c])
  /\ UNCHANGED <<farVars, jobVars, feedback>>

ReadHead(c) ==
  /\ At(c, "head")
  /\ loc[c].name \in dir
  /\ Goto(c, IF loc[c].text \in Ack THEN "find" ELSE "source", loc[c])
  /\ UNCHANGED <<farVars, inbox, jobVars, feedback>>

\* register_source copies the file and create_intent declares what it is.
RegisterSource(c) ==
  /\ At(c, "source")
  /\ loc[c].name \in dir
  /\ Goto(c, "submit", loc[c])
  /\ UNCHANGED <<farVars, inbox, jobVars, feedback>>

Submit(c) ==
  /\ At(c, "submit") /\ Len(jobs) < MaxJobs
  /\ jobs' = Append(jobs, [content |-> loc[c].text, asked |-> 0, repairs |-> 0])
  /\ Goto(c, "record", loc[c])
  /\ UNCHANGED <<farVars, inbox, resolved, delivered, feedback>>

Record(c) ==
  /\ At(c, "record")
  /\ inbox' = [inbox EXCEPT ![loc[c].text] =
       [state |-> IF loc[c].text \in Ack THEN "feedback_recorded" ELSE "job_created",
        feedback |-> loc[c].row]]
  /\ Goto(c, "archive", loc[c])
  /\ UNCHANGED <<farVars, jobVars, feedback>>

\* Any exception while a file is worked on, such as a file that has gone.
Stumble(c) ==
  /\ pc[c] \in {"source", "submit", "find", "correlate", "insert", "decide", "repair",
                "resubmit", "link"}
  /\ ~loc[c].hand
  /\ Goto(c, "failing", loc[c])
  /\ UNCHANGED <<farVars, inbox, jobVars, feedback>>

\* Mutant of RecordFailure: what was reached is recorded.
RecordAnyhow(c) ==
  /\ At(c, "failing")
  /\ inbox' = [inbox EXCEPT ![loc[c].text] =
       [state |-> IF loc[c].row # 0 THEN "feedback_recorded" ELSE "failed",
        feedback |-> loc[c].row]]
  /\ Goto(c, "archive", loc[c])
  /\ UNCHANGED <<farVars, jobVars, feedback>>

RecordFailure(c) ==
  /\ At(c, "failing")
  /\ inbox' = [inbox EXCEPT ![loc[c].text].state = "failed"]
  /\ Goto(c, "archive", loc[c])
  /\ UNCHANGED <<farVars, jobVars, feedback>>

Archive(c) ==
  /\ At(c, "archive")
  /\ loc[c].name \in dir
  /\ dir' = dir \ {loc[c].name}
  /\ Goto(c, "next", loc[c])
  /\ UNCHANGED <<came, inbox, jobVars, feedback>>

-----------------------------------------------------------------------------
(* ingest_feedback and _correlate.                                         *)

Carriers(r) == {j \in resolved : r \in RefsOf[jobs[j].content]}

\* Of several jobs those with a recorded delivery are preferred.
Rows(r) == IF Cardinality(Carriers(r)) > 1 /\ Carriers(r) \cap delivered # {}
           THEN Carriers(r) \cap delivered ELSE Carriers(r)

\* One state for all references; only the jobs of exact ones are remembered.
Correlation(refs) ==
  LET one  == {r \in refs : Cardinality(Rows(r)) = 1}
      many == {r \in refs : Cardinality(Rows(r)) > 1}
  IN  [state |-> IF one = refs /\ refs # {} THEN "exact"
                 ELSE IF one \cup many # {} THEN "ambiguous" ELSE "unmatched",
       matched |-> UNION {Rows(r) : r \in one}]

PostFeedback(c) ==
  /\ At(c, "idle")
  /\ \E t \in Ack : Goto(c, "find", [Blank EXCEPT !.text = t, !.hand = TRUE])
  /\ UNCHANGED <<farVars, inbox, jobVars, feedback>>

\* The same text is answered with the feedback that is there.
FindFeedback(c) ==
  /\ At(c, "find")
  /\ loc[c].hand \/ loc[c].name \in dir
  /\ LET same == {f \in DOMAIN feedback : feedback[f].text = loc[c].text} IN
       IF same = {} THEN Goto(c, "correlate", loc[c])
       ELSE \E f \in same : Goto(c, "decide", [loc[c] EXCEPT !.row = f])
  /\ UNCHANGED <<farVars, inbox, jobVars, feedback>>

Correlate(c) ==
  /\ At(c, "correlate")
  /\ Goto(c, "insert", [loc[c] EXCEPT !.corr = Correlation(RefsOf[loc[c].text])])
  /\ UNCHANGED <<farVars, inbox, jobVars, feedback>>

InsertFeedback(c) ==
  /\ At(c, "insert")
  /\ feedback' = Append(feedback, [text |-> loc[c].text, state |-> loc[c].corr.state,
                                   matched |-> loc[c].corr.matched, repair |-> 0])
  /\ Goto(c, "decide", [loc[c] EXCEPT !.row = Len(feedback) + 1, !.corr = NoMatch])
  /\ UNCHANGED <<farVars, inbox, jobVars>>

Repairable(f) == Verdict[feedback[f].text] = "rejected" /\ feedback[f].state = "exact"

\* The poll starts a repair, a request by hand only answers.
Decide(c) ==
  /\ At(c, "decide")
  /\ Goto(c, IF loc[c].hand THEN "idle"
             ELSE IF Repairable(loc[c].row) /\ feedback[loc[c].row].repair = 0 THEN "repair"
             ELSE "record", loc[c])
  /\ UNCHANGED <<farVars, inbox, jobVars, feedback>>

-----------------------------------------------------------------------------
(* start_repair.                                                           *)

AskRepair(c) ==
  /\ At(c, "idle")
  /\ \E f \in DOMAIN feedback : Goto(c, "repair", [Blank EXCEPT !.row = f, !.hand = TRUE])
  /\ UNCHANGED <<farVars, inbox, jobVars, feedback>>

After(c) == IF loc[c].hand THEN "idle" ELSE "record"

\* The newest built artifact of the job becomes a source.
CheckRepair(c) ==
  /\ At(c, "repair")
  /\ LET f == feedback[loc[c].row] IN
       IF f.repair # 0
       THEN Goto(c, After(c), loc[c])
       ELSE /\ Repairable(loc[c].row)
            /\ \E j \in f.matched : f.matched = {j} /\ Goto(c, "resubmit", [loc[c] EXCEPT !.job = j])
  /\ UNCHANGED <<farVars, inbox, jobVars, feedback>>

Resubmit(c) ==
  /\ At(c, "resubmit") /\ Len(jobs) < MaxJobs
  /\ jobs' = Append(jobs, [content |-> jobs[loc[c].job].content, asked |-> loc[c].row,
                            repairs |-> 0])
  /\ Goto(c, "link", [loc[c] EXCEPT !.job = Len(jobs) + 1])
  /\ UNCHANGED <<farVars, inbox, resolved, delivered, feedback>>

Link(c) ==
  /\ At(c, "link")
  /\ jobs' = [jobs EXCEPT ![loc[c].job].repairs = loc[c].row]
  /\ feedback' = [feedback EXCEPT ![loc[c].row].repair = loc[c].job]
  /\ Goto(c, After(c), loc[c])
  /\ UNCHANGED <<farVars, inbox, resolved, delivered>>

\* Jobs run, are published, and their artifacts delivered.
Progress ==
  /\ \E j \in Job :
       \/ j \notin resolved /\ resolved' = resolved \cup {j} /\ UNCHANGED delivered
       \/ j \in resolved \ delivered /\ delivered' = delivered \cup {j} /\ UNCHANGED resolved
  /\ UNCHANGED <<farVars, inbox, jobs, feedback, clientVars>>

-----------------------------------------------------------------------------
Poll(c) ==
  \/ ListInbox(c) \/ Fetch(c) \/ CheckSeen(c) \/ Register(c) \/ ReadHead(c)
  \/ RegisterSource(c) \/ Submit(c) \/ Record(c) \/ Stumble(c) \/ RecordFailure(c) \/ Archive(c)

Answer(c) ==
  \/ FindFeedback(c) \/ Correlate(c) \/ InsertFeedback(c) \/ Decide(c)
  \/ CheckRepair(c) \/ Resubmit(c) \/ Link(c)

Next ==
  \/ \E n \in Name : Drop(n)
  \/ \E c \in Poller : Poll(c)
  \/ \E c \in Desk : PostFeedback(c) \/ AskRepair(c)
  \/ \E c \in Client : Answer(c) \/ GiveUp(c)
  \/ Progress

Spec == Init /\ [][Next]_vars

-----------------------------------------------------------------------------
Fed(d) == {j \in Job : jobs[j].content = d /\ jobs[j].asked = 0}

\* automation.py: "a tick can run any number of times without registering a
\* feed ... twice": one content in the inbox makes at most one job, whatever
\* polls run at the same time or die, and under however many names it comes.
OneJobPerFile == \A d \in Content : Cardinality(Fed(d)) <= 1

\* automation.py: "a rejection with an exact correlation starts the linked repair
\* draft": a file that is recorded as such feedback has its repair, and a repair
\* that feedback names was asked for it, is linked back to it, and repairs the
\* one job the rejection was matched to: across polls, requests and crashes.
RejectionsAreRepaired ==
  /\ \A f \in DOMAIN feedback :
       LET j == feedback[f].repair IN
       j # 0 => /\ jobs[j].repairs = f /\ jobs[j].asked = f /\ Repairable(f)
                /\ \E of \in Job : feedback[f].matched = {of} /\ jobs[j].content = jobs[of].content
  /\ \A d \in Ack :
       inbox[d].state = "feedback_recorded" /\ Repairable(inbox[d].feedback)
         => feedback[inbox[d].feedback].repair # 0
=============================================================================
