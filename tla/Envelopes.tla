------------------------------ MODULE Envelopes ------------------------------
(***************************************************************************)
(* The message collector of a streaming job (workspace/messages.py,        *)
(* context.py) and the rows a batch commits with it (ingest.py).           *)
(*                                                                         *)
(* The collector sees every segment again on each attempt; the records up  *)
(* to the checkpoint are skipped, the rows around them are not.  A visit   *)
(* and a movement are written when a message first needs them, outside the *)
(* transaction of the batch.                                               *)
(***************************************************************************)
EXTENDS Integers, Sequences, FiniteSets

CONSTANTS
  File,    \* interchanges: sequences of segments
  Batch,   \* records in a batch
  Crashes, \* attempts that may die
  None     \* NULL

VARIABLES
  file,     \* the segments of the source
  follows,  \* stow_follows_eqd: contexts wait for the end of their message
  pos,      \* segments read in this attempt
  message,  \* Collector.current
  closed,   \* Collector.finished and the rows drained from it
  rows,     \* observation and context rows of the open batch
  ordinal,  \* of the last observation
  resume,   \* resume_after of this attempt
  ckpt,     \* the checkpoint: record, ordinal, done
  tables,   \* what is committed
  crashes

vars == <<file, follows, pos, message, closed, rows, ordinal, resume, ckpt, tables, crashes>>
work == <<pos, message, closed, rows, ordinal, resume>>

\* No message open, and a message before its first segment.
NewMessage(n, start) ==
  [no |-> n, segments |-> 0, voyage |-> None, visit |-> None, pending |-> None, contexts |-> <<>>,
   faults |-> {}, start |-> start]

Nothing  == [observations |-> {}, contexts |-> {}]
NoTables == [observations |-> {}, contexts |-> {}, messages |-> {}, visits |-> {}, movements |-> {}]

Init ==
  /\ file \in File
  /\ follows \in BOOLEAN
  /\ pos = 0 /\ message = None /\ closed = {} /\ rows = Nothing
  /\ ordinal = -1 /\ resume = 0
  /\ ckpt = [record |-> 0, ordinal |-> -1, done |-> FALSE]
  /\ tables = NoTables
  /\ crashes = 0

-----------------------------------------------------------------------------
(* One segment.                                                            *)

Reading == pos < Len(file) /\ ~ckpt.done /\ Cardinality(rows.observations) < Batch
Segment == file[pos + 1]

Count(m) == [m EXCEPT !.segments = @ + 1]

\* composite_visit_key: a visit is known by vessel and voyage, or it belongs
\* to one message.  resolve_visit finds the row or inserts it.
VisitKey(m) == IF m.voyage # None THEN <<"voyage", m.voyage>> ELSE <<"message", m.no>>

WithVisit(m) == IF m.visit = None THEN [m EXCEPT !.visit = VisitKey(m)] ELSE m

Resolved(m) ==
  [tables EXCEPT !.visits = @ \cup {WithVisit(m).visit},
                 !.movements = IF \E v \in @ : v.no = m.no THEN @
                               ELSE @ \cup {[no |-> m.no, visit |-> WithVisit(m).visit]}]

\* UNT checks the count it declares; a message closed without one is faulty.
Closed(m, faults) ==
  closed \cup {[no |-> m.no, segments |-> m.segments, faults |-> m.faults \cup faults,
                contexts |-> m.contexts, visit |-> WithVisit(m).visit]}

Step == pos' = pos + 1 /\ UNCHANGED <<file, follows, resume, ckpt, crashes>>

ReadUNB ==
  /\ Reading /\ Segment.tag = "UNB"
  /\ Step
  /\ message' = IF message = None THEN None ELSE Count(message)
  /\ UNCHANGED <<closed, rows, ordinal, tables>>

Opened == Cardinality({n \in 1 .. pos : file[n].tag = "UNH"})

\* UNH before the UNT of the message before closes that one.
ReadUNH ==
  /\ Reading /\ Segment.tag = "UNH"
  /\ Step
  /\ message' = Count(NewMessage(Opened + 1, pos))
  /\ IF message = None
     THEN UNCHANGED <<closed, tables>>
     ELSE /\ closed' = Closed(message, {"no trailer"})
          /\ tables' = Resolved(message)
  /\ UNCHANGED <<rows, ordinal>>

ReadTDT ==
  /\ Reading /\ Segment.tag = "TDT"
  /\ Step
  /\ message' = IF message = None THEN None
                ELSE [Count(message) EXCEPT !.voyage = Segment.value]
  /\ UNCHANGED <<closed, rows, ordinal, tables>>

\* The stowage belongs to the container before it, if the profile says so and
\* that one has none yet, and to the next one otherwise.
Stowed(m, position) ==
  LET last == Len(m.contexts) IN
  IF follows /\ last > 0 /\ m.contexts[last].stow = None
  THEN [m EXCEPT !.contexts[last].stow = position]
  ELSE [m EXCEPT !.pending = position]

ReadLOC ==
  /\ Reading /\ Segment.tag = "LOC"
  /\ Step
  /\ message' = IF message = None THEN None ELSE Stowed(Count(message), Segment.value)
  /\ UNCHANGED <<closed, rows, ordinal, tables>>

\* Mutant of NextOrdinal: a skipped record counts like any other.
OrdinalOfAny == ordinal + 1

\* A record up to the checkpoint is skipped: the ordinals go on behind it.
NextOrdinal == IF pos + 1 <= resume THEN -1 ELSE ordinal + 1

\* The record of a container: its observation, and its context at once or at
\* the end of the message.
ReadEQD ==
  /\ Reading /\ Segment.tag = "EQD"
  /\ Step
  /\ LET skipped == pos + 1 <= resume
         m == IF message = None THEN None ELSE WithVisit(Count(message))
         context == [ordinal |-> NextOrdinal, no |-> m.no, visit |-> m.visit, stow |-> m.pending]
     IN /\ ordinal' = IF skipped THEN ordinal ELSE NextOrdinal
        /\ message' = IF message = None THEN None
                      ELSE [m EXCEPT !.pending = None,
                                     !.contexts = IF follows THEN Append(@, context) ELSE @]
        /\ tables' = IF message = None THEN tables ELSE Resolved(Count(message))
        /\ rows' = IF skipped THEN rows
                   ELSE [observations |-> rows.observations \cup {[ordinal |-> NextOrdinal, record |-> pos + 1]},
                         contexts |-> IF follows \/ message = None THEN rows.contexts
                                      ELSE rows.contexts \cup {context}]
  /\ UNCHANGED closed

ReadUNT ==
  /\ Reading /\ Segment.tag = "UNT"
  /\ Step
  /\ message' = None
  /\ IF message = None
     THEN UNCHANGED <<closed, tables>>
     ELSE LET m == Count(message)
              faults == IF Segment.value = m.segments THEN {} ELSE {"count"}
          IN  closed' = Closed(m, faults) /\ tables' = Resolved(m)
  /\ UNCHANGED <<rows, ordinal>>

-----------------------------------------------------------------------------
(* flush: drain_messages and one transaction.  Every table ignores a row   *)
(* whose key is there already: ordinal, or message number.                 *)

\* new are rows with distinct keys.
Ignoring(old, new, Key(_)) == old \cup {r \in new : \A o \in old : Key(o) # Key(r)}

OrdinalOf(row) == row.ordinal
NumberOf(row)  == row.no

\* Of several rows with one key the first is inserted.
FirstOf(seqs) ==
  UNION {{s[i] : i \in {i \in DOMAIN s : \A k \in DOMAIN s : k < i => s[k].ordinal # s[i].ordinal}}
         : s \in seqs}

Drained == rows.contexts \cup FirstOf({m.contexts : m \in closed})

Committed(ready) ==
  [tables EXCEPT
     !.observations = Ignoring(@, rows.observations, OrdinalOf),
     !.contexts = Ignoring(@, Drained, OrdinalOf),
     !.messages = Ignoring(@, {[no |-> m.no, segments |-> m.segments, faults |-> m.faults]
                               : m \in ready}, NumberOf)]

Flush ==
  /\ ~ckpt.done
  /\ Cardinality(rows.observations) = Batch
  /\ tables' = Committed(closed)
  /\ closed' = {} /\ rows' = Nothing
  /\ ckpt' = [ckpt EXCEPT !.record = pos, !.ordinal = ordinal]
  /\ UNCHANGED <<file, follows, pos, message, ordinal, resume, crashes>>

\* Collector.finish closes a truncated message before the last flush.
FinishMessage ==
  /\ pos = Len(file) /\ ~ckpt.done
  /\ message # None
  /\ closed' = Closed(message, {"no trailer"})
  /\ tables' = Resolved(message)
  /\ message' = None
  /\ UNCHANGED <<file, follows, pos, rows, ordinal, resume, ckpt, crashes>>

LastFlush ==
  /\ pos = Len(file) /\ ~ckpt.done
  /\ message = None
  /\ Cardinality(rows.observations) < Batch
  /\ tables' = Committed(closed)
  /\ closed' = {} /\ rows' = Nothing
  /\ ckpt' = [record |-> IF rows.observations = {} THEN ckpt.record ELSE pos,
              ordinal |-> ordinal, done |-> TRUE]
  /\ UNCHANGED <<file, follows, pos, message, ordinal, resume, crashes>>

\* The worker dies and the next attempt begins at the checkpoint.
Crash ==
  /\ ~ckpt.done
  /\ crashes < Crashes
  /\ crashes' = crashes + 1
  /\ pos' = 0 /\ message' = None /\ closed' = {} /\ rows' = Nothing
  /\ ordinal' = ckpt.ordinal
  /\ resume' = ckpt.record
  /\ UNCHANGED <<file, follows, ckpt, tables>>

Next ==
  \/ ReadUNB \/ ReadUNH \/ ReadTDT \/ ReadLOC \/ ReadEQD \/ ReadUNT
  \/ Flush \/ FinishMessage \/ LastFlush \/ Crash

Spec == Init /\ [][Next]_vars

-----------------------------------------------------------------------------
(* The file itself, read in one go.                                        *)

At(t) == {n \in DOMAIN file : file[n].tag = t}
MessageAt(n) == Cardinality({u \in At("UNH") : u <= n})

\* The segments of message k: from its UNH to its UNT, to the next UNH or to
\* the end of the file.
Extent(k) ==
  {n \in DOMAIN file : MessageAt(n) = k /\ \A t \in At("UNT") : t < n => MessageAt(t) # k}

OrdinalAt(n) == Cardinality({e \in At("EQD") : e < n})
Between(a, b, t) == {n \in At(t) : a < n /\ n < b}

\* A message that begins with a stowage has each before its container.
Leading(k) ==
  \E l \in At("LOC") \cap Extent(k) : \A e \in At("EQD") \cap Extent(k) : l < e

\* The stowage a reader of the file sees at the container in segment n.
StowOf(n) ==
  LET k == MessageAt(n)
      near == {l \in At("LOC") \cap Extent(k) :
                 IF follows /\ ~Leading(k)
                 THEN l > n /\ Between(n, l, "EQD") = {} /\ Between(n, l, "LOC") = {}
                 ELSE l < n /\ Between(l, n, "EQD") = {} /\ Between(l, n, "LOC") = {}}
  IN  IF near = {} THEN None ELSE file[CHOOSE l \in near : TRUE].value

\* After any crashes the tables hold each message of the interchange once,
\* with the segments it really has (messages.py, UNIQUE (job_id, message_no)).
MessagesAreWhole ==
  ckpt.done =>
    {<<m.no, m.segments>> : m \in tables.messages}
      = {<<k, Cardinality(Extent(k))>> : k \in 1 .. Cardinality(At("UNH"))}

\* ingest.py: "observation ordinals for skipped records were restored from the
\* checkpoint": every record has the ordinal it has in a run without a crash.
OrdinalsAreStable ==
  /\ \A o \in tables.observations : o.record \in At("EQD") /\ o.ordinal = OrdinalAt(o.record)
  /\ ckpt.done => {o.record : o \in tables.observations} = At("EQD")

(* A context that names an observation is the one of its container, in its *)
(* message, with its stowage; and where contexts are written along with    *)
(* their records none gets lost, whatever was read again after a crash.    *)
RecordsKeepTheirContext ==
  /\ \A c \in tables.contexts : c.ordinal >= 0 =>
       \E n \in At("EQD") :
         /\ OrdinalAt(n) = c.ordinal
         /\ c.no = MessageAt(n)
         /\ c.stow = StowOf(n)
  /\ ckpt.done /\ ~follows =>
       \A n \in At("EQD") : n \in Extent(MessageAt(n)) /\ MessageAt(n) > 0 => \E c \in tables.contexts : c.ordinal = OrdinalAt(n)

\* Retries do not multiply visits and movements: one movement for a message,
\* whose visit its contexts name.
OneMovement ==
  /\ \A v, w \in tables.movements : v.no = w.no => v = w
  /\ \A c \in tables.contexts : [no |-> c.no, visit |-> c.visit] \in tables.movements

\* The tables are those of a run that never crashed, whatever was read again.
TablesMatchFile == MessagesAreWhole /\ OrdinalsAreStable /\ RecordsKeepTheirContext /\ OneMovement
=============================================================================
