------------------------------ MODULE Exchange -------------------------------
(***************************************************************************)
(* Sending a corrected file to a receiver (workspace/transmit.py) over an  *)
(* outbound connection (workspace/connections.py) whose receiver profile   *)
(* (workspace/profiles.py) administrators verify and take back.            *)
(*                                                                         *)
(* One artifact, one connection and one profile.  A client carries one     *)
(* request at a time; each SELECT, each transaction and each call of the   *)
(* transport is a step.  An attempt is named by its idempotency key.  A    *)
(* send may be slower than its own lease, and the receiver may collect a   *)
(* file from the outbox at any moment.                                     *)
(***************************************************************************)
EXTENDS Naturals, Sequences, FiniteSets

CONSTANTS
  Client,       \* requests in flight at one time
  Admin,        \* the clients that administer connections and profiles
  Key,          \* idempotency keys of deliveries
  KeysOf,       \* the keys a client may give
  None,         \* NULL
  Kinds,        \* kinds of transport the connection may have
  Notes,        \* whether administrators add a note to a resend
  Recorded,     \* verification states administrators record
  MaxActs,      \* bound on the administrators' acts
  Handling      \* connections.duplicate_handling of the receiver

ASSUME ExchangeAssumption ==
  /\ Admin \subseteq Client
  /\ KeysOf \in [Client -> SUBSET Key]
  /\ None \notin Key
  /\ MaxActs \in Nat
  /\ Kinds \subseteq {"filesystem", "https"}
  /\ Notes \subseteq BOOLEAN
  /\ Recorded \subseteq {"unverified", "partner_tested", "production_enabled"}
  /\ Handling \in {"unknown", "rejects_duplicates", "accepts_duplicates"}

VARIABLES
  con,        \* connections: kind, state, authorized_by, verification_json.ok
  profile,    \* feed_profiles.verification_state
  approval,   \* approvals: state and authorization_scope
  artifact,   \* export_artifacts.state
  attempt,    \* delivery_attempts
  outbox,     \* the names in the receiver's directory
  copies,     \* how often the receiver got the file of an attempt
  pc,         \* where each client stands
  loc,        \* what it remembers
  stale,      \* the rows recover_stale has selected and not yet written
  acts        \* how often administrators and other requests interfered

tableVars == <<con, profile, approval, artifact, attempt>>
farVars   == <<outbox, copies>>
vars == <<con, profile, approval, artifact, attempt, outbox, copies, pc, loc, stale, acts>>

Verification == {"unverified", "fixture_tested", "partner_tested", "production_enabled"}
Outcomes     == {"delivery_confirmed", "failed", "outcome_unknown"}

AttemptRow == [state : {"none", "sending"} \cup Outcomes, lease : {"none", "live", "past"},
               of : Key \cup {None}, note : BOOLEAN]
NoAttempt  == [state |-> "none", lease |-> "none", of |-> None, note |-> FALSE]

\* A name is the one of the corrected file ("file") or that of a resend.
Name == {"file"} \cup Key
NameOf(k, of) == IF of = None THEN "file" ELSE k

Checks == <<"artifact", "connection", "profile", "approval">>
Places == {"idle", "verified", "enabling", "enable", "fixtures", "authorize",
           "lookup", "insert", "connect", "copy", "receipt", "outcome"}
          \cup {Checks[i] : i \in DOMAIN Checks}

TypeOK ==
  /\ con \in [kind : Kinds, state : {"draft", "authorized", "verified", "enabled", "disabled"},
              authorized : BOOLEAN, ok : BOOLEAN]
  /\ profile \in Verification
  /\ approval \in [state : {"recorded", "stale"}, scope : {"artifact", "transmission"}]
  /\ artifact \in {"ready", "superseded"}
  /\ attempt \in [Key -> AttemptRow]
  /\ outbox \subseteq Name
  /\ copies \in [Key -> Nat]
  /\ pc \in [Client -> Places]
  /\ stale \subseteq Key
  /\ acts \in 0 .. MaxActs

NewConnection(kind) == [kind |-> kind, state |-> "draft", authorized |-> FALSE, ok |-> FALSE]
NewProfile == "unverified"
Blank      == [request |-> "none"]

Init ==
  /\ \E kind \in Kinds : con = NewConnection(kind)
  /\ profile = NewProfile
  /\ approval = [state |-> "recorded", scope |-> "artifact"]
  /\ artifact = "ready"
  /\ attempt = [k \in Key |-> NoAttempt]
  /\ outbox = {}
  /\ copies = [k \in Key |-> 0]
  /\ pc = [c \in Client |-> "idle"]
  /\ loc = [c \in Client |-> Blank]
  /\ stale = {}
  /\ acts = 0

Network == con.kind = "https"

Goto(c, place, l) ==
  /\ pc' = [pc EXCEPT ![c] = place]
  /\ loc' = [loc EXCEPT ![c] = IF place = "idle" THEN Blank ELSE l]

\* The request is refused or its process dies: what it wrote so far stays.
GiveUp(c) ==
  /\ pc[c] # "idle"
  /\ Goto(c, "idle", Blank)
  /\ UNCHANGED <<tableVars, farVars, stale, acts>>

-----------------------------------------------------------------------------
(* Administration of the connection and of the profile.                    *)

Interferes == acts < MaxActs /\ acts' = acts + 1
Act(c) == pc[c] = "idle" /\ c \in Admin /\ Interferes

\* The state moves only from draft: a disabled connection stays disabled.
Authorize(c) ==
  /\ Act(c)
  /\ con' = [con EXCEPT !.authorized = TRUE, !.state = IF @ = "draft" THEN "authorized" ELSE @]
  /\ UNCHANGED <<profile, approval, artifact, attempt, farVars, pc, loc, stale>>

\* verify reads the row, contacts the other side and then writes what it found.
Contact(c) ==
  /\ Act(c)
  /\ Network => con.authorized
  /\ \E ok \in BOOLEAN : Goto(c, "verified", [request |-> "verify", ok |-> ok])
  /\ UNCHANGED <<tableVars, farVars, stale>>

AfterVerify(state, ok) ==
  CASE ok /\ state \in {"authorized", "verified"} -> "verified"
    [] ~ok /\ state = "verified"                  -> "authorized"
    [] OTHER                                      -> state

RecordVerification(c) ==
  /\ pc[c] = "verified"
  /\ con' = [con EXCEPT !.ok = loc[c].ok, !.state = AfterVerify(@, loc[c].ok)]
  /\ Goto(c, "idle", Blank)
  /\ UNCHANGED <<profile, approval, artifact, attempt, farVars, stale, acts>>

\* Mutant of CheckConnection: a test that passed stands for the authorization.
CheckTestOnly(c) ==
  /\ Act(c)
  /\ con.ok
  /\ Goto(c, "enabling", [request |-> "enable"])
  /\ UNCHANGED <<tableVars, farVars, stale>>

CheckConnection(c) ==
  /\ Act(c)
  /\ con.authorized /\ con.ok
  /\ Goto(c, "enabling", [request |-> "enable"])
  /\ UNCHANGED <<tableVars, farVars, stale>>

CheckProfile(c) ==
  /\ pc[c] = "enabling"
  /\ profile = "production_enabled"
  /\ Goto(c, "enable", loc[c])
  /\ UNCHANGED <<tableVars, farVars, stale, acts>>

Enable(c) ==
  /\ pc[c] = "enable"
  /\ con' = [con EXCEPT !.state = "enabled"]
  /\ Goto(c, "idle", Blank)
  /\ UNCHANGED <<profile, approval, artifact, attempt, farVars, stale, acts>>

Disable(c) ==
  /\ Act(c)
  /\ con' = [con EXCEPT !.state = "disabled"]
  /\ UNCHANGED <<profile, approval, artifact, attempt, farVars, pc, loc, stale>>

SetVerification(c) ==
  /\ Act(c)
  /\ \E v \in Recorded : profile' = v
  /\ UNCHANGED <<con, approval, artifact, attempt, farVars, pc, loc, stale>>

\* verify_fixtures runs the fixtures and then writes; only clean ones leave a
\* higher state alone.
RunFixtures(c) ==
  /\ Act(c)
  /\ \E ok \in BOOLEAN : Goto(c, "fixtures", [request |-> "fixtures", ok |-> ok])
  /\ UNCHANGED <<tableVars, farVars, stale>>

RecordFixtures(c) ==
  /\ pc[c] = "fixtures"
  /\ profile' = CASE ~loc[c].ok -> "unverified"
                  [] profile \in {"partner_tested", "production_enabled"} -> profile
                  [] OTHER -> "fixture_tested"
  /\ Goto(c, "idle", Blank)
  /\ UNCHANGED <<con, approval, artifact, attempt, farVars, stale, acts>>

\* authorize_transmission reads the approval before its transaction.
CheckAuthorizable(c) ==
  /\ Act(c)
  /\ approval.state = "recorded"
  /\ Goto(c, "authorize", [request |-> "authorize"])
  /\ UNCHANGED <<tableVars, farVars, stale>>

AuthorizeTransmission(c) ==
  /\ pc[c] = "authorize"
  /\ approval' = [approval EXCEPT !.scope = "transmission"]
  /\ Goto(c, "idle", Blank)
  /\ UNCHANGED <<con, profile, artifact, attempt, farVars, stale, acts>>

\* A re-analysis makes the approval stale; another build supersedes the file.
Overtaken ==
  /\ Interferes
  /\ \/ approval.state = "recorded" /\ approval' = [approval EXCEPT !.state = "stale"]
        /\ UNCHANGED artifact
     \/ artifact = "ready" /\ artifact' = "superseded" /\ UNCHANGED approval
  /\ UNCHANGED <<con, profile, attempt, farVars, pc, loc, stale>>

-----------------------------------------------------------------------------
(* send_artifact and resend.                                               *)

BeginSend(c) ==
  /\ pc[c] = "idle"
  /\ \E k \in KeysOf[c] :
       Goto(c, "lookup", [request |-> "send", key |-> k, of |-> None, note |-> FALSE,
                          receipt |-> None])
  /\ UNCHANGED <<tableVars, farVars, stale, acts>>

BeginResend(c) ==
  /\ pc[c] = "idle"
  /\ \E k \in KeysOf[c], of \in Key, note \in Notes :
       /\ attempt[of].state \in {"failed", "outcome_unknown"}
       /\ attempt[of].state = "outcome_unknown" =>
            Handling = "rejects_duplicates" \/ note
       /\ Goto(c, "lookup", [request |-> "send", key |-> k, of |-> of, note |-> note,
                             receipt |-> None])
  /\ UNCHANGED <<tableVars, farVars, stale, acts>>

\* A known key is answered with its attempt, whatever was asked.
Lookup(c) ==
  /\ pc[c] = "lookup"
  /\ IF attempt[loc[c].key].state = "none" THEN Goto(c, Checks[1], loc[c]) ELSE Goto(c, "idle", Blank)
  /\ UNCHANGED <<tableVars, farVars, stale, acts>>

Holds(check) ==
  CASE check = "artifact"   -> artifact = "ready"
    [] check = "connection" -> con.state = "enabled"
    [] check = "profile"    -> profile = "production_enabled"
    [] check = "approval"   -> approval.scope = "transmission" /\ approval.state = "recorded"

\* Four reads; one that does not hold refuses the request.
Check(c) ==
  \E i \in DOMAIN Checks :
    /\ pc[c] = Checks[i]
    /\ Holds(Checks[i])
    /\ Goto(c, IF i = Len(Checks) THEN "insert" ELSE Checks[i + 1], loc[c])
    /\ UNCHANGED <<tableVars, farVars, stale, acts>>

\* Mutant of Unused: the INSERT takes over the row of another request.
UnusedOrNot(k) == attempt[k].state \in {"none", "sending"}

\* idempotency_key is UNIQUE.
Unused(k) == attempt[k].state = "none"

\* Mutant of InsertAttempt: the row has no lease.
InsertWithoutLease(c) ==
  /\ pc[c] = "insert"
  /\ Unused(loc[c].key)
  /\ attempt' = [attempt EXCEPT ![loc[c].key] =
                   [NoAttempt EXCEPT !.state = "sending", !.lease = "none",
                                     !.of = loc[c].of, !.note = loc[c].note]]
  /\ Goto(c, "connect", loc[c])
  /\ UNCHANGED <<con, profile, approval, artifact, farVars, stale, acts>>

InsertAttempt(c) ==
  /\ pc[c] = "insert"
  /\ Unused(loc[c].key)
  /\ attempt' = [attempt EXCEPT ![loc[c].key] =
                   [NoAttempt EXCEPT !.state = "sending", !.lease = "live",
                                     !.of = loc[c].of, !.note = loc[c].note]]
  /\ Goto(c, "connect", loc[c])
  /\ UNCHANGED <<con, profile, approval, artifact, farVars, stale, acts>>

Ends(c, outcome) == Goto(c, "outcome", [loc[c] EXCEPT !.receipt = outcome])

MyName(c) == NameOf(loc[c].key, loc[c].of)

\* A name that is taken fails the send; so does any other error.
Connect(c) ==
  /\ pc[c] = "connect"
  /\ \/ Ends(c, "failed")
     \/ ~Network /\ MyName(c) \notin outbox /\ Goto(c, "copy", loc[c])
     \/ Network /\ Goto(c, "copy", loc[c])
     \/ Network /\ Ends(c, "outcome_unknown")
  /\ UNCHANGED <<tableVars, farVars, stale, acts>>

Arrives(c) == copies' = [copies EXCEPT ![loc[c].key] = @ + 1]

\* os.replace of the .part file, or the POST.
Copy(c) ==
  /\ pc[c] = "copy"
  /\ \/ Ends(c, "failed") /\ UNCHANGED farVars
     \/ /\ Arrives(c)
        /\ outbox' = IF Network THEN outbox ELSE outbox \cup {MyName(c)}
        /\ Goto(c, "receipt", loc[c])
  /\ UNCHANGED <<tableVars, stale, acts>>

\* The copy is read back for its hash; the answer of a POST may not come.
Receipt(c) ==
  /\ pc[c] = "receipt"
  /\ \/ (Network \/ MyName(c) \in outbox) /\ Ends(c, "delivery_confirmed")
     \/ Network /\ Ends(c, "outcome_unknown")
     \/ Ends(c, "failed")
  /\ UNCHANGED <<tableVars, farVars, stale, acts>>

\* The state of the row is not looked at.
Outcome(c) ==
  /\ pc[c] = "outcome"
  /\ attempt' = [attempt EXCEPT ![loc[c].key].state = loc[c].receipt,
                                ![loc[c].key].lease = "none"]
  /\ Goto(c, "idle", Blank)
  /\ UNCHANGED <<con, profile, approval, artifact, farVars, stale, acts>>

\* The receiver takes a file out of the directory.
Collect ==
  /\ \E n \in outbox : outbox' = outbox \ {n}
  /\ UNCHANGED <<tableVars, copies, pc, loc, stale, acts>>

-----------------------------------------------------------------------------
(* Recovery, in the automation tick of a worker or of a request.           *)

LeaseEnds ==
  /\ \E k \in Key :
       /\ attempt[k].lease = "live"
       /\ attempt' = [attempt EXCEPT ![k].lease = "past"]
  /\ UNCHANGED <<con, profile, approval, artifact, farVars, pc, loc, stale, acts>>

SelectStale ==
  /\ stale = {}
  /\ stale' = {k \in Key : attempt[k].state = "sending" /\ attempt[k].lease = "past"}
  /\ stale' # {}
  /\ UNCHANGED <<tableVars, farVars, pc, loc, acts>>

\* Mutant of Recovered: an attempt without an outcome has failed.
RecoveredAsFailed(row) == [row EXCEPT !.state = "failed", !.lease = "none"]

Recovered(row) == [row EXCEPT !.state = "outcome_unknown", !.lease = "none"]

RecoverStale ==
  /\ \E k \in stale :
       /\ attempt' = [attempt EXCEPT ![k] = Recovered(@)]
       /\ stale' = stale \ {k}
  /\ UNCHANGED <<con, profile, approval, artifact, farVars, pc, loc, acts>>

-----------------------------------------------------------------------------
Administer(c) ==
  \/ Authorize(c) \/ Contact(c) \/ RecordVerification(c)
  \/ CheckConnection(c) \/ CheckProfile(c) \/ Enable(c) \/ Disable(c)
  \/ SetVerification(c) \/ RunFixtures(c) \/ RecordFixtures(c)
  \/ CheckAuthorizable(c) \/ AuthorizeTransmission(c)

Send(c) ==
  \/ BeginSend(c) \/ BeginResend(c) \/ Lookup(c) \/ Check(c) \/ InsertAttempt(c)
  \/ Connect(c) \/ Copy(c) \/ Receipt(c) \/ Outcome(c)

Next ==
  \/ \E c \in Client : Administer(c) \/ Send(c) \/ GiveUp(c)
  \/ Overtaken \/ Collect \/ LeaseEnds \/ SelectStale \/ RecoverStale

\* Time passes, and runner.serve and the route run the tick again and again.
Fairness == WF_vars(LeaseEnds) /\ WF_vars(SelectStale) /\ WF_vars(RecoverStale)

Spec == Init /\ [][Next]_vars /\ Fairness

-----------------------------------------------------------------------------
\* One idempotency key is one transmission: the file reaches the receiver at
\* most once by it, and once if that is recorded as confirmed, whatever crashes,
\* retries and concurrent requests do.
OneKeyOneSend ==
  \A k \in Key : copies[k] <= 1 /\ (attempt[k].state = "delivery_confirmed" => copies[k] = 1)

\* No file reaches a receiver unless an administrator authorized both the
\* connection and the transmission of the approval behind it.
NothingLeavesUnauthorized ==
  \A k \in Key : copies[k] > 0 => con.authorized /\ approval.scope = "transmission"

\* The outcome a send reported may become unknown when a recovery had selected
\* its row, and is never turned into the opposite one.
NeverContradicted ==
  [][\A k \in Key : {attempt[k].state, attempt'[k].state} # {"delivery_confirmed", "failed"}]_vars

\* transmit.py: "a worker that dies mid-send leaves `sending`, and recovery
\* marks it `outcome_unknown` once its lease expires".
SendingSettles ==
  \A k \in Key : attempt[k].state = "sending" ~> attempt[k].state # "sending"

=============================================================================
