--------------------------- MODULE ExchangeProofs ---------------------------
(***************************************************************************)
(* Proofs about Exchange, for any clients, keys, transports and duplicate  *)
(* handling, and for any number of acts of the administrators; and about   *)
(* Lifecycle, for any number of jobs and files of any length.              *)
(***************************************************************************)
EXTENDS Exchange, Lifecycle, FiniteSetTheorems, WellFoundedInduction, TLAPS

-----------------------------------------------------------------------------
(* The inductive invariant.                                                *)

Asked   == [request : {"none", "enable", "authorize"}]
Checked == [request : {"verify", "fixtures"}, ok : BOOLEAN]
Sent    == [request : {"send"}, key : Key, of : Key \cup {None}, note : BOOLEAN,
            receipt : Outcomes \cup {None}]
Memory  == Asked \cup Checked \cup Sent

\* Where the request of a client stands: before the row of its attempt, after
\* it, and after the file has left.
Asking   == {"lookup", "artifact", "connection", "profile", "approval", "insert"}
Claimed  == {"connect", "copy", "receipt", "outcome"}
Sending  == Asking \cup Claimed

Fits(place, l) ==
  /\ place \in Sending => l \in Sent
  /\ place \in {"verified", "fixtures"} => l \in Checked
  /\ place = "outcome" => l.receipt \in Outcomes

MemoryOK ==
  /\ TypeOK
  /\ loc \in [Client -> Memory]
  /\ \A c \in Client : Fits(pc[c], loc[c])

\* The row of an attempt belongs to one client until its outcome is written.
RowIsOwned ==
  /\ \A c \in Client : pc[c] \in Claimed => attempt[loc[c].key].state \in {"sending", "outcome_unknown"}
  /\ \A c, d \in Client : pc[c] \in Claimed /\ pc[d] \in Claimed /\ loc[c].key = loc[d].key => c = d

\* What has arrived, by how far its attempt is.
CopiesAreCounted ==
  /\ \A k \in Key : attempt[k].state = "none" => copies[k] = 0
  /\ \A c \in Client : pc[c] \in {"connect", "copy"} => copies[loc[c].key] = 0
  /\ \A c \in Client : pc[c] = "receipt" => copies[loc[c].key] = 1
  /\ \A c \in Client : pc[c] = "outcome" /\ loc[c].receipt = "delivery_confirmed" => copies[loc[c].key] = 1

SendingIsSound == MemoryOK /\ RowIsOwned /\ CopiesAreCounted /\ OneKeyOneSend

\* The four reads before a send, in their order.
LEMMA ChecksAre == /\ DOMAIN Checks = 1 .. 4 /\ Len(Checks) = 4
                   /\ Checks[1] = "artifact" /\ Checks[2] = "connection"
                   /\ Checks[3] = "profile" /\ Checks[4] = "approval"
                   /\ {Checks[i] : i \in DOMAIN Checks} = {"artifact", "connection", "profile", "approval"}
<1>1. /\ DOMAIN Checks = 1 .. 4 /\ Len(Checks) = 4
      /\ Checks[1] = "artifact" /\ Checks[2] = "connection"
      /\ Checks[3] = "profile" /\ Checks[4] = "approval"
  BY DEF Checks
<1> QED BY <1>1

-----------------------------------------------------------------------------
(* Types.                                                                  *)

\* A client goes to a place with a memory that fits it.
LEMMA GotoOK == ASSUME MemoryOK, NEW c \in Client, NEW place \in Places, NEW l \in Memory,
                       Goto(c, place, l), Fits(place, l)
                PROVE  /\ pc' \in [Client -> Places] /\ loc' \in [Client -> Memory]
                       /\ \A d \in Client : Fits(pc'[d], loc'[d])
<1>1. Blank \in Memory
  BY DEF Blank, Memory, Asked
<1>2. pc' \in [Client -> Places] /\ loc' \in [Client -> Memory]
  BY <1>1 DEF Goto, MemoryOK, TypeOK
<1>3. ASSUME NEW d \in Client PROVE Fits(pc'[d], loc'[d])
  <2>1. CASE d # c
    BY <2>1 DEF Goto, MemoryOK, TypeOK
  <2>2. CASE d = c /\ place = "idle"
    BY <2>2 DEF Goto, MemoryOK, TypeOK, Fits, Sending, Asking, Claimed
  <2>3. CASE d = c /\ place # "idle"
    BY <2>3 DEF Goto, MemoryOK, TypeOK
  <2> QED BY <2>1, <2>2, <2>3
<1> QED BY <1>2, <1>3

\* The places and what they need.
LEMMA PlacesAre ==
  Places = {"idle", "verified", "enabling", "enable", "fixtures", "authorize"} \cup Sending
BY ChecksAre DEF Places, Sending, Asking, Claimed

\* No step of an administrator leaves the types.
LEMMA AdministerTypes == ASSUME MemoryOK, NEW c \in Client, Administer(c) PROVE MemoryOK'
<1> USE DEF Act, Interferes, tableVars, farVars
<1>0. /\ Blank \in Memory /\ [request |-> "enable"] \in Memory /\ [request |-> "authorize"] \in Memory
      /\ \A ok \in BOOLEAN, r \in {"verify", "fixtures"} : [request |-> r, ok |-> ok] \in Checked
      /\ \A ok \in BOOLEAN, r \in {"verify", "fixtures"} : [request |-> r, ok |-> ok] \in Memory
  BY DEF Blank, Memory, Asked, Checked
<1>1. acts < MaxActs => acts + 1 \in 0 .. MaxActs
  BY ExchangeAssumption DEF MemoryOK, TypeOK
<1>2. CASE Authorize(c) \/ Disable(c) \/ SetVerification(c)
  BY <1>1, <1>2, ExchangeAssumption, ZenonT(30) DEF MemoryOK, TypeOK, Authorize, Disable, SetVerification, Verification
<1>3. CASE Contact(c) \/ RunFixtures(c)
  <2>1. PICK ok \in BOOLEAN, r \in {"verify", "fixtures"}, place \in {"verified", "fixtures"} :
          Goto(c, place, [request |-> r, ok |-> ok])
    BY <1>3 DEF Contact, RunFixtures
  <2>2. place \in Places /\ Fits(place, [request |-> r, ok |-> ok])
    BY <1>0, PlacesAre DEF Fits, Sending, Asking, Claimed
  <2>3. /\ pc' \in [Client -> Places] /\ loc' \in [Client -> Memory]
        /\ \A d \in Client : Fits(pc'[d], loc'[d])
    BY <2>1, <2>2, <1>0, GotoOK
  <2> QED BY <1>1, <1>3, <2>3 DEF MemoryOK, TypeOK, Contact, RunFixtures
<1>4. CASE CheckConnection(c) \/ CheckAuthorizable(c)
  <2>1. PICK r \in {"enable", "authorize"}, place \in {"enabling", "authorize"} :
          Goto(c, place, [request |-> r])
    BY <1>4 DEF CheckConnection, CheckAuthorizable
  <2>2. place \in Places /\ Fits(place, [request |-> r])
    BY PlacesAre DEF Fits, Sending, Asking, Claimed
  <2>3. /\ pc' \in [Client -> Places] /\ loc' \in [Client -> Memory]
        /\ \A d \in Client : Fits(pc'[d], loc'[d])
    BY <2>1, <2>2, <1>0, GotoOK
  <2> QED BY <1>1, <1>4, <2>3 DEF MemoryOK, TypeOK, CheckConnection, CheckAuthorizable
<1>5. CASE CheckProfile(c)
  <2>1. Goto(c, "enable", loc[c]) /\ "enable" \in Places /\ loc[c] \in Memory
    BY <1>5, PlacesAre DEF CheckProfile, MemoryOK
  <2>2. Fits("enable", loc[c])
    BY DEF Fits, Sending, Asking, Claimed
  <2>3. /\ pc' \in [Client -> Places] /\ loc' \in [Client -> Memory]
        /\ \A d \in Client : Fits(pc'[d], loc'[d])
    BY <2>1, <2>2, GotoOK
  <2> QED BY <1>5, <2>3 DEF MemoryOK, TypeOK, CheckProfile
<1>6. CASE RecordVerification(c) \/ Enable(c) \/ RecordFixtures(c) \/ AuthorizeTransmission(c)
  <2>1. Goto(c, "idle", Blank) /\ "idle" \in Places /\ Fits("idle", Blank)
    BY <1>6, PlacesAre DEF RecordVerification, Enable, RecordFixtures, AuthorizeTransmission, Fits, Sending, Asking, Claimed
  <2>2. /\ pc' \in [Client -> Places] /\ loc' \in [Client -> Memory]
        /\ \A d \in Client : Fits(pc'[d], loc'[d])
    BY <2>1, <1>0, GotoOK
  <2>3. CASE RecordVerification(c)
    <3>1. loc[c].ok \in BOOLEAN
      BY <2>3 DEF RecordVerification, MemoryOK, Fits, Checked
    <3> QED BY <2>2, <2>3, <3>1 DEF MemoryOK, TypeOK, RecordVerification, AfterVerify
  <2>4. CASE Enable(c) \/ RecordFixtures(c) \/ AuthorizeTransmission(c)
    BY <2>2, <2>4 DEF MemoryOK, TypeOK, Enable, RecordFixtures, AuthorizeTransmission, Verification
  <2> QED BY <1>6, <2>3, <2>4
<1> QED BY <1>2, <1>3, <1>4, <1>5, <1>6 DEF Administer

\* A step on the way of a send changes the row of its attempt at most.
LEMMA SendTypes == ASSUME MemoryOK, NEW c \in Client, Send(c) PROVE MemoryOK'
<1> USE DEF tableVars, farVars
<1>0. /\ "idle" \in Places /\ Sending \subseteq Places /\ Blank \in Memory /\ Sent \subseteq Memory
      /\ Outcomes \subseteq {"delivery_confirmed", "failed", "outcome_unknown"}
      /\ \A l \in Memory : Fits("idle", l)
      /\ \A l \in Sent, place \in Sending \ {"outcome"} : Fits(place, l)
  BY PlacesAre DEF Memory, Asked, Blank, Fits, Sending, Asking, Claimed, Outcomes
<1>1. CASE BeginSend(c) \/ BeginResend(c)
  <2>1. PICK k \in Key, of \in Key \cup {None}, note \in BOOLEAN :
          Goto(c, "lookup", [request |-> "send", key |-> k, of |-> of, note |-> note, receipt |-> None])
    <3>1. CASE BeginSend(c)
      BY <3>1, ExchangeAssumption DEF BeginSend
    <3>2. CASE BeginResend(c)
      BY <3>2, ExchangeAssumption DEF BeginResend
    <3> QED BY <1>1, <3>1, <3>2
  <2>2. [request |-> "send", key |-> k, of |-> of, note |-> note, receipt |-> None] \in Sent
    BY DEF Sent
  <2>3. "lookup" \in Sending \ {"outcome"}
    BY DEF Sending, Asking
  <2>4. /\ pc' \in [Client -> Places] /\ loc' \in [Client -> Memory]
        /\ \A d \in Client : Fits(pc'[d], loc'[d])
    BY <2>1, <2>2, <2>3, <1>0, GotoOK
  <2> QED BY <1>1, <2>4 DEF MemoryOK, TypeOK, BeginSend, BeginResend
<1>2. CASE Lookup(c)
  <2>1. loc[c] \in Sent /\ "artifact" \in Sending \ {"outcome"} /\ Checks[1] = "artifact"
    BY <1>2, ChecksAre DEF Lookup, MemoryOK, Fits, Sending, Asking
  <2>2. Goto(c, "artifact", loc[c]) \/ Goto(c, "idle", Blank)
    BY <1>2, <2>1 DEF Lookup
  <2>3. /\ pc' \in [Client -> Places] /\ loc' \in [Client -> Memory]
        /\ \A d \in Client : Fits(pc'[d], loc'[d])
    BY <2>1, <2>2, <1>0, GotoOK
  <2> QED BY <1>2, <2>3 DEF MemoryOK, TypeOK, Lookup
<1>3. CASE Check(c)
  <2>1. PICK place \in {"connection", "profile", "approval", "insert"} : Goto(c, place, loc[c])
    BY <1>3, ChecksAre DEF Check
  <2>2. loc[c] \in Sent /\ place \in Sending \ {"outcome"}
    BY <1>3, ChecksAre DEF Check, MemoryOK, Fits, Sending, Asking
  <2>3. /\ pc' \in [Client -> Places] /\ loc' \in [Client -> Memory]
        /\ \A d \in Client : Fits(pc'[d], loc'[d])
    BY <2>1, <2>2, <1>0, GotoOK
  <2> QED BY <1>3, <2>3 DEF MemoryOK, TypeOK, Check
<1>4. CASE InsertAttempt(c)
  <2>1. loc[c] \in Sent /\ "connect" \in Sending \ {"outcome"} /\ Goto(c, "connect", loc[c])
    BY <1>4 DEF InsertAttempt, MemoryOK, Fits, Sending, Asking, Claimed
  <2>2. /\ pc' \in [Client -> Places] /\ loc' \in [Client -> Memory]
        /\ \A d \in Client : Fits(pc'[d], loc'[d])
    BY <2>1, <1>0, GotoOK
  <2>3. attempt' \in [Key -> AttemptRow]
    BY <1>4, <2>1 DEF InsertAttempt, MemoryOK, TypeOK, Sent, AttemptRow, NoAttempt
  <2> QED BY <1>4, <2>2, <2>3 DEF MemoryOK, TypeOK, InsertAttempt
<1>5. CASE Connect(c) \/ Copy(c) \/ Receipt(c)
  <2>1. loc[c] \in Sent
    BY <1>5 DEF Connect, Copy, Receipt, MemoryOK, Fits, Sending, Claimed
  <2>2. \A o \in Outcomes : /\ [loc[c] EXCEPT !.receipt = o] \in Sent
                            /\ Fits("outcome", [loc[c] EXCEPT !.receipt = o])
    BY <2>1 DEF Sent, Fits
  <2>3. PICK place \in {"copy", "receipt", "outcome"}, l \in Sent :
          Goto(c, place, l) /\ Fits(place, l)
    <3>1. \/ Goto(c, "copy", loc[c]) \/ Goto(c, "receipt", loc[c])
          \/ \E o \in Outcomes : Goto(c, "outcome", [loc[c] EXCEPT !.receipt = o])
      BY <1>5 DEF Connect, Copy, Receipt, Ends, Outcomes
    <3>2. Fits("copy", loc[c]) /\ Fits("receipt", loc[c])
      BY <2>1 DEF Fits
    <3> QED BY <3>1, <3>2, <2>1, <2>2
  <2>4. place \in Places /\ l \in Memory
    BY <1>0 DEF Sending, Claimed
  <2>5. /\ pc' \in [Client -> Places] /\ loc' \in [Client -> Memory]
        /\ \A d \in Client : Fits(pc'[d], loc'[d])
    BY <2>3, <2>4, GotoOK
  <2>6. copies' \in [Key -> Nat] /\ outbox' \subseteq Name
    <3>1. loc[c].key \in Key /\ MyName(c) \in Name
      BY <2>1 DEF Sent, MyName, NameOf, Name
    <3> QED BY <1>5, <3>1 DEF Connect, Copy, Receipt, Arrives, MemoryOK, TypeOK
  <2> QED BY <1>5, <2>5, <2>6 DEF MemoryOK, TypeOK, Connect, Copy, Receipt
<1>6. CASE Outcome(c)
  <2>1. loc[c].key \in Key /\ loc[c].receipt \in Outcomes /\ Goto(c, "idle", Blank)
    BY <1>6 DEF Outcome, MemoryOK, Fits, Sending, Claimed, Sent
  <2>2. /\ pc' \in [Client -> Places] /\ loc' \in [Client -> Memory]
        /\ \A d \in Client : Fits(pc'[d], loc'[d])
    BY <2>1, <1>0, GotoOK
  <2>3. attempt' \in [Key -> AttemptRow]
    BY <1>6, <2>1 DEF Outcome, MemoryOK, TypeOK, AttemptRow
  <2> QED BY <1>6, <2>2, <2>3 DEF MemoryOK, TypeOK, Outcome
<1> QED BY <1>1, <1>2, <1>3, <1>4, <1>5, <1>6 DEF Send

\* A recovered attempt is a row.
LEMMA RecoveredRow == ASSUME NEW r \in AttemptRow
                      PROVE  Recovered(r) \in AttemptRow /\ Recovered(r).state = "outcome_unknown"
<1> DEFINE ended == [r EXCEPT !.state = "outcome_unknown"]
<1>1. ended \in AttemptRow /\ ended.state = "outcome_unknown"
  BY DEF AttemptRow, Outcomes
<1>2. [ended EXCEPT !.lease = "none"] \in AttemptRow /\ [ended EXCEPT !.lease = "none"].state = "outcome_unknown"
  <2> HIDE DEF ended
  <2> QED BY <1>1 DEF AttemptRow
<1>3. Recovered(r) = [ended EXCEPT !.lease = "none"]
  BY DEF Recovered
<1> QED BY <1>2, <1>3

\* Every step keeps what clients remember typed.
LEMMA MemoryStep == ASSUME MemoryOK, [Next]_vars PROVE MemoryOK'
<1> USE DEF tableVars, farVars
<1>1. ASSUME NEW c \in Client, GiveUp(c) PROVE MemoryOK'
  <2>1. Goto(c, "idle", Blank) /\ "idle" \in Places /\ Blank \in Memory /\ Fits("idle", Blank)
    BY <1>1, PlacesAre DEF GiveUp, Memory, Asked, Blank, Fits, Sending, Asking, Claimed
  <2>2. /\ pc' \in [Client -> Places] /\ loc' \in [Client -> Memory]
        /\ \A d \in Client : Fits(pc'[d], loc'[d])
    BY <2>1, GotoOK
  <2> QED BY <1>1, <2>2 DEF MemoryOK, TypeOK, GiveUp
<1>2. CASE Overtaken
  <2>1. acts + 1 \in 0 .. MaxActs
    BY <1>2, ExchangeAssumption DEF MemoryOK, TypeOK, Overtaken, Interferes
  <2> QED BY <1>2, <2>1 DEF MemoryOK, TypeOK, Overtaken, Interferes
<1>3. CASE Collect \/ SelectStale
  BY <1>3 DEF MemoryOK, TypeOK, Collect, SelectStale
<1>4. CASE LeaseEnds \/ RecoverStale
  <2>1. PICK k \in Key, r \in AttemptRow : attempt' = [attempt EXCEPT ![k] = r]
    <3>1. CASE LeaseEnds
      <4>1. PICK k \in Key : attempt' = [attempt EXCEPT ![k] = [attempt[k] EXCEPT !.lease = "past"]]
        BY <3>1 DEF LeaseEnds, MemoryOK, TypeOK
      <4>2. [attempt[k] EXCEPT !.lease = "past"] \in AttemptRow
        BY DEF MemoryOK, TypeOK, AttemptRow
      <4> QED BY <4>1, <4>2
    <3>2. CASE RecoverStale
      <4>1. PICK k \in Key : attempt' = [attempt EXCEPT ![k] = Recovered(attempt[k])]
        BY <3>2 DEF RecoverStale, MemoryOK, TypeOK
      <4>2. Recovered(attempt[k]) \in AttemptRow
        BY RecoveredRow DEF MemoryOK, TypeOK
      <4> QED BY <4>1, <4>2
    <3> QED BY <1>4, <3>1, <3>2
  <2>2. attempt' \in [Key -> AttemptRow]
    BY <2>1 DEF MemoryOK, TypeOK
  <2> QED BY <1>4, <2>2 DEF MemoryOK, TypeOK, LeaseEnds, RecoverStale
<1>5. CASE UNCHANGED vars
  BY <1>5 DEF MemoryOK, TypeOK, vars
<1> QED BY <1>1, <1>2, <1>3, <1>4, <1>5, AdministerTypes, SendTypes DEF Next
-----------------------------------------------------------------------------
(* One transmission of a key.                                              *)

\* What has arrived and whose the rows are, when no row and no copy changes and
\* nobody enters the part of a send that is behind its row.
LEMMA NothingSent ==
  ASSUME SendingIsSound, MemoryOK', UNCHANGED <<attempt, copies>>,
         \A c \in Client : pc'[c] \in Claimed => pc'[c] = pc[c] /\ loc'[c] = loc[c]
  PROVE  SendingIsSound'
<1>1. RowIsOwned'
  BY DEF SendingIsSound, RowIsOwned
<1>2. CopiesAreCounted'
  BY DEF SendingIsSound, CopiesAreCounted, Claimed
<1> QED BY <1>1, <1>2 DEF SendingIsSound, OneKeyOneSend

\* Inserting an attempt keeps one owner per key.
LEMMA InsertSound == ASSUME SendingIsSound, MemoryOK', NEW c \in Client, InsertAttempt(c)
                     PROVE  SendingIsSound'
<1> DEFINE k == loc[c].key
<1>1. k \in Key /\ attempt[k].state = "none" /\ copies' = copies
  BY DEF InsertAttempt, Unused, farVars, SendingIsSound, MemoryOK, Fits, Sending, Asking, Sent
<1>2. pc'[c] = "connect" /\ loc'[c].key = k /\ \A d \in Client \ {c} : pc'[d] = pc[d] /\ loc'[d] = loc[d]
  BY DEF InsertAttempt, Goto, SendingIsSound, MemoryOK, TypeOK
<1>3. attempt'[k].state = "sending" /\ \A j \in Key \ {k} : attempt'[j] = attempt[j]
  BY <1>1 DEF InsertAttempt, SendingIsSound, MemoryOK, TypeOK, NoAttempt
<1>4. \A d \in Client : pc[d] \in Claimed => loc[d].key \in Key /\ loc[d].key # k
  BY <1>1 DEF SendingIsSound, MemoryOK, RowIsOwned, Fits, Sending, Sent
<1>5. RowIsOwned'
  BY <1>1, <1>2, <1>3, <1>4 DEF SendingIsSound, RowIsOwned
<1>6. CopiesAreCounted'
  BY <1>1, <1>2, <1>3, <1>4 DEF SendingIsSound, CopiesAreCounted, Claimed
<1>7. OneKeyOneSend'
  BY <1>1, <1>3 DEF SendingIsSound, OneKeyOneSend
<1> QED BY <1>5, <1>6, <1>7 DEF SendingIsSound

\* A transfer adds the one copy its attempt stands for.
LEMMA TransferSound == ASSUME SendingIsSound, MemoryOK', NEW c \in Client,
                              Connect(c) \/ Copy(c) \/ Receipt(c)
                       PROVE  SendingIsSound'
<1> DEFINE k == loc[c].key
<1> USE DEF tableVars, farVars
<1>1. pc[c] \in {"connect", "copy", "receipt"} /\ loc[c] \in Sent /\ k \in Key /\ attempt' = attempt
  BY DEF Connect, Copy, Receipt, SendingIsSound, MemoryOK, Fits, Sending, Claimed, Sent
<1>2. /\ pc'[c] \in Claimed \ {"connect"} /\ loc'[c].key = k
      /\ pc[c] = "connect" => pc'[c] # "receipt" /\ (pc'[c] = "outcome" => loc'[c].receipt # "delivery_confirmed")
      /\ pc'[c] # "copy" \/ pc[c] = "connect"
      /\ pc'[c] = "receipt" => pc[c] = "copy"
      /\ pc[c] = "copy" /\ pc'[c] = "outcome" => loc'[c].receipt = "failed"
      /\ \A d \in Client \ {c} : pc'[d] = pc[d] /\ loc'[d] = loc[d]
  <2>1. \A o \in Outcomes : [loc[c] EXCEPT !.receipt = o].key = k /\ [loc[c] EXCEPT !.receipt = o].receipt = o
    BY <1>1 DEF Sent
  <2>2. CASE Connect(c)
    BY <1>1, <2>1, <2>2, ZenonT(30) DEF Connect, Ends, Goto, SendingIsSound, MemoryOK, TypeOK, Claimed, Outcomes
  <2>3. CASE Copy(c)
    BY <1>1, <2>1, <2>3, ZenonT(30) DEF Copy, Ends, Goto, SendingIsSound, MemoryOK, TypeOK, Claimed, Outcomes
  <2>4. CASE Receipt(c)
    BY <1>1, <2>1, <2>4, ZenonT(30) DEF Receipt, Ends, Goto, SendingIsSound, MemoryOK, TypeOK, Claimed, Outcomes
  <2> QED BY <2>2, <2>3, <2>4
<1>3. /\ \A j \in Key \ {k} : copies'[j] = copies[j]
      /\ copies'[k] = IF pc'[c] = "receipt" THEN copies[k] + 1 ELSE copies[k]
  <2>1. CASE Connect(c) \/ Receipt(c)
    BY <1>2, <2>1 DEF Connect, Receipt
  <2>2. CASE Copy(c)
    <3>1. CASE Ends(c, "failed") /\ UNCHANGED farVars
      BY <3>1, <1>1 DEF Ends, Goto, SendingIsSound, MemoryOK, TypeOK
    <3>2. CASE Arrives(c) /\ Goto(c, "receipt", loc[c])
      BY <3>2, <1>1 DEF Arrives, Goto, SendingIsSound, MemoryOK, TypeOK
    <3> QED BY <2>2, <3>1, <3>2 DEF Copy
  <2> QED BY <2>1, <2>2
<1>4. \A d \in Client \ {c} : pc[d] \in Claimed => loc[d].key # k
  BY <1>1 DEF SendingIsSound, RowIsOwned, Claimed
<1>5. RowIsOwned'
  BY <1>1, <1>2, <1>4 DEF SendingIsSound, RowIsOwned, Claimed
<1>6. /\ attempt[k].state \in {"sending", "outcome_unknown"}
      /\ pc[c] \in {"connect", "copy"} => copies[k] = 0
      /\ pc[c] = "receipt" => copies[k] = 1
  BY <1>1 DEF SendingIsSound, RowIsOwned, CopiesAreCounted, Claimed
<1>7. CopiesAreCounted'
  <2>1. \A j \in Key : attempt'[j].state = "none" => copies'[j] = 0
    BY <1>1, <1>3, <1>6 DEF SendingIsSound, CopiesAreCounted
  <2>2. \A d \in Client : pc'[d] \in Claimed => loc'[d].key \in Key
    BY DEF MemoryOK, Fits, Sending, Sent
  <2>3. ASSUME NEW d \in Client, d # c
        PROVE  /\ pc'[d] \in {"connect", "copy"} => copies'[loc'[d].key] = 0
               /\ pc'[d] = "receipt" => copies'[loc'[d].key] = 1
               /\ pc'[d] = "outcome" /\ loc'[d].receipt = "delivery_confirmed" => copies'[loc'[d].key] = 1
    BY <1>2, <1>3, <1>4, <2>2, <2>3 DEF SendingIsSound, CopiesAreCounted, Claimed
  <2>4. /\ pc'[c] \in {"connect", "copy"} => copies'[loc'[c].key] = 0
        /\ pc'[c] = "receipt" => copies'[loc'[c].key] = 1
        /\ pc'[c] = "outcome" /\ loc'[c].receipt = "delivery_confirmed" => copies'[loc'[c].key] = 1
    BY <1>1, <1>2, <1>3, <1>6 DEF Claimed
  <2> QED BY <2>1, <2>3, <2>4 DEF CopiesAreCounted
<1>8. OneKeyOneSend'
  BY <1>1, <1>2, <1>3, <1>6 DEF SendingIsSound, OneKeyOneSend, Claimed
<1> QED BY <1>5, <1>7, <1>8 DEF SendingIsSound

\* Recording an outcome keeps keys and copies.
LEMMA OutcomeSound == ASSUME SendingIsSound, MemoryOK', NEW c \in Client, Outcome(c)
                      PROVE  SendingIsSound'
<1> DEFINE k == loc[c].key
<1>1. /\ pc[c] = "outcome" /\ k \in Key /\ loc[c].receipt \in Outcomes /\ copies' = copies
  BY DEF Outcome, farVars, SendingIsSound, MemoryOK, Fits, Sending, Claimed, Sent
<1>2. pc'[c] = "idle" /\ \A d \in Client \ {c} : pc'[d] = pc[d] /\ loc'[d] = loc[d]
  BY DEF Outcome, Goto, SendingIsSound, MemoryOK, TypeOK
<1>3. attempt'[k].state = loc[c].receipt /\ \A j \in Key \ {k} : attempt'[j] = attempt[j]
  BY <1>1 DEF Outcome, SendingIsSound, MemoryOK, TypeOK, AttemptRow
<1>4. \A d \in Client \ {c} : pc[d] \in Claimed => loc[d].key \in Key /\ loc[d].key # k
  BY <1>1 DEF SendingIsSound, MemoryOK, RowIsOwned, Fits, Sending, Claimed, Sent
<1>5. RowIsOwned'
  BY <1>2, <1>3, <1>4 DEF SendingIsSound, RowIsOwned, Claimed
<1>6. CopiesAreCounted'
  BY <1>1, <1>2, <1>3, <1>4 DEF SendingIsSound, CopiesAreCounted, Claimed, Outcomes
<1>7. OneKeyOneSend'
  BY <1>1, <1>3 DEF SendingIsSound, OneKeyOneSend, CopiesAreCounted
<1> QED BY <1>5, <1>6, <1>7 DEF SendingIsSound

\* A recovery turns a row without an outcome, or with one it did not see, into
\* an unknown one, and never back into no row.
LEMMA RecoveryStep == ASSUME SendingIsSound, LeaseEnds \/ RecoverStale
                      PROVE  \E k \in Key : /\ attempt'[k].state \in {attempt[k].state, "outcome_unknown"}
                                            /\ \A j \in Key \ {k} : attempt'[j] = attempt[j]
<1>1. CASE LeaseEnds
  BY <1>1 DEF LeaseEnds, SendingIsSound, MemoryOK, TypeOK, AttemptRow
<1>2. CASE RecoverStale
  <2>1. PICK k \in stale : attempt' = [attempt EXCEPT ![k] = Recovered(attempt[k])]
    BY <1>2 DEF RecoverStale
  <2>2. k \in Key /\ attempt[k] \in AttemptRow /\ attempt'[k] = Recovered(attempt[k])
        /\ \A j \in Key \ {k} : attempt'[j] = attempt[j]
    BY <2>1 DEF SendingIsSound, MemoryOK, TypeOK
  <2> QED BY <2>2, RecoveredRow
<1> QED BY <1>1, <1>2

\* So does the recovery of a stale attempt.
LEMMA RecoverySound == ASSUME SendingIsSound, MemoryOK', LeaseEnds \/ RecoverStale
                       PROVE  SendingIsSound'
<1>1. PICK k \in Key : /\ attempt'[k].state \in {attempt[k].state, "outcome_unknown"}
                        /\ \A j \in Key \ {k} : attempt'[j] = attempt[j]
  BY RecoveryStep
<1>2. UNCHANGED <<copies, pc, loc>>
  BY DEF LeaseEnds, RecoverStale, farVars
<1>3. \A d \in Client : pc[d] \in Claimed => loc[d].key \in Key
  BY DEF SendingIsSound, MemoryOK, Fits, Sending, Sent
<1>4. RowIsOwned'
  BY <1>1, <1>2, <1>3 DEF SendingIsSound, RowIsOwned
<1>5. CopiesAreCounted'
  BY <1>1, <1>2 DEF SendingIsSound, CopiesAreCounted
<1>6. OneKeyOneSend'
  BY <1>1, <1>2 DEF SendingIsSound, OneKeyOneSend
<1> QED BY <1>4, <1>5, <1>6 DEF SendingIsSound

\* Every step keeps the invariant.
LEMMA SoundStep == ASSUME SendingIsSound, [Next]_vars PROVE SendingIsSound'
<1> USE DEF tableVars, farVars
<1>1. MemoryOK'
  BY MemoryStep DEF SendingIsSound
<1>2. ASSUME NEW c \in Client, NEW place \in Places \ Claimed, NEW l, Goto(c, place, l),
             UNCHANGED <<attempt, copies>>
      PROVE  SendingIsSound'
  <2>1. ASSUME NEW d \in Client, pc'[d] \in Claimed PROVE pc'[d] = pc[d] /\ loc'[d] = loc[d]
    BY <1>2, <2>1 DEF Goto, SendingIsSound, MemoryOK, TypeOK
  <2> QED BY <1>1, <1>2, <2>1, NothingSent
<1>3. ASSUME UNCHANGED <<attempt, copies, pc, loc>> PROVE SendingIsSound'
  BY <1>1, <1>3, NothingSent
<1>4. /\ {"idle", "verified", "enabling", "enable", "fixtures", "authorize", "lookup", "artifact",
          "connection", "profile", "approval", "insert"} \subseteq Places \ Claimed
  BY PlacesAre DEF Sending, Asking, Claimed
<1>5. ASSUME NEW c \in Client, Administer(c) PROVE SendingIsSound'
  <2>1. CASE Authorize(c) \/ Disable(c) \/ SetVerification(c)
    BY <2>1, <1>3 DEF Authorize, Disable, SetVerification
  <2>2. CASE Contact(c) \/ RunFixtures(c) \/ CheckConnection(c) \/ CheckAuthorizable(c) \/ CheckProfile(c)
    <3>1. /\ UNCHANGED <<attempt, copies>>
          /\ \E place \in {"verified", "fixtures", "enabling", "authorize", "enable"} : \E l : Goto(c, place, l)
      BY <2>2 DEF Contact, RunFixtures, CheckConnection, CheckAuthorizable, CheckProfile
    <3> QED BY <3>1, <1>2, <1>4
  <2>3. CASE RecordVerification(c) \/ Enable(c) \/ RecordFixtures(c) \/ AuthorizeTransmission(c)
    <3>1. UNCHANGED <<attempt, copies>> /\ Goto(c, "idle", Blank)
      BY <2>3 DEF RecordVerification, Enable, RecordFixtures, AuthorizeTransmission
    <3> QED BY <3>1, <1>2, <1>4
  <2> QED BY <1>5, <2>1, <2>2, <2>3 DEF Administer
<1>6. ASSUME NEW c \in Client, Send(c) \/ GiveUp(c) PROVE SendingIsSound'
  <2>1. CASE BeginSend(c) \/ BeginResend(c) \/ Lookup(c) \/ Check(c) \/ GiveUp(c)
    <3>1. /\ UNCHANGED <<attempt, copies>>
          /\ \E place \in {"idle", "lookup", "artifact", "connection", "profile", "approval", "insert"} :
               \E l : Goto(c, place, l)
      <4>1. CASE Check(c)
        BY <4>1, ChecksAre DEF Check
      <4>2. CASE BeginSend(c) \/ BeginResend(c) \/ Lookup(c) \/ GiveUp(c)
        BY <4>2, ChecksAre DEF BeginSend, BeginResend, Lookup, GiveUp
      <4> QED BY <2>1, <4>1, <4>2
    <3> QED BY <3>1, <1>2, <1>4
  <2> QED BY <1>1, <1>6, <2>1, InsertSound, TransferSound, OutcomeSound DEF Send
<1>7. CASE Overtaken \/ Collect \/ SelectStale \/ UNCHANGED vars
  BY <1>7, <1>3 DEF Overtaken, Collect, SelectStale, vars
<1>8. CASE LeaseEnds \/ RecoverStale
  BY <1>1, <1>8, RecoverySound
<1> QED BY <1>5, <1>6, <1>7, <1>8 DEF Next

\* It holds at first.
LEMMA SoundInit == ASSUME Init PROVE SendingIsSound
<1>1. TypeOK
  BY ExchangeAssumption, PlacesAre DEF Init, TypeOK, NewConnection, NewProfile, Verification,
     AttemptRow, NoAttempt, Outcomes
<1>2. MemoryOK
  BY <1>1 DEF Init, MemoryOK, Fits, Memory, Asked, Blank, Sending, Asking, Claimed
<1>3. RowIsOwned /\ CopiesAreCounted
  BY DEF Init, RowIsOwned, CopiesAreCounted, Claimed
<1>4. OneKeyOneSend
  BY DEF Init, OneKeyOneSend, NoAttempt
<1> QED BY <1>2, <1>3, <1>4 DEF SendingIsSound

\* Every attempt belongs to one request and its copies are counted, in every
\* reachable state.
THEOREM SendIsSound == Spec => []SendingIsSound
BY SoundInit, SoundStep, PTL DEF Spec

\* The tables and the places of the clients have their types.
THEOREM TypeCorrect == Spec => []TypeOK
<1>1. SendingIsSound => TypeOK
  BY DEF SendingIsSound, MemoryOK
<1> QED BY <1>1, SendIsSound, PTL

\* A key is one transmission: UNIQUE and the lookup make it so although
\* send_artifact reads the key, checks four tables and inserts in separate
\* steps, and although recovery writes rows it read earlier.
THEOREM OneKeyOneTransmission == Spec => []OneKeyOneSend
<1>1. SendingIsSound => OneKeyOneSend
  BY DEF SendingIsSound
<1> QED BY <1>1, SendIsSound, PTL

\* A confirmed delivery never becomes a failed one, nor the other way round.
THEOREM OutcomesStand == Spec => NeverContradicted
<1>1. ASSUME SendingIsSound, [Next]_vars
      PROVE  [\A k \in Key : {attempt[k].state, attempt'[k].state} # {"delivery_confirmed", "failed"}]_vars
  <2> SUFFICES ASSUME NEW k \in Key
               PROVE  {attempt[k].state, attempt'[k].state} # {"delivery_confirmed", "failed"}
    OBVIOUS
  <2>1. attempt'[k].state \in {attempt[k].state, "outcome_unknown"}
        \/ attempt[k].state \in {"none", "sending", "outcome_unknown"}
    <3> DEFINE Stands == attempt'[k].state \in {attempt[k].state, "outcome_unknown"}
                         \/ attempt[k].state \in {"none", "sending", "outcome_unknown"}
    <3> USE DEF tableVars
    <3>1. ASSUME NEW c \in Client, InsertAttempt(c) PROVE Stands
      BY <3>1 DEF InsertAttempt, Unused, SendingIsSound, MemoryOK, TypeOK
    <3>2. ASSUME NEW c \in Client, Outcome(c) PROVE Stands
      BY <1>1, <3>2 DEF Outcome, SendingIsSound, MemoryOK, TypeOK, AttemptRow, RowIsOwned, Claimed
    <3>3. CASE LeaseEnds \/ RecoverStale
      BY <1>1, <3>3, RecoveryStep
    <3>4. CASE UNCHANGED attempt
      BY <3>4
    <3>5. \/ \E c \in Client : InsertAttempt(c) \/ Outcome(c)
          \/ LeaseEnds \/ RecoverStale \/ UNCHANGED attempt
      BY <1>1 DEF Next, Administer, Send, GiveUp, Overtaken, Collect, SelectStale, vars, Authorize,
         Contact, RecordVerification, CheckConnection, CheckProfile, Enable, Disable, SetVerification,
         RunFixtures, RecordFixtures, CheckAuthorizable, AuthorizeTransmission, BeginSend, BeginResend,
         Lookup, Check, Connect, Copy, Receipt
    <3> QED BY <3>1, <3>2, <3>3, <3>4, <3>5
  <2> QED BY <2>1
<1> QED BY <1>1, SendIsSound, PTL DEF Spec, NeverContradicted

-----------------------------------------------------------------------------
(* Nothing leaves without the two authorizations.                          *)

\* Where a request has seen the authorization of the connection, and where it
\* has seen that of the transmission as well.
Admitted == {"enabling", "enable", "profile", "approval", "insert"} \cup Claimed
Cleared  == {"insert"} \cup Claimed

Authorized ==
  /\ con.state = "enabled" => con.authorized
  /\ \A c \in Client : pc[c] \in Admitted => con.authorized
  /\ \A c \in Client : pc[c] \in Cleared => approval.scope = "transmission"

\* An authorization is never taken back: not by disabling the connection, not by
\* a failed test, and not by an approval going stale.
LEMMA AuthorizationStays ==
  ASSUME SendingIsSound, [Next]_vars
  PROVE  /\ con.authorized => con'.authorized
         /\ approval.scope = "transmission" => approval'.scope = "transmission"
<1> USE DEF SendingIsSound, MemoryOK, TypeOK, tableVars
<1>1. ASSUME NEW c \in Client, Authorize(c) \/ RecordVerification(c) \/ Enable(c) \/ Disable(c)
      PROVE  (con.authorized => con'.authorized) /\ approval' = approval
  BY <1>1 DEF Authorize, RecordVerification, Enable, Disable
<1>2. ASSUME NEW c \in Client, AuthorizeTransmission(c)
      PROVE  approval'.scope = "transmission" /\ con' = con
  BY <1>2 DEF AuthorizeTransmission
<1>3. CASE Overtaken
  BY <1>3 DEF Overtaken
<1>4. CASE UNCHANGED <<con, approval>>
  BY <1>4
<1>5. \/ \E c \in Client : Authorize(c) \/ RecordVerification(c) \/ Enable(c) \/ Disable(c)
      \/ \E c \in Client : AuthorizeTransmission(c)
      \/ Overtaken \/ UNCHANGED <<con, approval>>
  BY ZenonT(30) DEF Next, Administer, Send, GiveUp, Collect, SelectStale, LeaseEnds, RecoverStale, vars, Contact,
     CheckConnection, CheckProfile, SetVerification, RunFixtures, RecordFixtures, CheckAuthorizable,
     BeginSend, BeginResend, Lookup, Check, InsertAttempt, Connect, Copy, Receipt, Outcome
<1> QED BY <1>1, <1>2, <1>3, <1>4, <1>5

\* A request is admitted by reading the authorization, or by reading an enabled
\* connection, and cleared by reading the scope of the approval.
LEMMA Admission ==
  ASSUME SendingIsSound, Authorized, [Next]_vars, NEW c \in Client
  PROVE  /\ pc'[c] \in Admitted => con.authorized
         /\ pc'[c] \in Cleared => approval.scope = "transmission"
<1> DEFINE Fine(place) == /\ place \in Admitted => con.authorized
                          /\ place \in Cleared => approval.scope = "transmission"
<1>1. \A d \in Client : Fine(pc[d])
  BY DEF Authorized
<1> HIDE DEF Fine
<1>2. ASSUME NEW d \in Client, NEW place, NEW l, Goto(d, place, l), Fine(place) PROVE Fine(pc'[c])
  BY <1>1, <1>2 DEF Goto, SendingIsSound, MemoryOK, TypeOK
<1>3. ASSUME UNCHANGED pc PROVE Fine(pc'[c])
  <2>1. pc'[c] = pc[c] /\ Fine(pc[c])
    BY <1>1, <1>3
  <2> QED BY <2>1
<1>4. \A place \in {"idle", "verified", "fixtures", "authorize", "lookup", "artifact", "connection"} : Fine(place)
  BY DEF Fine, Admitted, Cleared, Claimed
<1>5. ASSUME NEW d \in Client, pc[d] \in Cleared, NEW place PROVE Fine(place)
  BY <1>1, <1>5 DEF Fine, Admitted, Cleared
<1>6. ASSUME NEW d \in Client, Administer(d) PROVE Fine(pc'[c])
  <2>1. CASE CheckConnection(d)
    <3>1. Fine("enabling")
      BY <2>1 DEF CheckConnection, Fine, Cleared, Claimed
    <3> QED BY <2>1, <3>1, <1>2 DEF CheckConnection
  <2>2. CASE CheckProfile(d)
    <3>1. Fine("enable")
      BY <2>2, <1>1 DEF CheckProfile, Fine, Admitted, Cleared, Claimed
    <3> QED BY <2>2, <3>1, <1>2 DEF CheckProfile
  <2>3. CASE Authorize(d) \/ Disable(d) \/ SetVerification(d)
    BY <2>3, <1>3 DEF Authorize, Disable, SetVerification
  <2>4. CASE Contact(d) \/ RecordVerification(d) \/ Enable(d) \/ RunFixtures(d) \/ RecordFixtures(d)
             \/ CheckAuthorizable(d) \/ AuthorizeTransmission(d)
    <3>1. \E place \in {"idle", "verified", "fixtures", "authorize"} : \E l : Goto(d, place, l)
      BY <2>4 DEF Contact, RecordVerification, Enable, RunFixtures, RecordFixtures, CheckAuthorizable,
         AuthorizeTransmission
    <3> QED BY <3>1, <1>2, <1>4
  <2> QED BY <1>6, <2>1, <2>2, <2>3, <2>4 DEF Administer
<1>7. ASSUME NEW d \in Client, Send(d) \/ GiveUp(d) PROVE Fine(pc'[c])
  <2>1. CASE Check(d)
    <3>1. PICK i \in 1 .. 4 : /\ pc[d] = Checks[i] /\ Holds(Checks[i])
                             /\ Goto(d, IF i = 4 THEN "insert" ELSE Checks[i + 1], loc[d])
      BY <2>1, ChecksAre DEF Check
    <3>2. CASE i = 1
      BY <3>1, <3>2, <1>2, <1>4, ChecksAre
    <3>3. CASE i = 2
      <4>1. Fine("profile")
        BY <3>1, <3>3, ChecksAre DEF Holds, Authorized, Fine, Cleared, Claimed
      <4> QED BY <3>1, <3>3, <4>1, <1>2, ChecksAre
    <3>4. CASE i = 3
      <4>1. Fine("approval")
        BY <3>1, <3>4, <1>1, ChecksAre DEF Fine, Admitted, Cleared, Claimed
      <4> QED BY <3>1, <3>4, <4>1, <1>2, ChecksAre
    <3>5. CASE i = 4
      <4>1. Fine("insert")
        BY <3>1, <3>5, <1>1, ChecksAre DEF Holds, Fine, Admitted, Cleared, Claimed
      <4> QED BY <3>1, <3>5, <4>1, <1>2
    <3> QED BY <3>1, <3>2, <3>3, <3>4, <3>5
  <2>2. CASE InsertAttempt(d) \/ Connect(d) \/ Copy(d) \/ Receipt(d)
    <3>1. pc[d] \in Cleared /\ \E place, l : Goto(d, place, l)
      BY <2>2 DEF InsertAttempt, Connect, Copy, Receipt, Ends, Cleared, Claimed
    <3> QED BY <3>1, <1>2, <1>5
  <2>3. CASE BeginSend(d) \/ BeginResend(d) \/ Lookup(d) \/ Outcome(d) \/ GiveUp(d)
    <3>1. \E place \in {"idle", "lookup", "artifact"} : \E l : Goto(d, place, l)
      BY <2>3, ChecksAre DEF BeginSend, BeginResend, Lookup, Outcome, GiveUp
    <3> QED BY <3>1, <1>2, <1>4
  <2> QED BY <1>7, <2>1, <2>2, <2>3 DEF Send
<1>8. ASSUME Overtaken \/ Collect \/ LeaseEnds \/ SelectStale \/ RecoverStale \/ UNCHANGED vars
      PROVE  Fine(pc'[c])
  BY <1>8, <1>3 DEF Overtaken, Collect, LeaseEnds, SelectStale, RecoverStale, vars
<1>9. Fine(pc'[c])
  BY <1>6, <1>7, <1>8 DEF Next
<1> QED BY <1>9 DEF Fine

\* Every step keeps what a sender past its checks relies on.
LEMMA AuthorizedStep ==
  ASSUME SendingIsSound, Authorized, NothingLeavesUnauthorized, [Next]_vars
  PROVE  Authorized' /\ NothingLeavesUnauthorized'
<1> USE DEF tableVars, farVars
<1>1. con'.state = "enabled" => con'.authorized
  <2>1. con'.state = "enabled" => con.state = "enabled" \/ \E c \in Client : pc[c] = "enable"
    <3>1. ASSUME NEW c \in Client, Authorize(c) \/ RecordVerification(c) \/ Disable(c)
          PROVE  con'.state = "enabled" => con.state = "enabled"
      BY <3>1 DEF Authorize, RecordVerification, AfterVerify, Disable, SendingIsSound, MemoryOK, TypeOK
    <3>2. \/ \E c \in Client : Authorize(c) \/ RecordVerification(c) \/ Disable(c)
          \/ \E c \in Client : Enable(c)
          \/ UNCHANGED con
      BY DEF Next, Administer, Send, GiveUp, Overtaken, Collect, SelectStale, LeaseEnds, RecoverStale, vars,
         Contact, CheckConnection, CheckProfile, SetVerification, RunFixtures, RecordFixtures,
         CheckAuthorizable, AuthorizeTransmission, BeginSend, BeginResend, Lookup, Check, InsertAttempt,
         Connect, Copy, Receipt, Outcome
    <3> QED BY <3>1, <3>2 DEF Enable
  <2> QED BY <2>1, AuthorizationStays DEF Authorized, Admitted
<1>2. Authorized'
  BY <1>1, Admission, AuthorizationStays DEF Authorized
<1>3. ASSUME NEW k \in Key, copies'[k] > 0 PROVE con.authorized /\ approval.scope = "transmission"
  <2>1. copies' = copies \/ \E c \in Client : pc[c] = "copy"
    BY DEF Next, Administer, Send, GiveUp, Overtaken, Collect, SelectStale, LeaseEnds, RecoverStale, vars,
       Authorize, RecordVerification, Enable, Disable, Contact, CheckConnection, CheckProfile,
       SetVerification, RunFixtures, RecordFixtures, CheckAuthorizable, AuthorizeTransmission, BeginSend,
       BeginResend, Lookup, Check, InsertAttempt, Connect, Copy, Receipt, Outcome
  <2> QED BY <1>3, <2>1 DEF NothingLeavesUnauthorized, Authorized, Admitted, Cleared, Claimed
<1> QED BY <1>2, <1>3, AuthorizationStays DEF NothingLeavesUnauthorized

\* A file that left was authorized twice by an administrator, whatever the order
\* of the reads, although the checks and the send are separate steps.
THEOREM OnlyAuthorizedLeaves == Spec => []NothingLeavesUnauthorized
<1> DEFINE Inv == SendingIsSound /\ Authorized /\ NothingLeavesUnauthorized
<1>1. Init => Inv
  <2> SUFFICES ASSUME Init PROVE Inv
    OBVIOUS
  <2>1. con.state = "draft" /\ (\A c \in Client : pc[c] = "idle") /\ \A k \in Key : copies[k] = 0
    BY DEF Init, NewConnection
  <2> QED BY <2>1, SoundInit DEF Authorized, NothingLeavesUnauthorized, Admitted, Cleared, Claimed
<1>2. Inv /\ [Next]_vars => Inv'
  BY SoundStep, AuthorizedStep
<1>3. Inv => NothingLeavesUnauthorized
  OBVIOUS
<1> QED BY <1>1, <1>2, <1>3, PTL DEF Spec

-----------------------------------------------------------------------------
(* The life of messages (Lifecycle).                                      *)

\* Induction on an interval, for a set instead of a predicate: the prefixes of what is missing
\* from it would have a smallest one.
LEMMA IntervalInduction ==
  ASSUME NEW N \in Nat, NEW S, 0 \in S, \A n \in 0 .. N - 1 : n \in S => n + 1 \in S
  PROVE  0 .. N \subseteq S
<1> SUFFICES ASSUME NEW b \in 0 .. N, b \notin S PROVE FALSE
  OBVIOUS
<1> DEFINE T == {0 .. n : n \in (0 .. N) \ S}
           W == FiniteSubsetsOf(0 .. N)
<1>1. IsWellFoundedOn(StrictSubsetOrdering(0 .. N), W)
  BY FS_StrictSubsetOrderingWellFounded
<1>2. T \subseteq W /\ T # {}
  <2>1. ASSUME NEW n \in (0 .. N) \ S PROVE 0 .. n \in W
    <3>1. IsFiniteSet(0 .. n) BY FS_Interval
    <3>2. 0 .. n \subseteq 0 .. N OBVIOUS
    <3> QED BY <3>1, <3>2 DEF FiniteSubsetsOf
  <2>2. 0 .. b \in T OBVIOUS
  <2> QED BY <2>1, <2>2
<1>3. \E x \in T : \A y \in T : ~ (<<y, x>> \in StrictSubsetOrdering(0 .. N))
  <2> HIDE DEF T, W
  <2> QED BY <1>1, <1>2, WFMin
<1>4. PICK m \in (0 .. N) \ S : \A y \in T : ~ (<<y, 0 .. m>> \in StrictSubsetOrdering(0 .. N))
  BY <1>3
<1>5. m # 0 /\ m - 1 \in 0 .. N - 1 /\ m - 1 + 1 = m
  BY <1>4
<1>6. m - 1 \in (0 .. N) \ S
  BY <1>4, <1>5
<1>7. 0 .. (m - 1) \in T
  BY <1>6
<1>8. <<0 .. (m - 1), 0 .. m>> \in StrictSubsetOrdering(0 .. N)
  BY <1>4, <1>5 DEF StrictSubsetOrdering
<1> QED BY <1>4, <1>7, <1>8

\* The states a publication goes through.
Walk(f, j, n) ==
  f = [k \in 0 .. n |-> IF k = 0 THEN [row |-> row, effects |-> effects] ELSE Applied(f[k - 1], <<j, k>>)]

LEMMA WalkExists ==
  ASSUME NEW j \in Job, NEW N \in Nat
  PROVE  \E f : Walk(f, j, N)
<1> DEFINE S == {n \in 0 .. N : \E f : Walk(f, j, n)}
<1>1. 0 \in S
  <2> DEFINE g == [k \in 0 .. 0 |-> [row |-> row, effects |-> effects]]
  <2>1. Walk(g, j, 0)
    BY DEF Walk
  <2> QED BY <2>1
<1>2. ASSUME NEW n \in 0 .. N - 1, n \in S PROVE n + 1 \in S
  <2>1. PICK f : Walk(f, j, n)
    BY <1>2
  <2> DEFINE g == [k \in 0 .. n + 1 |-> IF k <= n THEN f[k] ELSE Applied(f[n], <<j, n + 1>>)]
  <2>2. \A k \in 0 .. n : f[k] = IF k = 0 THEN [row |-> row, effects |-> effects] ELSE Applied(f[k - 1], <<j, k>>)
    BY <2>1 DEF Walk
  <2>3. ASSUME NEW k \in 0 .. n + 1
        PROVE  g[k] = IF k = 0 THEN [row |-> row, effects |-> effects] ELSE Applied(g[k - 1], <<j, k>>)
    <3>1. CASE k = 0
      <4>1. g[k] = f[k] /\ k \in 0 .. n BY <3>1
      <4> QED BY <2>2, <3>1, <4>1
    <3>2. CASE k \in 1 .. n
      <4>1. g[k] = f[k] /\ g[k - 1] = f[k - 1] BY <3>2
      <4> QED BY <2>2, <3>2, <4>1
    <3>3. CASE k = n + 1
      <4>1. g[k] = Applied(f[n], <<j, n + 1>>) /\ k - 1 = n /\ k # 0 BY <3>3
      <4>2. g[n] = f[n] OBVIOUS
      <4> QED BY <3>3, <4>1, <4>2
    <3> QED BY <3>1, <3>2, <3>3
  <2>4. Walk(g, j, n + 1)
    <3>1. g = [k \in 0 .. n + 1 |-> g[k]] OBVIOUS
    <3>2. \A k \in 0 .. n + 1 :
            g[k] = IF k = 0 THEN [row |-> row, effects |-> effects] ELSE Applied(g[k - 1], <<j, k>>)
      BY <2>3
    <3> HIDE DEF g
    <3>3. [k \in 0 .. n + 1 |-> g[k]]
          = [k \in 0 .. n + 1 |-> IF k = 0 THEN [row |-> row, effects |-> effects]
                                 ELSE Applied(g[k - 1], <<j, k>>)]
      BY <3>2
    <3> QED BY <3>1, <3>3 DEF Walk
  <2> QED BY <2>4
<1>3. 0 .. N \subseteq S
  <2> HIDE DEF S
  <2> QED BY <1>1, <1>2, IntervalInduction
<1> QED BY <1>3

LEMMA AfterIsAWalk ==
  ASSUME NEW j \in Job, Len(content[j]) \in Nat
  PROVE  \E f : Walk(f, j, Len(content[j])) /\ After(j) = f[Len(content[j])]
<1> DEFINE N == Len(content[j])
           f == CHOOSE f : f = [n \in 0 .. N |-> IF n = 0 THEN [row |-> row, effects |-> effects]
                                                 ELSE Applied(f[n - 1], <<j, n>>)]
<1>1. \E g : g = [n \in 0 .. N |-> IF n = 0 THEN [row |-> row, effects |-> effects]
                                    ELSE Applied(g[n - 1], <<j, n>>)]
  BY WalkExists DEF Walk
<1>2. Walk(f, j, N)
  BY <1>1 DEF Walk
<1>3. After(j) = f[N]
  BY DEF After
<1> QED BY <1>2, <1>3

-----------------------------------------------------------------------------
Dealt == {"applied_scoped", "superseded", "cancelled"}
Row == [resolution : Resolutions, by : Ids \cup {Null}, order : Nat]
Effect == [id : Ids, over : SUBSET Ids]
At(r, m) == r[m[1]][m[2]].resolution
Order(r, m) == r[m[1]][m[2]].order

RowsOK(r) == DOMAIN r = Job /\ \A h \in Job : r[h] \in [DOMAIN content[h] -> Row]

LEMMA IdsAre ==
  ASSUME NEW m
  PROVE  m \in Ids <=> \E h \in Job : \E i \in DOMAIN content[h] : m = <<h, i>>
BY DEF Ids

LEMMA RowAt ==
  ASSUME NEW r, RowsOK(r), NEW m \in Ids
  PROVE  m[1] \in Job /\ m[2] \in DOMAIN content[m[1]] /\ r[m[1]][m[2]] \in Row /\ m = <<m[1], m[2]>>
BY IdsAre DEF RowsOK

\* One message is applied.
LEMMA AppliedIs ==
  ASSUME NEW s, s = [row |-> s.row, effects |-> s.effects], RowsOK(s.row), s.effects \in Seq(Effect),
         NEW id \in Ids
  PROVE  LET t == Applied(s, id)
             displaced == InForce(s, Msg(id), id)
         IN  /\ t = [row |-> t.row, effects |-> t.effects] /\ RowsOK(t.row) /\ t.effects \in Seq(Effect)
             /\ \A k \in Ids : \/ Order(t.row, k) = Order(s.row, k)
                               \/ Order(t.row, k) = Len(s.effects) + 1
             /\ \/ At(s.row, id) # "staged" /\ t = s
                \/ /\ At(s.row, id) = "staged" /\ Clash(s, id[1], Msg(id)) # {}
                   /\ t.effects = s.effects /\ At(t.row, id) = "superseded"
                   /\ \A m \in Ids : m # id => t.row[m[1]][m[2]] = s.row[m[1]][m[2]]
                \/ /\ At(s.row, id) = "staged" /\ Clash(s, id[1], Msg(id)) = {}
                   /\ t.effects = Append(s.effects, [id |-> id, over |-> displaced])
                   /\ At(t.row, id) = "applied_scoped"
                   /\ \A m \in Ids : m # id =>
                        IF m \in displaced THEN At(t.row, m) \in {"superseded", "cancelled"}
                                            ELSE t.row[m[1]][m[2]] = s.row[m[1]][m[2]]
<1> DEFINE t == Applied(s, id)
           m == Msg(id)
           clash == Clash(s, id[1], m)
           displaced == InForce(s, m, id)
           how == IF m.function = "cancellation" THEN "cancelled" ELSE "superseded"
           r == Displace(s.row, displaced, id, how)
           n == Len(s.effects) + 1
           kept == /\ t = [row |-> t.row, effects |-> t.effects] /\ RowsOK(t.row) /\ t.effects \in Seq(Effect)
           ordered == \A k \in Ids : \/ Order(t.row, k) = Order(s.row, k)
                                     \/ Order(t.row, k) = Len(s.effects) + 1
           left == At(s.row, id) # "staged" /\ t = s
           repeated == /\ At(s.row, id) = "staged" /\ clash # {}
                       /\ t.effects = s.effects /\ At(t.row, id) = "superseded"
                       /\ \A k \in Ids : k # id => t.row[k[1]][k[2]] = s.row[k[1]][k[2]]
           effective == /\ At(s.row, id) = "staged" /\ clash = {}
                        /\ t.effects = Append(s.effects, [id |-> id, over |-> displaced])
                        /\ At(t.row, id) = "applied_scoped"
                        /\ \A k \in Ids : k # id =>
                             IF k \in displaced THEN At(t.row, k) \in {"superseded", "cancelled"}
                                                ELSE t.row[k[1]][k[2]] = s.row[k[1]][k[2]]
<1> SUFFICES kept /\ ordered /\ (left \/ repeated \/ effective)
  OBVIOUS
<1>1. id[1] \in Job /\ id[2] \in DOMAIN content[id[1]] /\ s.row[id[1]][id[2]] \in Row /\ id = <<id[1], id[2]>>
  BY RowAt
<1>2. n \in Nat /\ displaced \subseteq Ids /\ clash \subseteq Ids
  BY DEF InForce, Clash
<1>3. CASE At(s.row, id) # "staged"
  <2>1. t = s
    BY <1>3 DEF Applied, At
  <2> HIDE DEF t
  <2> QED BY <1>3, <2>1
<1>4. CASE At(s.row, id) = "staged" /\ clash # {}
  <2> DEFINE c == Some(clash)
             new == [resolution |-> "superseded", by |-> c, order |-> n]
  <2>1. c \in Ids
    BY <1>2, <1>4 DEF Some
  <2>2. new \in Row /\ new.resolution = "superseded"
    BY <1>1, <1>2, <2>1 DEF Row, Resolutions
  <2>3. t = [row |-> [s.row EXCEPT ![id[1]][id[2]] = new], effects |-> s.effects]
    <3>1. t = [s EXCEPT !.row[id[1]][id[2]] = new]
      BY <1>4 DEF Applied, At
    <3> HIDE DEF t, new
    <3> QED BY <3>1
  <2>4. RowsOK([s.row EXCEPT ![id[1]][id[2]] = new])
    <3> HIDE DEF new
    <3> QED BY <1>1, <2>2 DEF RowsOK
  <2>5. ASSUME NEW k \in Ids, k # id
        PROVE  t.row[k[1]][k[2]] = s.row[k[1]][k[2]]
    <3>1. k[1] \in Job /\ k[2] \in DOMAIN content[k[1]] /\ k = <<k[1], k[2]>>
      BY RowAt
    <3> HIDE DEF t, new
    <3> QED BY <1>1, <2>3, <2>5, <3>1 DEF RowsOK
  <2>6. t.row[id[1]][id[2]] = new
    <3> HIDE DEF t, new
    <3> QED BY <1>1, <2>3 DEF RowsOK
  <2>7. t.effects = s.effects /\ t = [row |-> t.row, effects |-> t.effects] /\ RowsOK(t.row)
    <3> HIDE DEF t, new
    <3> QED BY <2>3, <2>4
  <2>8. new.order = n
    OBVIOUS
  <2> HIDE DEF t, new, clash
  <2> QED BY <1>4, <2>2, <2>5, <2>6, <2>7, <2>8 DEF At, Order
<1>5. CASE At(s.row, id) = "staged" /\ clash = {}
  <2>2. DOMAIN r = Job /\ \A h \in Job : DOMAIN r[h] = DOMAIN content[h]
    BY DEF Displace, RowsOK
  <2>3. \A k \in Ids :
          /\ k \in displaced => r[k[1]][k[2]] = [s.row[k[1]][k[2]] EXCEPT !.resolution = how, !.by = id]
          /\ k \notin displaced => r[k[1]][k[2]] = s.row[k[1]][k[2]]
    BY RowAt DEF Displace, RowsOK
  <2>4. \A k \in Ids : r[k[1]][k[2]] \in Row /\ Order(r, k) = Order(s.row, k) /\ (k \in displaced => r[k[1]][k[2]].resolution = how)
    <3> TAKE k \in Ids
    <3>1. s.row[k[1]][k[2]] \in Row
      BY RowAt
    <3>2. [s.row[k[1]][k[2]] EXCEPT !.resolution = how, !.by = id] \in Row
      BY <3>1 DEF Row, Resolutions
    <3>3. [s.row[k[1]][k[2]] EXCEPT !.resolution = how, !.by = id].resolution = how
      BY <3>1 DEF Row
    <3>4. [s.row[k[1]][k[2]] EXCEPT !.resolution = how, !.by = id].order = s.row[k[1]][k[2]].order
      BY <3>1 DEF Row
    <3> QED BY <2>3, <3>1, <3>2, <3>3, <3>4 DEF Order
  <2>5. RowsOK(r)
    <3>1. \A h \in Job : \A i \in DOMAIN content[h] : r[h][i] \in Row
      <4> TAKE h \in Job
      <4> TAKE i \in DOMAIN content[h]
      <4>1. <<h, i>> \in Ids /\ <<h, i>>[1] = h /\ <<h, i>>[2] = i
        BY IdsAre
      <4> HIDE DEF r
      <4> QED BY <2>4, <4>1
    <3>2. \A h \in Job : r[h] = [i \in DOMAIN content[h] |-> r[h][i]]
      BY DEF Displace, RowsOK
    <3> HIDE DEF r
    <3> QED BY <2>2, <3>1, <3>2 DEF RowsOK
  <2> DEFINE new == [r[id[1]][id[2]] EXCEPT !.resolution = "applied_scoped", !.order = n]
             e == Append(s.effects, [id |-> id, over |-> displaced])
  <2>6. new \in Row /\ new.resolution = "applied_scoped" /\ new.order = n
    <3>1. r[id[1]][id[2]] \in Row
      BY <2>4
    <3> HIDE DEF r
    <3> QED BY <1>2, <3>1 DEF Row, Resolutions
  <2>7. t = [row |-> [r EXCEPT ![id[1]][id[2]] = new], effects |-> e]
    <3>1. t = [row |-> [r EXCEPT ![id[1]][id[2]].resolution = "applied_scoped",
                                 ![id[1]][id[2]].order = n],
               effects |-> e]
      BY <1>5 DEF Applied, At
    <3> HIDE DEF r, t, e
    <3> QED BY <1>1, <2>5, <3>1 DEF RowsOK, Row
  <2>8. RowsOK([r EXCEPT ![id[1]][id[2]] = new])
    <3> HIDE DEF r, new
    <3> QED BY <1>1, <2>5, <2>6 DEF RowsOK
  <2>9. e \in Seq(Effect)
    BY <1>2 DEF Effect
  <2>10. ASSUME NEW k \in Ids, k # id
         PROVE  t.row[k[1]][k[2]] = r[k[1]][k[2]]
    <3>1. k[1] \in Job /\ k[2] \in DOMAIN content[k[1]] /\ k = <<k[1], k[2]>>
      BY RowAt
    <3> HIDE DEF r, t, new, e
    <3> QED BY <1>1, <2>5, <2>7, <2>10, <3>1 DEF RowsOK
  <2>11. t.row[id[1]][id[2]] = new
    <3> HIDE DEF r, t, new, e
    <3> QED BY <1>1, <2>5, <2>7 DEF RowsOK
  <2>12. \A k \in Ids : k # id =>
           IF k \in displaced THEN At(t.row, k) \in {"superseded", "cancelled"}
                              ELSE t.row[k[1]][k[2]] = s.row[k[1]][k[2]]
    <3> HIDE DEF r, t, new, e, displaced
    <3> QED BY <2>3, <2>4, <2>10 DEF At
  <2>13. t.effects = e /\ t = [row |-> t.row, effects |-> t.effects] /\ RowsOK(t.row)
    BY <2>7, <2>8
  <2>14. ordered
    <3> HIDE DEF r, t, new
    <3> QED BY <2>4, <2>6, <2>10, <2>11 DEF Order
  <2> HIDE DEF r, t, new, displaced, ordered
  <2> QED BY <1>5, <2>14, <2>6, <2>9, <2>11, <2>12, <2>13 DEF At
<1> HIDE DEF t, clash, displaced, kept, ordered, left, repeated, effective
<1> QED BY <1>3, <1>4, <1>5

-----------------------------------------------------------------------------
OneEach(r) ==
  \A m, n \in Ids : /\ Msg(m).key = Msg(n).key
                     /\ At(r, m) = "applied_scoped" /\ At(r, n) = "applied_scoped"
                     => m = n
Once(e) ==
  \A a, b \in DOMAIN e : e[a].id[1] # e[b].id[1] => Msg(e[a].id).revision # Msg(e[b].id).revision
Traced(r, e) == \A a \in DOMAIN e : At(r, e[a].id) \in Dealt
Dated(r, e) == \A m \in Ids : Order(r, m) <= Len(e) + 1
Newest(e) ==
  \A a \in DOMAIN e :
    Amends(Msg(e[a].id)) => /\ e[a].over # {}
                            /\ \A n \in e[a].over : n[1] # e[a].id[1] => ~Older(Msg(e[a].id), n)

\* What holds between two messages of a job that is being published.
Stage(s, j) ==
  /\ s = [row |-> s.row, effects |-> s.effects] /\ RowsOK(s.row) /\ s.effects \in Seq(Effect)
  /\ OneEach(s.row) /\ Once(s.effects) /\ Traced(s.row, s.effects) /\ Dated(s.row, s.effects)
  /\ \A m \in Ids : m[1] # j => (At(s.row, m) \in Dealt <=> Res(m) \in Dealt)

LEMMA StageStep ==
  ASSUME NEW s, NEW j \in Job, NEW i \in DOMAIN content[j], Stage(s, j)
  PROVE  Stage(Applied(s, <<j, i>>), j)
<1> DEFINE id == <<j, i>>
           t == Applied(s, id)
           displaced == InForce(s, Msg(id), id)
           effect == [id |-> id, over |-> displaced]
<1>1. id \in Ids /\ id[1] = j /\ effect \in Effect
  BY IdsAre DEF Effect, InForce
<1>2. /\ t = [row |-> t.row, effects |-> t.effects] /\ RowsOK(t.row) /\ t.effects \in Seq(Effect)
      /\ \A k \in Ids : Order(t.row, k) = Order(s.row, k) \/ Order(t.row, k) = Len(s.effects) + 1
      /\ \/ At(s.row, id) # "staged" /\ t = s
         \/ /\ At(s.row, id) = "staged" /\ Clash(s, j, Msg(id)) # {}
            /\ t.effects = s.effects /\ At(t.row, id) = "superseded"
            /\ \A m \in Ids : m # id => t.row[m[1]][m[2]] = s.row[m[1]][m[2]]
         \/ /\ At(s.row, id) = "staged" /\ Clash(s, j, Msg(id)) = {}
            /\ t.effects = Append(s.effects, effect)
            /\ At(t.row, id) = "applied_scoped"
            /\ \A m \in Ids : m # id =>
                 IF m \in displaced THEN At(t.row, m) \in {"superseded", "cancelled"}
                                    ELSE t.row[m[1]][m[2]] = s.row[m[1]][m[2]]
  <2>1. s = [row |-> s.row, effects |-> s.effects] /\ RowsOK(s.row) /\ s.effects \in Seq(Effect)
    BY DEF Stage
  <2>2. /\ t = [row |-> t.row, effects |-> t.effects] /\ RowsOK(t.row) /\ t.effects \in Seq(Effect)
        /\ \A k \in Ids : Order(t.row, k) = Order(s.row, k) \/ Order(t.row, k) = Len(s.effects) + 1
        /\ \/ At(s.row, id) # "staged" /\ t = s
           \/ /\ At(s.row, id) = "staged" /\ Clash(s, id[1], Msg(id)) # {}
              /\ t.effects = s.effects /\ At(t.row, id) = "superseded"
              /\ \A m \in Ids : m # id => t.row[m[1]][m[2]] = s.row[m[1]][m[2]]
           \/ /\ At(s.row, id) = "staged" /\ Clash(s, id[1], Msg(id)) = {}
              /\ t.effects = Append(s.effects, effect)
              /\ At(t.row, id) = "applied_scoped"
              /\ \A m \in Ids : m # id =>
                   IF m \in displaced THEN At(t.row, m) \in {"superseded", "cancelled"}
                                      ELSE t.row[m[1]][m[2]] = s.row[m[1]][m[2]]
    BY <1>1, <2>1, AppliedIs
  <2> HIDE DEF id, t, displaced, effect
  <2> QED BY <1>1, <2>2
<1> SUFFICES Stage(t, j)
  OBVIOUS
<1>a. \A a \in DOMAIN s.effects : s.effects[a].id \in Ids /\ At(s.row, s.effects[a].id) \in Dealt
  <2> TAKE a \in DOMAIN s.effects
  <2>1. s.effects[a] \in Effect
    BY DEF Stage
  <2> QED BY <2>1 DEF Stage, Traced, Effect
<1> HIDE DEF t, displaced, effect
<1>3. CASE t = s
  BY <1>3
<1>4. CASE /\ At(s.row, id) = "staged"
           /\ t.effects = s.effects /\ At(t.row, id) = "superseded"
           /\ \A m \in Ids : m # id => t.row[m[1]][m[2]] = s.row[m[1]][m[2]]
  <2>1. \A m \in Ids : m # id => At(t.row, m) = At(s.row, m)
    BY <1>4 DEF At
  <2>2. OneEach(t.row)
    BY <1>4, <2>1 DEF Stage, OneEach
  <2>3. Traced(t.row, t.effects)
    <3> SUFFICES ASSUME NEW a \in DOMAIN s.effects PROVE At(t.row, s.effects[a].id) \in Dealt
      BY <1>4 DEF Traced
    <3>1. s.effects[a].id \in Ids /\ At(s.row, s.effects[a].id) \in Dealt
      BY <1>a
    <3> QED BY <1>4, <2>1, <3>1 DEF Dealt
  <2>4. Dated(t.row, t.effects)
    <3> SUFFICES ASSUME NEW k \in Ids PROVE Order(t.row, k) <= Len(s.effects) + 1
      BY <1>4 DEF Dated
    <3>1. Order(s.row, k) <= Len(s.effects) + 1
      BY DEF Stage, Dated
    <3>2. Len(s.effects) \in Nat
      BY DEF Stage
    <3> QED BY <1>2, <3>1, <3>2
  <2>5. \A m \in Ids : m[1] # j => (At(t.row, m) \in Dealt <=> Res(m) \in Dealt)
    BY <1>1, <2>1 DEF Stage
  <2> QED BY <1>2, <1>4, <2>2, <2>3, <2>4, <2>5 DEF Stage
<1>5. CASE /\ At(s.row, id) = "staged" /\ Clash(s, j, Msg(id)) = {}
           /\ t.effects = Append(s.effects, effect)
           /\ At(t.row, id) = "applied_scoped"
           /\ \A m \in Ids : m # id =>
                IF m \in displaced THEN At(t.row, m) \in {"superseded", "cancelled"}
                                   ELSE t.row[m[1]][m[2]] = s.row[m[1]][m[2]]
  <2>0. Len(s.effects) \in Nat /\ s.effects \in Seq(Effect) /\ DOMAIN s.effects = 1 .. Len(s.effects)
    BY DEF Stage
  <2>1. \A m \in Ids : m # id => \/ m \in displaced /\ At(t.row, m) \in {"superseded", "cancelled"}
                                 \/ m \notin displaced /\ At(t.row, m) = At(s.row, m)
    <3> SUFFICES ASSUME NEW m \in Ids, m # id
                 PROVE  \/ m \in displaced /\ At(t.row, m) \in {"superseded", "cancelled"}
                        \/ m \notin displaced /\ At(t.row, m) = At(s.row, m)
      OBVIOUS
    <3>1. IF m \in displaced THEN At(t.row, m) \in {"superseded", "cancelled"}
                             ELSE t.row[m[1]][m[2]] = s.row[m[1]][m[2]]
      BY <1>5
    <3> QED BY <3>1 DEF At
  <2>2. \A m \in Ids : m \in displaced <=> m # id /\ Msg(m).key = Msg(id).key /\ At(s.row, m) = "applied_scoped"
    BY DEF displaced, InForce, At
  <2>3. OneEach(t.row)
    <3> SUFFICES ASSUME NEW m \in Ids, NEW n \in Ids, Msg(m).key = Msg(n).key,
                        At(t.row, m) = "applied_scoped", At(t.row, n) = "applied_scoped"
                 PROVE  m = n
      BY DEF OneEach
    <3>1. CASE m # id /\ n # id
      BY <2>1, <3>1 DEF Stage, OneEach
    <3>2. CASE m = id \/ n = id
      BY <2>1, <2>2, <3>2
    <3> QED BY <3>1, <3>2
  <2>4. /\ DOMAIN t.effects = 1 .. Len(s.effects) + 1
        /\ \A a \in 1 .. Len(s.effects) : t.effects[a] = s.effects[a]
        /\ t.effects[Len(s.effects) + 1] = effect /\ Len(t.effects) = Len(s.effects) + 1
    BY <1>1, <1>5, <2>0
  <2>5. effect.id = id
    BY DEF effect
  <2>6. \A a \in 1 .. Len(s.effects) : s.effects[a].id \in Ids /\ At(s.row, s.effects[a].id) \in Dealt
    BY <2>0, <1>a
  <2>7. \A m \in Ids : At(s.row, m) \in Dealt => At(t.row, m) \in Dealt
    BY <1>5, <2>1 DEF Dealt
  <2>8. Traced(t.row, t.effects)
    <3> SUFFICES ASSUME NEW a \in DOMAIN t.effects PROVE At(t.row, t.effects[a].id) \in Dealt
      BY DEF Traced
    <3>1. CASE a = Len(s.effects) + 1
      BY <1>5, <2>4, <2>5, <3>1 DEF Dealt
    <3>2. CASE a \in 1 .. Len(s.effects)
      BY <2>4, <2>6, <2>7, <3>2
    <3> QED BY <2>0, <2>4, <3>1, <3>2
  <2>9. \A a \in 1 .. Len(s.effects) :
           s.effects[a].id[1] # j => Msg(s.effects[a].id).revision # Msg(id).revision
    BY <1>5, <2>6 DEF Clash, At, Dealt
  <2>10. Once(t.effects)
    <3> SUFFICES ASSUME NEW a \in DOMAIN t.effects, NEW b \in DOMAIN t.effects,
                        t.effects[a].id[1] # t.effects[b].id[1]
                 PROVE  Msg(t.effects[a].id).revision # Msg(t.effects[b].id).revision
      BY DEF Once
    <3>1. CASE a \in 1 .. Len(s.effects) /\ b \in 1 .. Len(s.effects)
      BY <2>0, <2>4, <3>1 DEF Stage, Once
    <3>2. CASE a = Len(s.effects) + 1 /\ b \in 1 .. Len(s.effects)
      BY <1>1, <2>4, <2>5, <2>9, <3>2
    <3>3. CASE b = Len(s.effects) + 1 /\ a \in 1 .. Len(s.effects)
      BY <1>1, <2>4, <2>5, <2>9, <3>3
    <3>4. CASE a = b
      BY <3>4
    <3> QED BY <2>0, <2>4, <3>1, <3>2, <3>3, <3>4
  <2>11. Dated(t.row, t.effects)
    <3> SUFFICES ASSUME NEW k \in Ids PROVE Order(t.row, k) <= Len(t.effects) + 1
      BY DEF Dated
    <3>1. Order(s.row, k) <= Len(s.effects) + 1 /\ Order(s.row, k) \in Nat
      BY RowAt DEF Stage, Dated, Order, Row
    <3> QED BY <1>2, <2>0, <2>4, <3>1
  <2>12. \A m \in Ids : m[1] # j => (At(t.row, m) \in Dealt <=> Res(m) \in Dealt)
    BY <1>1, <2>1, <2>2 DEF Stage, Dealt
  <2> QED BY <1>2, <2>3, <2>8, <2>10, <2>11, <2>12 DEF Stage
<1> QED BY <1>2, <1>3, <1>4, <1>5

-----------------------------------------------------------------------------
\* What the gates found of the messages of a job still holds.
Answered(j) ==
  \A i \in DOMAIN content[j] :
    Res(<<j, i>>) = Resolution(j, content[j][i]) /\ ~Blocks(j, content[j][i])

\* Its messages come one after the other; no other job gets a message into force, and no
\* business key is left without one.
Further(s, j, n) ==
  /\ \A i \in DOMAIN content[j] : i > n => s.row[j][i] = row[j][i]
  /\ \A m \in Ids : m[1] # j /\ At(s.row, m) = "applied_scoped" => Res(m) = "applied_scoped"
  /\ \A m \in Ids : Res(m) = "applied_scoped" =>
       \E k \in Ids : Msg(k).key = Msg(m).key /\ At(s.row, k) = "applied_scoped"
  /\ Newest(s.effects)

\* A message in force alone is the latest.
LEMMA AloneIsLatest ==
  ASSUME RowsOK(row), NEW n \in Ids
  PROVE  Latest({n}) = n
<1>1. row[n[1]][n[2]].order \in Nat
  BY RowAt DEF Row
<1>2. {m \in {n} : \A k \in {n} : row[k[1]][k[2]].order <= row[m[1]][m[2]].order} = {n}
  BY <1>1
<1> QED BY <1>2 DEF Latest, Some

LEMMA FurtherStep ==
  ASSUME NEW s, NEW j \in Job, NEW i \in DOMAIN content[j], i \in Nat, Stage(s, j), Further(s, j, i - 1),
         RowsOK(row), OneEach(row), Answered(j), DOMAIN content[j] \subseteq Nat
  PROVE  Further(Applied(s, <<j, i>>), j, i)
<1> DEFINE id == <<j, i>>
           t == Applied(s, id)
           displaced == InForce(s, Msg(id), id)
           effect == [id |-> id, over |-> displaced]
<1>1. id \in Ids /\ id[1] = j /\ id[2] = i /\ effect \in Effect /\ Msg(id) = content[j][i]
  BY IdsAre DEF Effect, InForce, Msg
<1>2. /\ t.effects \in Seq(Effect)
      /\ \/ At(s.row, id) # "staged" /\ t = s
         \/ /\ At(s.row, id) = "staged" /\ Clash(s, j, Msg(id)) # {}
            /\ t.effects = s.effects /\ At(t.row, id) = "superseded"
            /\ \A m \in Ids : m # id => t.row[m[1]][m[2]] = s.row[m[1]][m[2]]
         \/ /\ At(s.row, id) = "staged" /\ Clash(s, j, Msg(id)) = {}
            /\ t.effects = Append(s.effects, effect)
            /\ At(t.row, id) = "applied_scoped"
            /\ \A m \in Ids : m # id =>
                 IF m \in displaced THEN At(t.row, m) \in {"superseded", "cancelled"}
                                    ELSE t.row[m[1]][m[2]] = s.row[m[1]][m[2]]
  <2>1. s = [row |-> s.row, effects |-> s.effects] /\ RowsOK(s.row) /\ s.effects \in Seq(Effect)
    BY DEF Stage
  <2>2. /\ t = [row |-> t.row, effects |-> t.effects] /\ RowsOK(t.row) /\ t.effects \in Seq(Effect)
        /\ \A k \in Ids : Order(t.row, k) = Order(s.row, k) \/ Order(t.row, k) = Len(s.effects) + 1
        /\ \/ At(s.row, id) # "staged" /\ t = s
           \/ /\ At(s.row, id) = "staged" /\ Clash(s, id[1], Msg(id)) # {}
              /\ t.effects = s.effects /\ At(t.row, id) = "superseded"
              /\ \A m \in Ids : m # id => t.row[m[1]][m[2]] = s.row[m[1]][m[2]]
           \/ /\ At(s.row, id) = "staged" /\ Clash(s, id[1], Msg(id)) = {}
              /\ t.effects = Append(s.effects, effect)
              /\ At(t.row, id) = "applied_scoped"
              /\ \A m \in Ids : m # id =>
                   IF m \in displaced THEN At(t.row, m) \in {"superseded", "cancelled"}
                                      ELSE t.row[m[1]][m[2]] = s.row[m[1]][m[2]]
    BY <1>1, <2>1, AppliedIs
  <2> HIDE DEF id, t, displaced, effect
  <2> QED BY <1>1, <2>2
<1> SUFFICES Further(t, j, i)
  OBVIOUS
<1>3. \A k \in DOMAIN content[j] : k > i =>
        <<j, k>> \in Ids /\ <<j, k>> # id /\ k > i - 1 /\ s.row[j][k] = row[j][k]
  BY IdsAre DEF Further
<1>4. \A m \in Ids : m \in displaced <=> m # id /\ Msg(m).key = Msg(id).key /\ At(s.row, m) = "applied_scoped"
  BY DEF InForce, At
<1>c. displaced \subseteq Ids
  BY DEF InForce
<1> HIDE DEF t, displaced, effect
<1>5. CASE t = s
  BY <1>3, <1>5 DEF Further
<1>6. CASE /\ At(s.row, id) = "staged"
           /\ t.effects = s.effects /\ At(t.row, id) = "superseded"
           /\ \A m \in Ids : m # id => t.row[m[1]][m[2]] = s.row[m[1]][m[2]]
  <2>1. \A m \in Ids : m # id => At(t.row, m) = At(s.row, m)
    BY <1>6 DEF At
  <2>2. \A k \in DOMAIN content[j] : k > i => t.row[j][k] = row[j][k]
    BY <1>3, <1>6
  <2>3. \A m \in Ids : m[1] # j /\ At(t.row, m) = "applied_scoped" => Res(m) = "applied_scoped"
    BY <1>1, <2>1 DEF Further
  <2>4. \A m \in Ids : Res(m) = "applied_scoped" =>
          \E k \in Ids : Msg(k).key = Msg(m).key /\ At(t.row, k) = "applied_scoped"
    <3> TAKE m \in Ids
    <3> HAVE Res(m) = "applied_scoped"
    <3>1. PICK k \in Ids : Msg(k).key = Msg(m).key /\ At(s.row, k) = "applied_scoped"
      BY DEF Further
    <3>2. k # id
      BY <1>6, <3>1
    <3> QED BY <2>1, <3>1, <3>2
  <2> QED BY <1>6, <2>2, <2>3, <2>4 DEF Further
<1>7. CASE /\ At(s.row, id) = "staged" /\ Clash(s, j, Msg(id)) = {}
           /\ t.effects = Append(s.effects, effect)
           /\ At(t.row, id) = "applied_scoped"
           /\ \A m \in Ids : m # id =>
                IF m \in displaced THEN At(t.row, m) \in {"superseded", "cancelled"}
                                   ELSE t.row[m[1]][m[2]] = s.row[m[1]][m[2]]
  <2>1. \A m \in Ids : m # id => \/ m \in displaced /\ At(t.row, m) \in {"superseded", "cancelled"}
                                 \/ m \notin displaced /\ At(t.row, m) = At(s.row, m)
    <3> SUFFICES ASSUME NEW m \in Ids, m # id
                 PROVE  \/ m \in displaced /\ At(t.row, m) \in {"superseded", "cancelled"}
                        \/ m \notin displaced /\ At(t.row, m) = At(s.row, m)
      OBVIOUS
    <3>1. IF m \in displaced THEN At(t.row, m) \in {"superseded", "cancelled"}
                             ELSE t.row[m[1]][m[2]] = s.row[m[1]][m[2]]
      BY <1>7
    <3> QED BY <3>1 DEF At
  <2>2. \A k \in DOMAIN content[j] : k > i => t.row[j][k] = row[j][k]
    <3> SUFFICES ASSUME NEW k \in DOMAIN content[j], k > i PROVE t.row[j][k] = row[j][k]
      OBVIOUS
    <3> DEFINE m == <<j, k>>
    <3>1. m \in Ids /\ m # id /\ m[1] = j /\ m[2] = k /\ s.row[j][k] = row[j][k]
      BY <1>3
    <3>2. At(s.row, m) # "applied_scoped"
      <4>1. At(s.row, m) = Res(m) /\ Res(m) = Resolution(j, content[j][k])
        BY <3>1 DEF Answered, At, Res
      <4> QED BY <4>1 DEF Resolution
    <3>3. t.row[m[1]][m[2]] = s.row[m[1]][m[2]]
      BY <1>4, <1>7, <3>1, <3>2
    <3> QED BY <3>1, <3>3
  <2>3. \A m \in Ids : m[1] # j /\ At(t.row, m) = "applied_scoped" => Res(m) = "applied_scoped"
    BY <1>1, <2>1 DEF Further
  <2>4. \A m \in Ids : Res(m) = "applied_scoped" =>
          \E k \in Ids : Msg(k).key = Msg(m).key /\ At(t.row, k) = "applied_scoped"
    <3> TAKE m \in Ids
    <3> HAVE Res(m) = "applied_scoped"
    <3>1. PICK k \in Ids : Msg(k).key = Msg(m).key /\ At(s.row, k) = "applied_scoped"
      BY DEF Further
    <3>2. CASE k # id /\ k \notin displaced
      BY <2>1, <3>1, <3>2
    <3>3. CASE k = id \/ k \in displaced
      BY <1>1, <1>4, <1>7, <3>1, <3>3
    <3> QED BY <3>2, <3>3
  <2>5. Amends(Msg(id)) => displaced # {} /\ \A n \in displaced : n[1] # j => ~Older(Msg(id), n)
    <3> HAVE Amends(Msg(id))
    <3> DEFINE m == Msg(id)
               held == {n \in Ids : n[1] # j /\ Msg(n).key = m.key /\ Res(n) = "applied_scoped"}
    <3>1. Res(id) = "staged" /\ Res(id) = Resolution(j, m) /\ ~Blocks(j, m)
      BY <1>1, <1>7 DEF Answered, Further, At, Res
    <3>2. SameRevision(j, m) = Null
      <4>1. {n \in Ids : n[1] # j /\ Msg(n).revision = m.revision
                         /\ Res(n) \in {"applied_scoped", "superseded", "cancelled"}} = {}
        BY <1>7 DEF Clash, Stage, At, Dealt
      <4> QED BY <4>1 DEF SameRevision, Latest
    <3>3. m.function # "unsupported"
      BY DEF Amends
    <3>4. Current(j, m) # Null
      BY <3>1, <3>2, <3>3 DEF Blocks
    <3>5. ~Older(m, Current(j, m))
      BY <3>1, <3>2, <3>3, <3>4 DEF Resolution
    <3>6. held # {} /\ Current(j, m) = Latest(held)
      BY <3>4 DEF Current, Latest
    <3>7. PICK n \in held : TRUE
      BY <3>6
    <3>8. held = {n}
      BY <3>7 DEF OneEach, At, Res
    <3>9. Current(j, m) = n
      BY <3>6, <3>7, <3>8, AloneIsLatest
    <3>10. \A k \in displaced : k[1] # j => k \in held
      BY <1>c, <1>4 DEF Further
    <3>11. displaced # {}
      <4>1. PICK k \in Ids : Msg(k).key = m.key /\ At(s.row, k) = "applied_scoped"
        BY <3>7 DEF Further
      <4>2. k # id
        BY <1>7, <4>1
      <4> QED BY <1>4, <4>1, <4>2
    <3> HIDE DEF m, held
    <3>12. \A k \in displaced : k[1] # j => ~Older(m, k)
      BY <3>5, <3>8, <3>9, <3>10
    <3> QED BY <3>11, <3>12 DEF m
  <2>6. Newest(t.effects)
    <3>1. Len(s.effects) \in Nat /\ s.effects \in Seq(Effect) /\ DOMAIN s.effects = 1 .. Len(s.effects)
      BY DEF Stage
    <3>2. /\ DOMAIN t.effects = 1 .. Len(s.effects) + 1
          /\ \A a \in 1 .. Len(s.effects) : t.effects[a] = s.effects[a]
          /\ t.effects[Len(s.effects) + 1] = effect
      BY <1>1, <1>7, <3>1
    <3> SUFFICES ASSUME NEW a \in DOMAIN t.effects, Amends(Msg(t.effects[a].id))
                 PROVE  /\ t.effects[a].over # {}
                        /\ \A n \in t.effects[a].over :
                             n[1] # t.effects[a].id[1] => ~Older(Msg(t.effects[a].id), n)
      BY DEF Newest
    <3>3. CASE a \in 1 .. Len(s.effects)
      BY <3>1, <3>2, <3>3 DEF Further, Newest
    <3>4. CASE a = Len(s.effects) + 1
      <4>1. t.effects[a] = effect /\ t.effects[a].id = id /\ t.effects[a].over = displaced
        <5>1. t.effects[a] = effect
          BY <3>2, <3>4
        <5>2. effect.id = id /\ effect.over = displaced
          BY DEF effect
        <5> QED BY <5>1, <5>2
      <4> QED BY <1>1, <2>5, <4>1
    <3> QED BY <3>1, <3>2, <3>3, <3>4
  <2> QED BY <2>2, <2>3, <2>4, <2>6 DEF Further
<1> QED BY <1>2, <1>5, <1>6, <1>7

-----------------------------------------------------------------------------
Settled(h) == gen[h] \in {"published", "superseded"}

\* Only messages of settled jobs were ever applied; a job that was not submitted has none.
Waiting == \A m \in Ids : Res(m) \in Dealt => Settled(m[1])
Unborn == \A h \in Job : gen[h] = "none" => content[h] = <<>>

LifeInv ==
  /\ LifeTypeOK /\ OnePerKey /\ OncePerRevision
  /\ Traced(row, effects) /\ Dated(row, effects) /\ Waiting /\ Unborn

LEMMA FilesAreSequences ==
  ASSUME LifeTypeOK, NEW h \in Job
  PROVE  Len(content[h]) \in Nat /\ DOMAIN content[h] = 1 .. Len(content[h])
<1>1. content[h] \in Content \cup {<<>>}
  BY DEF LifeTypeOK
<1> QED BY <1>1, LifecycleAssumption

LEMMA RowsAre ==
  ASSUME LifeTypeOK
  PROVE  RowsOK(row) /\ effects \in Seq(Effect)
BY DEF LifeTypeOK, RowsOK, Row, Effect

\* The whole publication, by induction on the messages of the job.
LEMMA Publication ==
  ASSUME LifeInv, NEW j \in Job
  PROVE  /\ Stage(After(j), j)
         /\ Answered(j) /\ Newest(effects) => Newest(After(j).effects)
<1> DEFINE N == Len(content[j])
           P(s, n) == Stage(s, j) /\ (Answered(j) /\ Newest(effects) => Further(s, j, n))
<1>1. N \in Nat /\ DOMAIN content[j] = 1 .. N
  BY FilesAreSequences DEF LifeInv
<1>2. RowsOK(row) /\ effects \in Seq(Effect) /\ OneEach(row)
  BY RowsAre DEF LifeInv, OnePerKey, OneEach, At, Res
<1>3. PICK f : Walk(f, j, N) /\ After(j) = f[N]
  BY <1>1, AfterIsAWalk
<1>4. f[0] = [row |-> row, effects |-> effects] /\ \A k \in 1 .. N : f[k] = Applied(f[k - 1], <<j, k>>)
  <2> HIDE DEF N
  <2>1. \A k \in 0 .. N : f[k] = IF k = 0 THEN [row |-> row, effects |-> effects] ELSE Applied(f[k - 1], <<j, k>>)
    BY <1>3 DEF Walk
  <2>2. 0 \in 0 .. N /\ \A k \in 1 .. N : k \in 0 .. N /\ k # 0
    BY <1>1
  <2> QED BY <2>1, <2>2
<1> HIDE DEF N
<1> DEFINE S == {n \in 0 .. N : P(f[n], n)}
<1>5. 0 \in S
  <2>1. Stage([row |-> row, effects |-> effects], j)
    BY <1>2 DEF Stage, LifeInv, OncePerRevision, Once, At, Res
  <2>2. Newest(effects) => Further([row |-> row, effects |-> effects], j, 0)
    BY DEF Further, At, Res
  <2> QED BY <1>1, <1>4, <2>1, <2>2
<1>6. ASSUME NEW n \in 0 .. N - 1, n \in S PROVE n + 1 \in S
  <2>1. n + 1 \in DOMAIN content[j] /\ n + 1 \in 1 .. N /\ n + 1 \in Nat /\ (n + 1) - 1 = n /\ n + 1 \in 0 .. N
        /\ DOMAIN content[j] \subseteq Nat
    BY <1>1
  <2>2. P(f[n], n)
    BY <1>6
  <2>3. f[n + 1] = Applied(f[n], <<j, n + 1>>)
    BY <1>4, <2>1
  <2>4. Stage(f[n + 1], j)
    BY <2>1, <2>2, <2>3, StageStep
  <2>5. Answered(j) /\ Newest(effects) => Further(f[n + 1], j, n + 1)
    <3> DEFINE i == n + 1
    <3>1. i \in DOMAIN content[j] /\ i \in Nat /\ i - 1 = n /\ f[i] = Applied(f[n], <<j, i>>)
      BY <2>1, <2>3
    <3> HIDE DEF i
    <3>2. ASSUME Answered(j), Newest(effects) PROVE Further(f[i], j, i)
      <4>1. Further(f[n], j, i - 1) /\ Stage(f[n], j)
        BY <2>2, <3>1, <3>2
      <4> QED BY <1>2, <2>1, <3>1, <3>2, <4>1, FurtherStep
    <3> QED BY <3>2 DEF i
  <2> QED BY <2>1, <2>4, <2>5
<1>7. N \in S
  <2>1. 0 .. N \subseteq S
    <3> HIDE DEF S
    <3> QED BY <1>1, <1>5, <1>6, IntervalInduction DEF N
  <2> QED BY <1>1, <2>1 DEF N
<1> QED BY <1>3, <1>7 DEF Further

-----------------------------------------------------------------------------
(* What a job sees of the others.                                          *)

LEMMA LargestExists ==
  ASSUME NEW ms, ms # {}, NEW rank, NEW B \in Nat, \A m \in ms : rank[m] \in 0 .. B
  PROVE  \E m \in ms : \A n \in ms : rank[n] <= rank[m]
<1> DEFINE goal == \E m \in ms : \A n \in ms : rank[n] <= rank[m]
           S == {k \in 0 .. B : (\E m \in ms : rank[m] >= B - k) => goal}
<1>1. 0 \in S
  OBVIOUS
<1>2. ASSUME NEW k \in 0 .. B - 1, k \in S PROVE k + 1 \in S
  <2>1. SUFFICES ASSUME NEW m \in ms, rank[m] >= B - (k + 1) PROVE goal
    OBVIOUS
  <2>2. CASE \E n \in ms : rank[n] >= B - k
    BY <1>2, <2>2
  <2>3. CASE \A n \in ms : ~(rank[n] >= B - k)
    BY <2>1, <2>3
  <2> QED BY <2>2, <2>3
<1>3. B \in S
  <2>1. 0 .. B \subseteq S
    <3> HIDE DEF S
    <3> QED BY <1>1, <1>2, IntervalInduction
  <2> QED BY <2>1
<1> QED BY <1>3

LEMMA LatestIsThere ==
  ASSUME RowsOK(row), Len(effects) \in Nat, Dated(row, effects), NEW ms, ms \subseteq Ids, ms # {}
  PROVE  Latest(ms) \in ms
<1> DEFINE rank == [m \in ms |-> row[m[1]][m[2]].order]
           last == {m \in ms : \A n \in ms : row[n[1]][n[2]].order <= row[m[1]][m[2]].order}
<1>1. \A m \in ms : rank[m] \in 0 .. Len(effects) + 1
  BY RowAt DEF Row, Dated, Order
<1>2. \E m \in ms : \A n \in ms : rank[n] <= rank[m]
  <2> HIDE DEF rank
  <2> QED BY <1>1, LargestExists
<1>3. last # {}
  BY <1>2
<1>4. Latest(ms) = Some(last)
  BY DEF Latest
<1>5. Some(last) \in last
  BY <1>3 DEF Some
<1> QED BY <1>4, <1>5

Seen(h) == {n \in Ids : n[1] # h /\ Res(n) \in Dealt}

\* The gates find the same as long as a job sees the same.
LEMMA ViewStands ==
  ASSUME LifeTypeOK, Dated(row, effects), NEW h \in Job,
         Seen(h)' = Seen(h), \A n \in Seen(h) : Msg(n)' = Msg(n) /\ row'[n[1]][n[2]] = row[n[1]][n[2]]
  PROVE  \A m : Resolution(h, m)' = Resolution(h, m) /\ (Blocks(h, m)' <=> Blocks(h, m))
<1> DEFINE alike(m) == {n \in Seen(h) : Msg(n).revision = m.revision}
           before(m) == {n \in Seen(h) : Msg(n).key = m.key /\ Res(n) = "applied_scoped"}
           latest(ms) == {m \in ms : \A n \in ms : row[n[1]][n[2]].order <= row[m[1]][m[2]].order}
<1>1. \A m : SameRevision(h, m) = Latest(alike(m)) /\ Current(h, m) = Latest(before(m))
  <2> TAKE m
  <2>1. {n \in Ids : n[1] # h /\ Msg(n).revision = m.revision
                     /\ Res(n) \in {"applied_scoped", "superseded", "cancelled"}} = alike(m)
    BY DEF Seen, Dealt
  <2>2. {n \in Ids : n[1] # h /\ Msg(n).key = m.key /\ Res(n) = "applied_scoped"} = before(m)
    BY DEF Seen, Dealt
  <2> QED BY <2>1, <2>2 DEF SameRevision, Current
<1>2. \A m : SameRevision(h, m)' = Latest(alike(m))' /\ Current(h, m)' = Latest(before(m))'
  <2> TAKE m
  <2>1. {n \in Ids : n[1] # h /\ Msg(n).revision = m.revision
                     /\ Res(n) \in {"applied_scoped", "superseded", "cancelled"}}' = alike(m)'
    BY DEF Seen, Dealt
  <2>2. {n \in Ids : n[1] # h /\ Msg(n).key = m.key /\ Res(n) = "applied_scoped"}' = before(m)'
    BY DEF Seen, Dealt
  <2> QED BY <2>1, <2>2 DEF SameRevision, Current
<1>3. \A m : alike(m)' = alike(m) /\ before(m)' = before(m)
  BY DEF Res
<1>4. \A ms \in SUBSET Seen(h) : Latest(ms)' = Latest(ms)
  <2> TAKE ms \in SUBSET Seen(h)
  <2>1. {m \in ms : \A n \in ms : row'[n[1]][n[2]].order <= row'[m[1]][m[2]].order} = latest(ms)
    OBVIOUS
  <2> QED BY <2>1 DEF Latest
<1>5. \A m : SameRevision(h, m)' = SameRevision(h, m) /\ Current(h, m)' = Current(h, m)
  <2> TAKE m
  <2>1. alike(m) \in SUBSET Seen(h) /\ before(m) \in SUBSET Seen(h)
    OBVIOUS
  <2>2. Latest(alike(m))' = Latest(alike(m)) /\ Latest(before(m))' = Latest(before(m))
    BY <1>3, <1>4, <2>1 DEF Latest
  <2> QED BY <1>1, <1>2, <2>2
<1>6. \A m : /\ SameRevision(h, m) # Null => SameRevision(h, m) \in Seen(h)
             /\ Current(h, m) # Null => Current(h, m) \in Seen(h)
  <2> TAKE m
  <2>1. RowsOK(row) /\ Len(effects) \in Nat
    BY RowsAre
  <2>2. \A ms \in SUBSET Seen(h) : Latest(ms) # Null => Latest(ms) \in Seen(h)
    <3> TAKE ms \in SUBSET Seen(h)
    <3>1. ms \subseteq Ids
      BY DEF Seen
    <3>2. CASE ms = {}
      BY <3>2 DEF Latest
    <3>3. CASE ms # {}
      BY <2>1, <3>1, <3>3, LatestIsThere
    <3> QED BY <3>2, <3>3
  <2>3. alike(m) \in SUBSET Seen(h) /\ before(m) \in SUBSET Seen(h)
    OBVIOUS
  <2> HIDE DEF alike, before
  <2> QED BY <1>1, <2>2, <2>3
<1>7. \A m : Resolution(h, m)' = Resolution(h, m) /\ (Blocks(h, m)' <=> Blocks(h, m))
  <2> TAKE m
  <2>1. SameRevision(h, m) # Null => Msg(SameRevision(h, m))' = Msg(SameRevision(h, m))
    BY <1>5, <1>6
  <2>2. Current(h, m) # Null => Older(m, Current(h, m))' = Older(m, Current(h, m))
    BY <1>5, <1>6 DEF Older
  <2> QED BY <1>5, <2>1, <2>2 DEF Resolution, Blocks
<1> QED BY <1>7

LEMMA AnswersStand ==
  ASSUME LifeTypeOK, Dated(row, effects), NEW h \in Job, Answered(h),
         Seen(h)' = Seen(h), \A n \in Seen(h) : Msg(n)' = Msg(n) /\ row'[n[1]][n[2]] = row[n[1]][n[2]],
         content'[h] = content[h], row'[h] = row[h]
  PROVE  Answered(h)'
<1>1. \A m : Resolution(h, m)' = Resolution(h, m) /\ (Blocks(h, m)' <=> Blocks(h, m))
  BY ViewStands
<1> QED BY <1>1 DEF Answered, Res

-----------------------------------------------------------------------------
LEMMA LifeStart == LifeInit => LifeInv
<1> SUFFICES ASSUME LifeInit PROVE LifeInv
  OBVIOUS
<1>1. Ids = {}
  BY DEF LifeInit, Ids
<1>2. LifeTypeOK
  <2>1. \A j \in Job : content[j] = <<>> /\ row[j] = <<>> /\ DOMAIN content[j] = {}
    BY DEF LifeInit
  <2>2. \A j \in Job : row[j] \in [DOMAIN content[j] -> [resolution : Resolutions, by : Ids \cup {Null}, order : Nat]]
    <3>1. \A S : <<>> \in [{} -> S]
      OBVIOUS
    <3> QED BY <2>1, <3>1
  <2> QED BY <2>1, <2>2, LifecycleAssumption DEF LifeInit, LifeTypeOK
<1>3. DOMAIN effects = {}
  BY DEF LifeInit
<1> QED BY <1>1, <1>2, <1>3 DEF LifeInv, OnePerKey, OncePerRevision, Traced, Dated, Waiting, Unborn, LifeInit

LEMMA TracesAreIds ==
  ASSUME LifeTypeOK
  PROVE  \A a \in DOMAIN effects : effects[a].id \in Ids /\ effects[a].over \subseteq Ids
<1> TAKE a \in DOMAIN effects
<1>1. effects[a] \in Effect
  BY RowsAre
<1> QED BY <1>1 DEF Effect

\* Submitting a job adds messages nobody has seen.
LEMMA SubmitAdds ==
  ASSUME LifeInv, NEW j \in Job, NEW messages \in Content, NEW b \in 0 .. NJobs, Submit(j, messages, b)
  PROVE  /\ Ids \subseteq Ids'
         /\ \A m \in Ids : m[1] # j /\ Msg(m)' = Msg(m) /\ row'[m[1]][m[2]] = row[m[1]][m[2]]
         /\ \A m \in Ids' : m \notin Ids => m[1] = j /\ row'[m[1]][m[2]] = Fresh
         /\ \A h \in Job : h # j => content'[h] = content[h] /\ row'[h] = row[h]
<1>1. DOMAIN content = Job /\ DOMAIN row = Job /\ content[j] = <<>>
  BY DEF LifeInv, LifeTypeOK, Unborn, Submit
<1>2. \A h \in Job : h # j => content'[h] = content[h] /\ row'[h] = row[h]
  BY <1>1 DEF Submit
<1>3. content'[j] = messages /\ row'[j] = [i \in DOMAIN messages |-> Fresh]
  BY <1>1 DEF Submit
<1>4. \A m \in Ids : m \in Ids' /\ m[1] # j /\ Msg(m)' = Msg(m) /\ row'[m[1]][m[2]] = row[m[1]][m[2]]
  <2> TAKE m \in Ids
  <2>1. PICK h \in Job : \E i \in DOMAIN content[h] : m = <<h, i>>
    BY IdsAre
  <2>2. h # j
    BY <1>1, <2>1
  <2>3. m \in Ids'
    BY <1>2, <2>1, <2>2 DEF Ids
  <2> QED BY <1>2, <2>1, <2>2, <2>3 DEF Msg
<1>5. \A m \in Ids' : m \notin Ids => m[1] = j /\ row'[m[1]][m[2]] = Fresh
  <2> TAKE m \in Ids'
  <2>1. PICK h \in Job : \E i \in DOMAIN content'[h] : m = <<h, i>>
    BY DEF Ids
  <2>2. CASE h # j
    BY <1>2, <2>1, <2>2, IdsAre
  <2>3. CASE h = j
    BY <1>3, <2>1, <2>3
  <2> QED BY <2>2, <2>3
<1> QED BY <1>2, <1>4, <1>5

LEMMA SubmitKeepsTypes ==
  ASSUME LifeInv, NEW j \in Job, NEW messages \in Content, NEW b \in 0 .. NJobs, Submit(j, messages, b)
  PROVE  LifeTypeOK'
<1>1. /\ DOMAIN content = Job /\ DOMAIN row = Job
      /\ \A h \in Job : content[h] \in Content \cup {<<>>} /\ row[h] \in [DOMAIN content[h] -> Row]
      /\ gen \in [Job -> {"none", "candidate", "publishable", "published", "superseded"}]
      /\ verdict \in [Job -> {"none", "clear", "blocked"}]
      /\ base \in [Job -> 0 .. NJobs] /\ current \in 0 .. NJobs /\ effects \in Seq(Effect)
  BY DEF LifeInv, LifeTypeOK, Row, Effect
<1>2. /\ Ids \subseteq Ids'
      /\ \A h \in Job : h # j => content'[h] = content[h] /\ row'[h] = row[h]
  BY SubmitAdds
<1>3. content'[j] = messages /\ row'[j] = [i \in DOMAIN messages |-> Fresh]
      /\ DOMAIN content' = Job /\ DOMAIN row' = Job
  BY <1>1 DEF Submit
<1>4. Row \subseteq Row' /\ Fresh \in Row'
  BY <1>2 DEF Row, Fresh, Resolutions
<1>5. \A h \in Job : content'[h] \in Content \cup {<<>>} /\ row'[h] \in [DOMAIN content'[h] -> Row']
  <2> TAKE h \in Job
  <2>1. CASE h = j
    BY <1>3, <1>4, <2>1
  <2>2. CASE h # j
    BY <1>1, <1>2, <1>4, <2>2
  <2> QED BY <2>1, <2>2
<1>6. effects' \in Seq(Effect')
  <2>1. Effect \subseteq Effect'
    BY <1>2 DEF Effect
  <2> QED BY <1>1, <2>1 DEF Submit
<1>7. /\ gen' \in [Job -> {"none", "candidate", "publishable", "published", "superseded"}]
      /\ verdict' \in [Job -> {"none", "clear", "blocked"}]
      /\ base' \in [Job -> 0 .. NJobs] /\ current' \in 0 .. NJobs
  BY <1>1 DEF Submit
<1> QED BY <1>3, <1>5, <1>6, <1>7 DEF LifeTypeOK, Row, Effect

LEMMA SubmitKeeps ==
  ASSUME LifeInv, NEW j \in Job, NEW messages \in Content, NEW b \in 0 .. NJobs, Submit(j, messages, b)
  PROVE  LifeInv'
<1>1. /\ Ids \subseteq Ids'
      /\ \A m \in Ids : m[1] # j /\ Msg(m)' = Msg(m) /\ row'[m[1]][m[2]] = row[m[1]][m[2]]
      /\ \A m \in Ids' : m \notin Ids => m[1] = j /\ row'[m[1]][m[2]] = Fresh
      /\ \A h \in Job : h # j => content'[h] = content[h]
  BY SubmitAdds
<1>2. \A a \in DOMAIN effects : effects[a].id \in Ids
  BY TracesAreIds DEF LifeInv
<1>3. effects' = effects /\ Len(effects) \in Nat
  BY RowsAre DEF Submit, LifeInv
<1>4. \A m \in Ids' : m \notin Ids => Res(m)' = "staged" /\ Order(row', m) = 0
  BY <1>1 DEF Res, Fresh, Order
<1>5. \A m \in Ids : Res(m)' = Res(m) /\ Order(row', m) = Order(row, m)
  BY <1>1 DEF Res, Order
<1>6. OnePerKey'
  BY <1>1, <1>4, <1>5 DEF OnePerKey, LifeInv
<1>7. OncePerRevision'
  BY <1>1, <1>2, <1>3 DEF OncePerRevision, LifeInv
<1>8. Traced(row, effects)'
  BY <1>1, <1>2, <1>3 DEF Traced, At, LifeInv
<1>9. Dated(row, effects)'
  <2> SUFFICES ASSUME NEW m \in Ids' PROVE Order(row', m) <= Len(effects) + 1
    BY <1>3 DEF Dated
  <2>1. CASE m \in Ids
    BY <1>5, <2>1 DEF LifeInv, Dated
  <2>2. CASE m \notin Ids
    BY <1>3, <1>4, <2>2
  <2> QED BY <2>1, <2>2
<1>10. \A h \in Job : h # j => gen'[h] = gen[h]
  BY DEF LifeInv, LifeTypeOK, Submit
<1>11. gen'[j] = "candidate"
  BY DEF LifeInv, LifeTypeOK, Submit
<1>12. Waiting'
  <2> SUFFICES ASSUME NEW m \in Ids', Res(m)' \in Dealt PROVE Settled(m[1])'
    BY DEF Waiting
  <2>1. m \in Ids /\ m[1] \in Job
    BY <1>4, IdsAre DEF Dealt
  <2> QED BY <1>1, <1>5, <1>10, <2>1 DEF Waiting, LifeInv, Settled
<1>13. Unborn'
  BY <1>1, <1>10, <1>11 DEF Unborn, LifeInv
<1> QED BY <1>6, <1>7, <1>8, <1>9, <1>12, <1>13, SubmitKeepsTypes DEF LifeInv

-----------------------------------------------------------------------------
Pending == {"staged", "blocked_unsupported", "held_predecessor_unresolved", "held_older_revision"}

\* The gates rewrite rows that were never applied.
LEMMA GatesRewrite ==
  ASSUME LifeInv, NEW j \in Job, FeedGates(j)
  PROVE  /\ Ids' = Ids /\ \A m \in Ids : Msg(m)' = Msg(m)
         /\ DOMAIN row' = Job /\ \A h \in Job : h # j => row'[h] = row[h]
         /\ row'[j] \in [DOMAIN content[j] -> Row]
         /\ \A i \in DOMAIN content[j] :
              /\ row'[j][i].resolution = Resolution(j, content[j][i])
              /\ row'[j][i].order = row[j][i].order
         /\ \A m \in Ids : Order(row', m) = Order(row, m)
         /\ \A m \in Ids : \/ m[1] # j /\ row'[m[1]][m[2]] = row[m[1]][m[2]]
                           \/ m[1] = j /\ Res(m) \notin Dealt /\ Res(m)' \in Pending
<1>1. DOMAIN row = Job /\ row[j] \in [DOMAIN content[j] -> Row]
  BY RowsAre DEF LifeInv, RowsOK
<1>2. Ids' = Ids /\ (\A m \in Ids : Msg(m)' = Msg(m)) /\ content' = content
  BY DEF FeedGates, Ids, Msg
<1>3. /\ DOMAIN row' = Job /\ \A h \in Job : h # j => row'[h] = row[h]
      /\ row'[j] = [i \in DOMAIN content[j] |-> [row[j][i] EXCEPT !.resolution = Resolution(j, content[j][i])]]
  BY <1>1 DEF FeedGates
<1>4. \A m : Resolution(j, m) \in Pending
  BY DEF Resolution, Pending
<1>5. \A i \in DOMAIN content[j] :
        /\ row'[j][i] \in Row
        /\ row'[j][i].resolution = Resolution(j, content[j][i])
        /\ row'[j][i].order = row[j][i].order
  <2> TAKE i \in DOMAIN content[j]
  <2>1. row'[j][i] = [row[j][i] EXCEPT !.resolution = Resolution(j, content[j][i])] /\ row[j][i] \in Row
    BY <1>1, <1>3
  <2> QED BY <1>4, <2>1 DEF Row, Pending, Resolutions
<1>6. row'[j] \in [DOMAIN content[j] -> Row]
  BY <1>3, <1>5
<1>7. ~Settled(j)
  BY DEF FeedGates, Settled
<1>8. \A m \in Ids : \/ m[1] # j /\ row'[m[1]][m[2]] = row[m[1]][m[2]]
                     \/ m[1] = j /\ Res(m) \notin Dealt /\ Res(m)' \in Pending
  <2> TAKE m \in Ids
  <2>1. m[1] \in Job /\ m[2] \in DOMAIN content[m[1]]
    BY IdsAre
  <2>2. CASE m[1] # j
    BY <1>3, <2>1, <2>2
  <2>3. CASE m[1] = j
    BY <1>4, <1>5, <1>7, <2>1, <2>3 DEF LifeInv, Waiting, Res
  <2> QED BY <2>2, <2>3
<1>9. \A m \in Ids : Order(row', m) = Order(row, m)
  <2> TAKE m \in Ids
  <2>1. m[1] \in Job /\ m[2] \in DOMAIN content[m[1]]
    BY IdsAre
  <2>2. CASE m[1] # j
    BY <1>3, <2>1, <2>2 DEF Order
  <2>3. CASE m[1] = j
    BY <1>5, <2>1, <2>3 DEF Order
  <2> QED BY <2>2, <2>3
<1> QED BY <1>2, <1>3, <1>5, <1>6, <1>8, <1>9

LEMMA GatesKeep ==
  ASSUME LifeInv, NEW j \in Job, FeedGates(j)
  PROVE  LifeInv'
<1>1. /\ Ids' = Ids /\ \A m \in Ids : Msg(m)' = Msg(m)
      /\ DOMAIN row' = Job /\ \A h \in Job : h # j => row'[h] = row[h]
      /\ row'[j] \in [DOMAIN content[j] -> Row]
      /\ \A m \in Ids : Order(row', m) = Order(row, m)
      /\ \A m \in Ids : \/ m[1] # j /\ row'[m[1]][m[2]] = row[m[1]][m[2]]
                        \/ m[1] = j /\ Res(m) \notin Dealt /\ Res(m)' \in Pending
  BY GatesRewrite
<1>2. UNCHANGED <<content, base, gen, current, effects>> /\ gen[j] # "none"
  BY DEF FeedGates
<1>3. \A m \in Ids : Res(m)' \in Dealt \/ Res(m) \in Dealt => m[1] # j /\ Res(m)' = Res(m)
  BY <1>1 DEF Res, Dealt, Pending
<1>4. LifeTypeOK'
  <2>1. Row' = Row /\ Effect' = Effect
    BY <1>1 DEF Row, Effect
  <2>2. \A h \in Job : row'[h] \in [DOMAIN content[h] -> Row]
    BY <1>1 DEF LifeInv, LifeTypeOK, Row
  <2>3. verdict' \in [Job -> {"none", "clear", "blocked"}]
    BY DEF FeedGates, LifeInv, LifeTypeOK
  <2> QED BY <1>1, <1>2, <2>1, <2>2, <2>3 DEF LifeInv, LifeTypeOK, Row, Effect
<1>5. OnePerKey'
  BY <1>1, <1>3 DEF OnePerKey, LifeInv, Dealt
<1>6. \A a \in DOMAIN effects : effects[a].id \in Ids
  BY TracesAreIds DEF LifeInv
<1>7. OncePerRevision'
  BY <1>1, <1>2, <1>6 DEF OncePerRevision, LifeInv
<1>8. Traced(row, effects)'
  <2>1. \A a \in DOMAIN effects : Res(effects[a].id) \in Dealt
    BY DEF Traced, At, Res, LifeInv
  <2>2. \A m \in Ids : Res(m) \in Dealt => Res(m)' \in Dealt
    BY <1>1 DEF Res
  <2> QED BY <1>2, <1>6, <2>1, <2>2 DEF Traced, At, Res
<1>9. Dated(row, effects)'
  BY <1>1, <1>2 DEF Dated, LifeInv
<1>10. Waiting' /\ Unborn'
  BY <1>1, <1>2, <1>3 DEF Waiting, Unborn, LifeInv, Settled
<1> QED BY <1>4, <1>5, <1>7, <1>8, <1>9, <1>10 DEF LifeInv

LEMMA CompareKeeps ==
  ASSUME LifeInv, NEW j \in Job, Compare(j)
  PROVE  LifeInv'
<1>1. UNCHANGED <<content, base, row, current, effects>> /\ Ids' = Ids
  BY DEF Compare, Ids
<1>2. /\ gen' \in [Job -> {"none", "candidate", "publishable", "published", "superseded"}]
      /\ verdict' \in [Job -> {"none", "clear", "blocked"}]
      /\ \A h \in Job : gen'[h] = gen[h] \/ h = j
      /\ gen[j] \in {"candidate", "publishable"} /\ gen'[j] \in {"candidate", "publishable"}
  BY DEF Compare, LifeInv, LifeTypeOK
<1>3. Waiting' /\ Unborn'
  <2>1. \A h \in Job : Settled(h) => Settled(h)'
    BY <1>2 DEF Settled
  <2>2. \A m \in Ids : m[1] \in Job
    BY IdsAre
  <2> QED BY <1>1, <1>2, <2>1, <2>2 DEF Waiting, Unborn, LifeInv, Res
<1>4. LifeTypeOK'
  BY <1>1, <1>2 DEF LifeInv, LifeTypeOK
<1> QED BY <1>1, <1>3, <1>4 DEF LifeInv, OnePerKey, OncePerRevision, Traced, Dated, Msg, Res, At, Order

LEMMA PublishKeeps ==
  ASSUME LifeInv, NEW j \in Job, Publish(j)
  PROVE  LifeInv' /\ \A h \in Job : (Settled(h) => Settled(h)') /\ (Settled(h)' <=> Settled(h) \/ h = j)
<1>1. UNCHANGED <<content, base, verdict>> /\ Ids' = Ids /\ \A m : Msg(m)' = Msg(m)
  BY DEF Publish, Ids, Msg
<1>2. Stage(After(j), j)
  BY Publication
<1>3. row' = After(j).row /\ effects' = After(j).effects /\ current' = j
  BY DEF Publish
<1>4. RowsOK(row') /\ effects' \in Seq(Effect)
  BY <1>2, <1>3 DEF Stage
<1>5. /\ gen' \in [Job -> {"none", "candidate", "publishable", "published", "superseded"}]
      /\ gen'[j] = "published"
      /\ \A h \in Job : h # j => gen'[h] = gen[h] \/ (gen[h] = "published" /\ gen'[h] = "superseded")
  BY DEF Publish, LifeInv, LifeTypeOK
<1>6. \A h \in Job : (Settled(h) => Settled(h)') /\ (Settled(h)' <=> Settled(h) \/ h = j)
  BY <1>5 DEF Settled
<1>7. LifeTypeOK'
  <2>1. Row' = Row /\ Effect' = Effect
    BY <1>1 DEF Row, Effect
  <2>2. \A h \in Job : row'[h] \in [DOMAIN content[h] -> Row]
    BY <1>4 DEF RowsOK
  <2>3. current' \in 0 .. NJobs
    BY <1>3, LifecycleAssumption DEF Job
  <2> QED BY <1>1, <1>4, <1>5, <2>1, <2>2, <2>3 DEF LifeInv, LifeTypeOK, RowsOK, Row, Effect
<1>8. OnePerKey' /\ OncePerRevision'
  BY <1>1, <1>2, <1>3 DEF Stage, OneEach, Once, OnePerKey, OncePerRevision, At, Res
<1>9. Traced(row, effects)' /\ Dated(row, effects)'
  BY <1>1, <1>2, <1>3 DEF Stage, Traced, Dated, At, Order
<1>10. Waiting'
  <2> SUFFICES ASSUME NEW m \in Ids, Res(m)' \in Dealt PROVE Settled(m[1])'
    BY <1>1 DEF Waiting
  <2>1. m[1] \in Job
    BY IdsAre
  <2>2. CASE m[1] = j
    BY <1>6, <2>2
  <2>3. CASE m[1] # j
    <3>1. Res(m) \in Dealt
      BY <1>2, <1>3, <2>3 DEF Stage, At, Res
    <3> QED BY <1>6, <2>1, <3>1 DEF LifeInv, Waiting
  <2> QED BY <2>2, <2>3
<1>11. Unborn'
  BY <1>1, <1>5 DEF LifeInv, Unborn
<1> QED BY <1>6, <1>7, <1>8, <1>9, <1>10, <1>11 DEF LifeInv

LEMMA LifeStep == LifeInv /\ [LifeNext]_lifeVars => LifeInv'
<1> SUFFICES ASSUME LifeInv, [LifeNext]_lifeVars PROVE LifeInv'
  OBVIOUS
<1>1. CASE UNCHANGED lifeVars
  <2>1. UNCHANGED <<content, base, gen, verdict, row, current, effects>> /\ Ids' = Ids
    BY <1>1 DEF lifeVars, Ids
  <2>2. LifeTypeOK'
    BY <2>1 DEF LifeInv, LifeTypeOK
  <2>3. OnePerKey' /\ OncePerRevision'
    BY <2>1 DEF LifeInv, OnePerKey, OncePerRevision, Msg, Res
  <2>4. Traced(row, effects)' /\ Dated(row, effects)'
    BY <2>1 DEF LifeInv, Traced, Dated, At, Order
  <2>5. Waiting' /\ Unborn'
    BY <2>1 DEF LifeInv, Waiting, Unborn, Res, Settled
  <2> QED BY <2>2, <2>3, <2>4, <2>5 DEF LifeInv
<1>2. CASE LifeNext
  BY <1>2, SubmitKeeps, GatesKeep, CompareKeeps, PublishKeeps DEF LifeNext
<1> QED BY <1>1, <1>2

\* DEFAULTS.md: "effect applied once".  Whatever jobs and messages carry a business key, one
\* message of it is in force at most, and a revision takes effect in one job only.
THEOREM OneMessageInForce == LifeSpec => []OneInForce
<1>1. LifeSpec => []LifeInv
  BY LifeStart, LifeStep, PTL DEF LifeSpec
<1>2. LifeInv => OneInForce
  BY DEF LifeInv, OneInForce
<1> QED BY <1>1, <1>2, PTL

-----------------------------------------------------------------------------
\* Without intents that pin a generation nobody published, a baseline that is current has been
\* since the job was submitted, and so has everything the gates read.
Pinned == \A h \in Job : gen[h] # "none" /\ base[h] # 0 => base[h] \in Job /\ Settled(base[h])
Pointed == current # 0 => current \in Job /\ Settled(current)
Offered(h) == /\ gen[h] \in {"candidate", "publishable"} /\ base[h] = current
              /\ verdict[h] = "clear" \/ gen[h] = "publishable"
Gated == \A h \in Job : Offered(h) => Answered(h)

Unasked == \A h \in Job : gen[h] = "none" => verdict[h] = "none"

GateInv == Pinned /\ Pointed /\ Unasked /\ Gated /\ Newest(effects)

LEMMA GateStep ==
  ASSUME ~PinsAny, LifeInv, LifeInv', GateInv, [LifeNext]_lifeVars
  PROVE  GateInv'
<1>1. CASE UNCHANGED lifeVars
  <2>1. UNCHANGED <<content, base, gen, verdict, row, current, effects>> /\ Ids' = Ids /\ \A m : Msg(m)' = Msg(m)
    BY <1>1 DEF lifeVars, Ids, Msg
  <2>2. \A h \in Job : Answered(h) => Answered(h)'
    <3> TAKE h \in Job
    <3> HAVE Answered(h)
    <3>1. Seen(h)' = Seen(h) /\ content'[h] = content[h] /\ row'[h] = row[h]
      BY <2>1 DEF Seen, Res
    <3>2. \A n \in Seen(h) : Msg(n)' = Msg(n) /\ row'[n[1]][n[2]] = row[n[1]][n[2]]
      BY <2>1
    <3> QED BY <3>1, <3>2, AnswersStand DEF LifeInv
  <2>3. Gated'
    BY <2>1, <2>2 DEF GateInv, Gated, Offered
  <2>4. Newest(effects)'
    BY <2>1 DEF Newest, GateInv, Older
  <2> QED BY <2>1, <2>3, <2>4 DEF GateInv, Pinned, Pointed, Unasked, Settled
<1>2. \A a \in DOMAIN effects : effects[a].id \in Ids /\ effects[a].over \subseteq Ids
  BY TracesAreIds DEF LifeInv
<1>3. ASSUME NEW j \in Job, NEW messages \in Content, NEW b \in 0 .. NJobs, Submit(j, messages, b)
      PROVE  GateInv'
  <2>1. /\ \A h \in Job : h # j => gen'[h] = gen[h] /\ base'[h] = base[h] /\ verdict'[h] = verdict[h]
        /\ gen[j] = "none" /\ gen'[j] = "candidate" /\ UNCHANGED <<verdict, current, effects>>
        /\ base'[j] # 0 => base'[j] \in Job /\ Settled(base'[j])
    BY <1>3 DEF Submit, LifeInv, LifeTypeOK, Settled
  <2>2. /\ Ids \subseteq Ids'
        /\ \A m \in Ids : m[1] # j /\ Msg(m)' = Msg(m) /\ row'[m[1]][m[2]] = row[m[1]][m[2]]
        /\ \A m \in Ids' : m \notin Ids => m[1] = j /\ row'[m[1]][m[2]] = Fresh
        /\ \A h \in Job : h # j => content'[h] = content[h] /\ row'[h] = row[h]
    BY <1>3, SubmitAdds
  <2>3. \A h \in Job : Settled(h)' <=> Settled(h)
    BY <2>1 DEF Settled
  <2>4. Pinned' /\ Pointed' /\ Unasked'
    BY <2>1, <2>3 DEF GateInv, Pinned, Pointed, Unasked
  <2>5. ASSUME NEW h \in Job, h # j, Answered(h) PROVE Answered(h)'
    <3>1. Seen(h)' = Seen(h)
      BY <2>2 DEF Seen, Res, Fresh, Dealt
    <3>2. \A n \in Seen(h) : Msg(n)' = Msg(n) /\ row'[n[1]][n[2]] = row[n[1]][n[2]]
      BY <2>2 DEF Seen
    <3> QED BY <2>2, <2>5, <3>1, <3>2, AnswersStand DEF LifeInv
  <2>6. Gated'
    <3> SUFFICES ASSUME NEW h \in Job, Offered(h)' PROVE Answered(h)'
      BY DEF Gated
    <3>1. h # j
      BY <2>1 DEF Offered, GateInv, Unasked
    <3>2. Offered(h)
      BY <2>1, <3>1 DEF Offered
    <3> QED BY <2>5, <3>1, <3>2 DEF GateInv, Gated
  <2>7. Newest(effects)'
    BY <1>2, <2>1, <2>2 DEF Newest, GateInv, Older
  <2> QED BY <2>4, <2>6, <2>7 DEF GateInv
<1>4. ASSUME NEW j \in Job, FeedGates(j)
      PROVE  GateInv'
  <2>1. /\ Ids' = Ids /\ \A m \in Ids : Msg(m)' = Msg(m)
        /\ \A h \in Job : h # j => row'[h] = row[h]
        /\ \A i \in DOMAIN content[j] : row'[j][i].resolution = Resolution(j, content[j][i])
        /\ \A m \in Ids : \/ m[1] # j /\ row'[m[1]][m[2]] = row[m[1]][m[2]]
                          \/ m[1] = j /\ Res(m) \notin Dealt /\ Res(m)' \in Pending
    BY <1>4, GatesRewrite
  <2>2. /\ UNCHANGED <<content, base, gen, current, effects>> /\ gen[j] \in {"candidate", "publishable"}
        /\ \A h \in Job : h # j => verdict'[h] = verdict[h]
        /\ verdict'[j] = "clear" => \A i \in DOMAIN content[j] : ~Blocks(j, content[j][i])
    BY <1>4 DEF FeedGates, LifeInv, LifeTypeOK
  <2>3. \A h \in Job : Seen(h)' = Seen(h) /\ \A n \in Seen(h) : Msg(n)' = Msg(n) /\ row'[n[1]][n[2]] = row[n[1]][n[2]]
    BY <2>1 DEF Seen, Res, Dealt, Pending
  <2>4. Pinned' /\ Pointed' /\ Unasked'
    BY <2>2 DEF GateInv, Pinned, Pointed, Unasked, Settled
  <2>5. ASSUME NEW h \in Job, h # j, Answered(h) PROVE Answered(h)'
    BY <2>1, <2>2, <2>3, <2>5, AnswersStand DEF LifeInv
  <2>6. ASSUME Offered(j)' PROVE Answered(j)'
    <3>1. \A i \in DOMAIN content[j] : ~Blocks(j, content[j][i])
      <4>1. CASE verdict'[j] = "clear"
        BY <2>2, <4>1
      <4>2. CASE verdict'[j] # "clear"
        <5>1. Offered(j)
          BY <2>2, <2>6, <4>2 DEF Offered
        <5> QED BY <5>1 DEF GateInv, Gated, Answered
      <4> QED BY <4>1, <4>2
    <3>2. \A m : Resolution(j, m)' = Resolution(j, m) /\ (Blocks(j, m)' <=> Blocks(j, m))
      BY <2>3, ViewStands DEF LifeInv
    <3> QED BY <2>1, <2>2, <3>1, <3>2 DEF Answered, Res
  <2>7. Gated'
    <3> SUFFICES ASSUME NEW h \in Job, Offered(h)' PROVE Answered(h)'
      BY DEF Gated
    <3>1. CASE h = j
      BY <2>6, <3>1
    <3>2. CASE h # j
      <4>1. Offered(h)
        BY <2>2, <3>2 DEF Offered
      <4> QED BY <2>5, <3>2, <4>1 DEF GateInv, Gated
    <3> QED BY <3>1, <3>2
  <2>8. Newest(effects)'
    BY <1>2, <2>1, <2>2 DEF Newest, GateInv, Older
  <2> QED BY <2>4, <2>7, <2>8 DEF GateInv
<1>5. ASSUME NEW j \in Job, Compare(j)
      PROVE  GateInv'
  <2>1. UNCHANGED <<content, base, row, current, effects>> /\ Ids' = Ids /\ \A m : Msg(m)' = Msg(m)
    BY <1>5 DEF Compare, Ids, Msg
  <2>2. /\ \A h \in Job : h # j => gen'[h] = gen[h] /\ verdict'[h] = verdict[h]
        /\ gen[j] \in {"candidate", "publishable"} /\ gen'[j] \in {"candidate", "publishable"}
        /\ verdict'[j] = "none" /\ (gen'[j] = "publishable" => verdict[j] = "clear" /\ base[j] = current)
    BY <1>5 DEF Compare, LifeInv, LifeTypeOK
  <2>3. \A h \in Job : Settled(h)' <=> Settled(h)
    BY <2>2 DEF Settled
  <2>4. Pinned' /\ Pointed' /\ Unasked'
    BY <2>1, <2>2, <2>3 DEF GateInv, Pinned, Pointed, Unasked
  <2>5. \A h \in Job : Offered(h)' => Offered(h)
    BY <2>1, <2>2 DEF Offered
  <2>6. \A h \in Job : Answered(h) => Answered(h)'
    <3> TAKE h \in Job
    <3> HAVE Answered(h)
    <3>1. Seen(h)' = Seen(h) /\ content'[h] = content[h] /\ row'[h] = row[h]
      BY <2>1 DEF Seen, Res
    <3>2. \A n \in Seen(h) : Msg(n)' = Msg(n) /\ row'[n[1]][n[2]] = row[n[1]][n[2]]
      BY <2>1
    <3> QED BY <3>1, <3>2, AnswersStand DEF LifeInv
  <2>7. Gated'
    BY <2>5, <2>6 DEF GateInv, Gated
  <2>8. Newest(effects)'
    BY <2>1 DEF Newest, GateInv, Older
  <2> QED BY <2>4, <2>7, <2>8 DEF GateInv
<1>6. ASSUME NEW j \in Job, Publish(j)
      PROVE  GateInv'
  <2>1. /\ UNCHANGED <<content, base, verdict>> /\ Ids' = Ids /\ \A m : Msg(m)' = Msg(m)
        /\ effects' = After(j).effects /\ current' = j /\ gen[j] = "publishable" /\ base[j] = current
    BY <1>6 DEF Publish, Ids, Msg
  <2>2. /\ gen'[j] = "published" /\ \A h \in Job : gen'[h] = "none" => gen[h] = "none"
        /\ \A h \in Job : gen'[h] \in {"candidate", "publishable"} => h # j /\ gen'[h] = gen[h]
    BY <1>6 DEF Publish, LifeInv, LifeTypeOK
  <2>3. \A h \in Job : Settled(h) => Settled(h)'
    BY <1>6, PublishKeeps
  <2>4. Pinned' /\ Pointed' /\ Unasked'
    <3>1. \A h \in Job : gen'[h] # "none" => gen[h] # "none"
      BY <1>6 DEF Publish, LifeInv, LifeTypeOK
    <3>2. Pinned'
      BY <2>1, <2>3, <3>1 DEF GateInv, Pinned
    <3>3. Pointed'
      BY <2>1, <2>2 DEF Pointed, Settled
    <3> QED BY <2>1, <2>2, <3>2, <3>3 DEF GateInv, Unasked
  <2>5. Gated'
    <3> SUFFICES ASSUME NEW h \in Job, Offered(h)' PROVE FALSE
      BY DEF Gated
    <3>1. base[h] = j /\ gen[h] # "none" /\ j # 0
      BY <2>1, <2>2, LifecycleAssumption DEF Offered, Job
    <3> QED BY <2>1, <3>1 DEF GateInv, Pinned, Settled
  <2>6. Newest(effects)'
    <3>1. Answered(j)
      BY <2>1 DEF GateInv, Gated, Offered
    <3>2. Newest(After(j).effects)
      BY <3>1, Publication DEF GateInv
    <3> QED BY <2>1, <3>2 DEF Newest, Older
  <2> QED BY <2>4, <2>5, <2>6 DEF GateInv
<1> QED BY <1>1, <1>3, <1>4, <1>5, <1>6 DEF LifeNext

\* DEFAULTS.md: "nothing applied automatically", "retained without replacing the current
\* version".  As long as no intent pins a generation that nobody published, what the gates said of a
\* message still holds when its generation is offered and when it is applied.
THEOREM GatesStillHold ==
  ASSUME ~PinsAny
  PROVE  LifeSpec => []ConflictIsNeverOffered
<1>1. LifeInit => LifeInv /\ GateInv
  BY LifeStart, LifecycleAssumption
  DEF LifeInit, GateInv, Pinned, Pointed, Unasked, Gated, Offered, Newest
<1>2. LifeInv /\ GateInv /\ [LifeNext]_lifeVars => LifeInv' /\ GateInv'
  BY LifeStep, GateStep
<1>3. LifeInv /\ GateInv => ConflictIsNeverOffered
  BY DEF GateInv, Gated, Offered, Answered, Newest, ConflictIsNeverOffered, NothingConflicts, NewestStays
<1> QED BY <1>1, <1>2, <1>3, PTL DEF LifeSpec

=============================================================================
