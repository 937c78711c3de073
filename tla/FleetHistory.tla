---------------------------- MODULE FleetHistory ----------------------------
(***************************************************************************)
(* What publication promises: the fleet has one line of versions.  A       *)
(* version is made by one generation, newer than the one before it; it may *)
(* drop rows and write rows that carry its name, and touches no others.    *)
(***************************************************************************)
EXTENDS Naturals, Sequences

CONSTANTS NGens, Key, NoRow

VARIABLES
  history,   \* the generations published so far, oldest first
  fleet      \* the rows of the current version

Init ==
  /\ history = <<>>
  /\ fleet = [k \in Key |-> NoRow]

Publish(g) ==
  /\ \A n \in DOMAIN history : history[n] < g
  /\ history' = Append(history, g)
  /\ fleet' = [k \in Key |-> fleet'[k]]
  /\ \A k \in Key : fleet'[k] = fleet[k] \/ fleet'[k] = NoRow \/ fleet'[k].gen = g

Next == \E g \in 1 .. NGens : Publish(g)

Spec == Init /\ [][Next]_<<history, fleet>>
=============================================================================
