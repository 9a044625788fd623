----------------------------- MODULE AlertLedger -----------------------------
(***************************************************************************)
(* What the alert engine promises its readers, without saying how.         *)
(*                                                                         *)
(* The alert history is append-only: an alert, once recorded, is never     *)
(* removed and never changes the entity and rule it is about; its status   *)
(* only moves from ACTIVE to RESOLVED, and its acknowledgement is never    *)
(* taken back.  An alert reaches the command bus only after it has been    *)
(* recorded, so whoever receives it can read it back, acknowledge it and   *)
(* resolve it.                                                             *)
(***************************************************************************)
EXTENDS Naturals, Sequences

CONSTANT Keys   \* the <<entity, rule id>> pairs an alert can be about

VARIABLES
  ledger,       \* the alert history, in the order the alerts were recorded
  announced     \* the alerts, by place in the ledger, that the bus has carried

vars == <<ledger, announced>>

Alert == [key : Keys, status : {"ACTIVE", "RESOLVED"}, acknowledged : BOOLEAN]

NewAlert(k) == [key |-> k, status |-> "ACTIVE", acknowledged |-> FALSE]

Init == ledger = <<>> /\ announced = {}

Record == /\ \E k \in Keys : ledger' = Append(ledger, NewAlert(k))
          /\ UNCHANGED announced

Announce == /\ \E i \in DOMAIN ledger : announced' = announced \union {i}
            /\ UNCHANGED ledger

Acknowledge == /\ \E i \in DOMAIN ledger :
                    ledger' = [ledger EXCEPT ![i].acknowledged = TRUE]
               /\ UNCHANGED announced

Resolve == /\ \E i \in DOMAIN ledger :
                ledger' = [ledger EXCEPT ![i].acknowledged = TRUE,
                                         ![i].status = "RESOLVED"]
           /\ UNCHANGED announced

Next == Record \/ Announce \/ Acknowledge \/ Resolve

Spec == Init /\ [][Next]_vars

\* Everything on the bus is in the history, and nothing is resolved without
\* being acknowledged.
Consistent ==
  /\ announced \subseteq DOMAIN ledger
  /\ \A i \in DOMAIN ledger :
       ledger[i].status = "RESOLVED" => ledger[i].acknowledged
==============================================================================
