------------------------------ MODULE Exposure ------------------------------
(***************************************************************************)
(* What the order manager promises of one security, with no ledger, no     *)
(* reads and no process: lots are bought, sale lots are put at the         *)
(* exchange's disposal only while every lot ever sold or at its disposal   *)
(* is covered by a bought one, and lots at its disposal are sold or come   *)
(* back.                                                                   *)
(***************************************************************************)
EXTENDS Integers, FiniteSets

CONSTANTS Intents, Lots, Owner, Side

VARIABLES
  bought,    \* lots bought
  sold,      \* lots sold
  reserved   \* sale lots the exchange may still execute

SaleLots(i) == {l \in Lots : Owner[l] = i /\ Side[i] = "SELL"}
PurchaseLots == {l \in Lots : Side[Owner[l]] = "BUY"}

Init == bought = {} /\ sold = {} /\ reserved = {}

Buy(l) ==
  /\ bought' = bought \cup {l}
  /\ UNCHANGED <<sold, reserved>>

\* Decided against the true position, whatever the program could see of it.
Reserve(i) ==
  /\ Cardinality(sold \cup reserved \cup SaleLots(i)) <= Cardinality(bought)
  /\ reserved' = reserved \cup SaleLots(i)
  /\ UNCHANGED <<bought, sold>>

Sell(l) ==
  /\ sold' = sold \cup {l}
  /\ reserved' = reserved \ {l}
  /\ UNCHANGED bought

Release ==
  /\ reserved' \subseteq reserved
  /\ UNCHANGED <<bought, sold>>

Next ==
  \/ \E l \in PurchaseLots : Buy(l)
  \/ \E i \in Intents : Reserve(i)
  \/ \E l \in reserved : Sell(l)
  \/ Release

Spec == Init /\ [][Next]_<<bought, sold, reserved>>
=============================================================================
