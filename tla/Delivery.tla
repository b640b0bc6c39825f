------------------------------- MODULE Delivery -------------------------------
(***************************************************************************)
(* What the harvest coordinator promises the synthesizer: it is handed     *)
(* only what accounts show to those who linked them, one signal at a time, *)
(* and no signal more often than there are runs that could be at it.       *)
(***************************************************************************)
EXTENDS Naturals

CONSTANTS
  Signals,  \* who gets what
  Times     \* how often one may be delivered

VARIABLES
  shown,      \* the signals that accounts have shown
  deliveries  \* per signal, how often it was delivered

Init ==
  /\ shown = {}
  /\ deliveries = [s \in Signals |-> 0]

\* An account is linked, or shows more; what was shown is not taken back.
Show ==
  /\ shown \subseteq shown'
  /\ UNCHANGED deliveries

Deliver(s) ==
  /\ deliveries[s] < Times
  /\ deliveries' = [deliveries EXCEPT ![s] = @ + 1]
  /\ UNCHANGED shown

Next == Show \/ \E s \in shown : Deliver(s)

Spec == Init /\ [][Next]_<<shown, deliveries>>
===============================================================================
