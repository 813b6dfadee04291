---------------------------- MODULE OutagePromise ----------------------------
(***************************************************************************)
(* What the rest of PVE-UPS may rely on about the verdict on a UPS, with   *)
(* no clock, no thresholds, no state file and no poll loop: the fail-safe  *)
(* rules of the README's safety model.                                     *)
(*                                                                         *)
(* belief is what this process last heard a device say, demand is whether  *)
(* the device's hosts are to be shut down.                                 *)
(***************************************************************************)
CONSTANTS
  Ups,    \* the UPS ids
  OptIn   \* those whose prolonged silence may count as an outage

VARIABLES belief, demand

Init ==
  /\ belief = [u \in Ups |-> "nothing"]
  /\ demand = [u \in Ups |-> FALSE]

\* The device says that mains are on: nothing is demanded any more.
HearMains(u) ==
  /\ belief' = [belief EXCEPT ![u] = "mains"]
  /\ demand' = [demand EXCEPT ![u] = FALSE]

\* The device says that it runs on battery: its thresholds decide, afresh.
HearBattery(u) ==
  /\ belief' = [belief EXCEPT ![u] = "battery"]
  /\ \E d \in BOOLEAN : demand' = [demand EXCEPT ![u] = d]

\* Without a usable answer a demand may arise, from an outage that was heard
\* of or by the opt-in, and is never withdrawn.
DemandBlind(u) ==
  /\ belief[u] = "battery" \/ u \in OptIn
  /\ demand' = [demand EXCEPT ![u] = TRUE]
  /\ UNCHANGED belief

\* The process or the entry is gone, and with it everything it had heard.
Forget(gone) ==
  /\ belief' = [u \in Ups |-> IF u \in gone THEN "nothing" ELSE belief[u]]
  /\ demand' = [u \in Ups |-> u \notin gone /\ demand[u]]

\* The operator withdraws every demand.
Withdraw ==
  /\ demand' = [u \in Ups |-> FALSE]
  /\ UNCHANGED belief

Next ==
  \/ \E u \in Ups : HearMains(u) \/ HearBattery(u) \/ DemandBlind(u)
  \/ \E gone \in SUBSET Ups : Forget(gone)
  \/ Withdraw

Spec == Init /\ [][Next]_<<belief, demand>>

=============================================================================
