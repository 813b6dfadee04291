---------------------------- MODULE MCUpsMonitor ----------------------------
(***************************************************************************)
(* Instances of UpsMonitor for TLC: the profiles an operator may choose    *)
(* from and the answers a device may give.                                 *)
(***************************************************************************)
EXTENDS UpsMonitor, UpsReading

Profile(seconds, commLoss, keep, low) ==
  [on_battery_seconds |-> seconds, comm_loss_shutdown_after_min |-> commLoss,
   keep_shutdown_on_comm_loss |-> keep, on_battery_low |-> low,
   runtime_below_minutes |-> None, charge_below_percent |-> None,
   unreachable_alarm_after_polls |-> 2, incomplete |-> FALSE]

Default == Profile(2, None, TRUE, TRUE)
OptIn == Profile(3, 2, FALSE, TRUE)
NoAddress == [OptIn EXCEPT !.incomplete = TRUE]
ByCharge == [Profile(None, None, TRUE, FALSE) EXCEPT !.charge_below_percent = 1]

AllProfiles == {Default, OptIn, NoAddress, ByCharge}
OptInOnly == {OptIn}

\* A network card that speaks both MIBs, and what it would answer.
Card(first, source, battery, charge) ==
  [type |-> "snmp", overruns |-> FALSE, configured |-> TRUE, mib |-> "auto",
   v1 |-> FALSE, first |-> first, second |-> "ok",
   rfc |-> [source |-> Missing, battery |-> 2, runtime |-> Missing,
            charge |-> charge, other |-> TRUE],
   apc |-> [source |-> source, battery |-> battery, runtime |-> Missing,
            charge |-> charge, other |-> TRUE]]

Server(session, flags, charge) ==
  [type |-> "nut", overruns |-> FALSE, configured |-> TRUE, session |-> session,
   status |-> TRUE, flags |-> flags, runtime |-> Missing, charge |-> charge,
   load |-> Missing]

Unusable == [AnsweredOnly EXCEPT !.battery_low = TRUE, !.battery_charge_pct = 1]
Mains == [AnsweredOnly EXCEPT !.reachable = TRUE, !.battery_charge_pct = 2]
Battery == [Mains EXCEPT !.on_battery = TRUE]
BatteryLow == [Battery EXCEPT !.battery_low = TRUE, !.battery_charge_pct = 1]

AllReadings == {Silence, Unusable, Mains, Battery, BatteryLow}

\* Out of reach; on mains; on battery; on battery and low; a card whose output
\* status is unknown(1) while its battery reads low.
AllDevices ==
  {Card("lost", 2, 2, 2), Card("ok", 2, 2, 2), Card("ok", 3, 2, 2),
   Server("ok", {"OB", "LB"}, 1), Card("ok", 1, 3, 1)}

\* The readings of the runs are what such devices are read as.
ASSUME ReadingsAreRead == AllReadings = {SourcePoll(device) : device \in AllDevices}

-----------------------------------------------------------------------------
(***************************************************************************)
(* The reading of every card and every status, on small values.            *)
(***************************************************************************)
Raws == {Missing, Garbled, -1, 1}
Mibs(sources) ==
  [source: sources, battery: {Missing, 1, 2, 3}, runtime: Raws, charge: Raws,
   other: BOOLEAN]
Statuses == SUBSET {"OB", "BYPASS", "OFF", "OL", "LB", "CHRG"}

\* Whatever else a status carries, OB is an outage; without OB there is none, so
\* neither a bypass nor a low battery on mains starts a countdown.
ASSUME OutageIsNamed ==
  \A flags \in Statuses :
    NutPoll(Server("ok", flags, 1)).on_battery <=> "OB" \in flags

\* A number that is not finite silences the device wherever it stands, the output
\* load included; a negative one is a number, below every limit.
ASSUME OddNumbers ==
  LET upsd == Server("ok", {"OL"}, 1)
  IN /\ \A f \in {"charge", "runtime", "load"} :
          NutPoll([upsd EXCEPT ![f] = NotFinite]) = Silence
     /\ FallenTo(0, NutPoll([upsd EXCEPT !.runtime = -1]).runtime_remaining_min)

\* A MIB whose source object is missing, garbled, out of range or "unknown" is
\* never read as mains: it is an answer nobody may conclude anything from.
ASSUME UnknownIsNotMains ==
  /\ \A mib \in Mibs({Missing, Garbled, -1, 0, 1, 8}) : ~MapState(Rfc1628, mib).reachable
  /\ \A mib \in Mibs({Missing, Garbled, -1, 0, 1, 22}) : ~MapState(Apc, mib).reachable

=============================================================================
