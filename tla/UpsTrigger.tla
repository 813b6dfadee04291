----------------------------- MODULE UpsTrigger -----------------------------
(***************************************************************************)
(* What app/engine.py decides about ONE UPS, as functions of its runtime   *)
(* record (_UpsRuntime), its configuration and the last poll's UpsState.   *)
(*                                                                         *)
(* A timestamp of the code ("on battery since T") is represented by its    *)
(* AGE in ticks: the code only ever subtracts it from now.  Ages stop      *)
(* growing at MaxAge, which no threshold exceeds, so a capped age answers  *)
(* every comparison the code makes.  Texts (reasons, events, labels) are   *)
(* left out; of a reason only its kind is kept.                            *)
(***************************************************************************)
EXTENDS Integers

CONSTANTS
  MaxAge,    \* the age at which a timer stops growing
  MaxPolls,  \* the count at which unreachable_count stops growing
  Levels     \* the values a battery charge or a remaining runtime can take

None == -999999  \* the code's None: a number no device reports

ASSUME BoundsAssumption ==
  /\ MaxAge \in Nat \ {0}
  /\ MaxPolls \in Nat \ {0}
  /\ Levels \subseteq Int \ {None}

Timer == 0 .. MaxAge \cup {None}  \* a timestamp, as its age
Reading == Levels \cup {None}     \* a measured value, or one the device omits

\* One time step seen by a timestamp.
Older(t) == IF t \in {None, MaxAge} THEN t ELSE t + 1

\* A threshold is set, the timer runs, and it has reached the threshold.
Reached(limit, age) == limit # None /\ age # None /\ age >= limit

\* A measured value is known, its threshold is set, and it has fallen to it.
FallenTo(limit, value) == limit # None /\ value # None /\ value =< limit

(***************************************************************************)
(* The answer of one poll (app/ups.py UpsState, as far as a trigger reads  *)
(* it), the effective thresholds of one UPS together with the verdict of   *)
(* AppConfig.incomplete_ups, and the runtime record.                       *)
(***************************************************************************)
UpsState ==
  [reachable: BOOLEAN, answered: BOOLEAN, on_battery: BOOLEAN,
   battery_low: BOOLEAN, runtime_remaining_min: Reading,
   battery_charge_pct: Reading]

Thresholds ==
  [on_battery_seconds: Timer, comm_loss_shutdown_after_min: Timer,
   keep_shutdown_on_comm_loss: BOOLEAN, on_battery_low: BOOLEAN,
   runtime_below_minutes: Reading, charge_below_percent: Reading,
   unreachable_alarm_after_polls: 1 .. MaxPolls, incomplete: BOOLEAN]

\* Why a UPS demands a shutdown: not at all, the comms-loss opt-in, the
\* countdown that kept running blind, or thresholds read from a fresh answer.
Reason == {"none", "comm", "blind", "fresh"}

\* loss_notified is set and cleared together with alarm_active, triggered is
\* trigger_reason # "none", and last_reachable only words the event log.
UpsRuntime ==
  [state: UpsState, on_battery_since: Timer, restored_unconfirmed: BOOLEAN,
   unreachable_count: 0 .. MaxPolls, unreachable_since: Timer,
   alarm_active: BOOLEAN, comm_loss_fired: BOOLEAN, trigger_reason: Reason]

\* UpsState(): what a failed read leaves, and what an unpolled UPS holds.
Silence ==
  [reachable |-> FALSE, answered |-> FALSE, on_battery |-> FALSE,
   battery_low |-> FALSE, runtime_remaining_min |-> None,
   battery_charge_pct |-> None]

FreshRuntime ==
  [state |-> Silence, on_battery_since |-> None, restored_unconfirmed |-> FALSE,
   unreachable_count |-> 0, unreachable_since |-> None,
   alarm_active |-> FALSE, comm_loss_fired |-> FALSE, trigger_reason |-> "none"]

Triggered(r) == r.trigger_reason # "none"

-----------------------------------------------------------------------------
(***************************************************************************)
(* Engine._ups_trigger_reason                                              *)
(***************************************************************************)

\* st is the last answer, held is restored_unconfirmed, gone and since are the
\* ages of unreachable_since and on_battery_since.

\* MUTANT of PureCommLoss: a device that answers unusably is taken for silent.
UnreadableIsSilent(c, st, gone) ==
  ~st.reachable /\ ~c.incomplete /\ Reached(c.comm_loss_shutdown_after_min, gone)

\* The opt-in: unreachable for the configured time, and silent at this poll.
PureCommLoss(c, st, gone) ==
  /\ ~st.reachable /\ ~st.answered /\ ~c.incomplete
  /\ Reached(c.comm_loss_shutdown_after_min, gone)

\* MUTANT of BlindCountdown: the countdown runs only as long as something answers.
CountdownNeedsAnswer(c, st, since) ==
  /\ ~st.reachable /\ st.answered
  /\ c.keep_shutdown_on_comm_loss /\ Reached(c.on_battery_seconds, since)

\* Contact was lost during a confirmed outage: only the countdown can match.
BlindCountdown(c, st, since) ==
  /\ ~st.reachable
  /\ c.keep_shutdown_on_comm_loss
  /\ Reached(c.on_battery_seconds, since)

\* Reachable and on battery: the full set of thresholds.
FreshReading(c, st, since) ==
  /\ st.reachable
  /\ st.on_battery \/ since # None
  /\ \/ c.on_battery_low /\ st.battery_low
     \/ FallenTo(c.runtime_below_minutes, st.runtime_remaining_min)
     \/ FallenTo(c.charge_below_percent, st.battery_charge_pct)
     \/ Reached(c.on_battery_seconds, since)

\* MUTANT of UpsTriggerReason: a timer from the state file acts on its own.
TriggerFromFile(c, st, held, gone, since) ==
  IF PureCommLoss(c, st, gone) THEN "comm"
  ELSE IF BlindCountdown(c, st, since) THEN "blind"
  ELSE IF FreshReading(c, st, since) THEN "fresh"
  ELSE "none"

\* Nothing read from the state file acts while the device is unreachable.
UpsTriggerReason(c, st, held, gone, since) ==
  IF ~st.reachable /\ held THEN "none"
  ELSE IF PureCommLoss(c, st, gone) THEN "comm"
  ELSE IF BlindCountdown(c, st, since) THEN "blind"
  ELSE IF FreshReading(c, st, since) THEN "fresh"
  ELSE "none"

-----------------------------------------------------------------------------
(***************************************************************************)
(* Engine._evaluate_ups                                                    *)
(***************************************************************************)

\* MUTANT of BlindReason: a set trigger is derived again without fresh data.
DerivedAgain(c, r, gone) ==
  UpsTriggerReason(c, r.state, r.restored_unconfirmed, gone, r.on_battery_since)

\* A trigger that is already set is never derived again while unreachable: only
\* fresh data may withdraw it.
BlindReason(c, r, gone) ==
  IF Triggered(r) THEN r.trigger_reason
  ELSE UpsTriggerReason(c, r.state, r.restored_unconfirmed, gone,
                        r.on_battery_since)

\* The poll did not yield a usable reading.
EvaluateUnreachable(c, r) ==
  LET count == IF r.unreachable_count = MaxPolls THEN MaxPolls
               ELSE r.unreachable_count + 1
      gone == IF r.unreachable_since = None THEN 0 ELSE r.unreachable_since
      reason == BlindReason(c, r, gone)
      commLoss == c.comm_loss_shutdown_after_min # None /\ reason # "none"
  IN [state |-> r.state,
      on_battery_since |-> r.on_battery_since,
      restored_unconfirmed |-> r.restored_unconfirmed,
      unreachable_count |-> count,
      unreachable_since |-> gone,
      alarm_active |->
        r.alarm_active \/ count >= c.unreachable_alarm_after_polls,
      comm_loss_fired |-> r.comm_loss_fired \/ commLoss,
      trigger_reason |-> reason]

\* The device has spoken: whatever it says replaces what was assumed.
Answered(st, since, reason) ==
  [state |-> st, on_battery_since |-> since, restored_unconfirmed |-> FALSE,
   unreachable_count |-> 0, unreachable_since |-> None,
   alarm_active |-> FALSE, comm_loss_fired |-> FALSE, trigger_reason |-> reason]

\* MUTANT of EvaluateMains: mains end the timer but leave the trigger.
MainsKeepTrigger(r) == Answered(r.state, None, r.trigger_reason)

EvaluateMains(r) == Answered(r.state, None, "none")

EvaluateBattery(c, r) ==
  LET since == IF r.on_battery_since = None THEN 0 ELSE r.on_battery_since
  IN Answered(r.state, since,
              UpsTriggerReason(c, r.state, FALSE, None, since))

EvaluateUps(c, r) ==
  IF ~r.state.reachable THEN EvaluateUnreachable(c, r)
  ELSE IF ~r.state.on_battery THEN EvaluateMains(r)
  ELSE EvaluateBattery(c, r)

-----------------------------------------------------------------------------
\* The UPS-related half of one poll: the answer replaces the last one.
Polled(r, st) == [r EXCEPT !.state = st]

\* MUTANT of ResetUps: the count of failed polls starts over too.
ResetForgetsPolls(r) ==
  [r EXCEPT !.unreachable_count = 0, !.alarm_active = FALSE,
            !.comm_loss_fired = FALSE, !.trigger_reason = "none"]

\* Engine.reset, for one UPS: the timer and the last reading stay.
ResetUps(r) ==
  [state |-> r.state,
   on_battery_since |-> r.on_battery_since,
   restored_unconfirmed |-> r.restored_unconfirmed,
   unreachable_count |-> r.unreachable_count,
   unreachable_since |-> r.unreachable_since,
   alarm_active |-> FALSE, comm_loss_fired |-> FALSE, trigger_reason |-> "none"]

\* MUTANT of RestoreUps: the countdown starts over.
RestoreAnew(saved, restoreMax) ==
  LET usable == saved # None /\ saved <= restoreMax
  IN [FreshRuntime EXCEPT !.on_battery_since = IF usable THEN 0 ELSE None,
                          !.restored_unconfirmed = usable]

\* Engine._restore_state, for one UPS: a timer not older than restoreMax comes
\* back in full, but held until the device answers.  Triggers do not come back.
RestoreUps(saved, restoreMax) ==
  LET usable == saved # None /\ saved <= restoreMax
  IN [state |-> Silence,
      on_battery_since |-> IF usable THEN saved ELSE None,
      restored_unconfirmed |-> usable,
      unreachable_count |-> 0, unreachable_since |-> None,
      alarm_active |-> FALSE, comm_loss_fired |-> FALSE,
      trigger_reason |-> "none"]

\* One time step seen by the timestamps of a runtime record.
OlderRuntime(r) ==
  [state |-> r.state,
   on_battery_since |-> Older(r.on_battery_since),
   restored_unconfirmed |-> r.restored_unconfirmed,
   unreachable_count |-> r.unreachable_count,
   unreachable_since |-> Older(r.unreachable_since),
   alarm_active |-> r.alarm_active,
   comm_loss_fired |-> r.comm_loss_fired,
   trigger_reason |-> r.trigger_reason]

=============================================================================
