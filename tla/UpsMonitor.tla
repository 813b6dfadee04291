----------------------------- MODULE UpsMonitor -----------------------------
(***************************************************************************)
(* The monitoring half of app/engine.py: the poll loop, the runtime record *)
(* of every UPS, the state file the battery timers survive a restart in,   *)
(* the operator's "Reset state" and the configuration save, which run      *)
(* between any two steps of the loop, and the end of the process at any    *)
(* moment.                                                                 *)
(*                                                                         *)
(* One iteration of _loop is Poll, one Evaluate per UPS, and Persist.  The *)
(* host sweep between Evaluate and Persist (module HostShutdown) awaits    *)
(* network calls and leaves this state alone: here it is the time during   *)
(* which anything else may happen.                                         *)
(***************************************************************************)
EXTENDS UpsTrigger

CONSTANTS
  Ups,          \* the UPS ids that may ever be configured
  Profiles,     \* the settings an operator may give one UPS
  Readings,     \* the answers a device may give to one poll
  RestoreMax    \* STATE_RESTORE_MAX_AGE_H

ASSUME MonitorAssumption ==
  /\ Profiles \subseteq Thresholds
  /\ Readings \subseteq UpsState
  /\ Silence \in Readings
  /\ \A s \in Readings : /\ s.reachable => s.answered
                         /\ s.on_battery => s.reachable
  /\ RestoreMax \in 0 .. MaxAge - 1

VARIABLES
  up,          \* the process runs
  pc,          \* where _loop is: "wait" between iterations, or "evaluate"
  todo,        \* the UPS this iteration has yet to evaluate
  configured,  \* the ids of cfg.ups
  cfg,         \* effective_thresholds and incomplete_ups of each UPS
  ups_rt,      \* _UpsRuntime of each UPS
  file,        \* on_battery_since in engine-state.json
  persisted,   \* _persisted_state: what the process believes is in the file
  heard,       \* HISTORY: what this process last heard the device say
  unheard,     \* HISTORY: the age of its last usable answer, or of the record
  quiet        \* HISTORY: the age of its last answer of any kind

disk == <<file, persisted>>
history == <<heard, unheard, quiet>>
vars == <<up, pc, todo, configured, cfg, ups_rt, file, persisted,
          heard, unheard, quiet>>

Unwritten == [u \in Ups |-> MaxAge + 1]   \* _persisted_state is None

\* The part of the state file that a decision depends on.
Timers == [u \in Ups |-> ups_rt[u].on_battery_since]

-----------------------------------------------------------------------------
Init ==
  /\ up = TRUE
  /\ pc = "wait"
  /\ todo = {}
  /\ configured = Ups
  /\ cfg \in [Ups -> Profiles]
  /\ ups_rt = [u \in Ups |-> FreshRuntime]
  /\ file = [u \in Ups |-> None]
  /\ persisted = Unwritten
  /\ heard = [u \in Ups |-> "nothing"]
  /\ unheard = [u \in Ups |-> 0]
  /\ quiet = [u \in Ups |-> 0]

\* Time passes: while the loop sleeps, while it awaits, while it is down.
Tick ==
  /\ ups_rt' = [u \in Ups |-> OlderRuntime(ups_rt[u])]
  /\ file' = [u \in Ups |-> Older(file[u])]
  /\ persisted' = IF persisted = Unwritten THEN persisted
                  ELSE [u \in Ups |-> Older(persisted[u])]
  /\ unheard' = [u \in Ups |-> Older(unheard[u])]
  /\ quiet' = [u \in Ups |-> Older(quiet[u])]
  /\ UNCHANGED <<up, pc, todo, configured, cfg, heard>>

\* What sources.poll can return: an entry without an address is never asked.
Answers(u) == IF cfg[u].incomplete THEN {Silence} ELSE Readings

\* The gathered polls of one iteration are back.
Poll ==
  /\ up /\ pc = "wait"
  /\ \E answer \in [configured -> Readings] :
       /\ \A u \in configured : answer[u] \in Answers(u)
       /\ ups_rt' = [u \in Ups |->
            IF u \in configured THEN Polled(ups_rt[u], answer[u]) ELSE ups_rt[u]]
       /\ unheard' = [u \in Ups |->
            IF u \in configured /\ answer[u].reachable THEN 0 ELSE unheard[u]]
       /\ quiet' = [u \in Ups |->
            IF u \in configured /\ answer[u].answered THEN 0 ELSE quiet[u]]
  /\ pc' = "evaluate"
  /\ todo' = configured
  /\ UNCHANGED <<up, configured, cfg, heard>>
  /\ UNCHANGED disk

\* Phase A of _evaluate for one UPS; an entry deleted meanwhile is skipped.
Evaluate(u) ==
  /\ u \in todo
  /\ todo' = todo \ {u}
  /\ IF u \in configured
     THEN /\ ups_rt' = [ups_rt EXCEPT ![u] = EvaluateUps(cfg[u], ups_rt[u])]
          /\ heard' = [heard EXCEPT ![u] =
                         IF ~ups_rt[u].state.reachable THEN @
                         ELSE IF ups_rt[u].state.on_battery THEN "battery"
                         ELSE "mains"]
     ELSE UNCHANGED <<ups_rt, heard>>
  /\ UNCHANGED <<up, pc, configured, cfg, unheard, quiet>>
  /\ UNCHANGED disk

\* The write of the state file, which may fail and then changes nothing.
WriteFile ==
  \/ file' = Timers /\ persisted' = Timers
  \/ UNCHANGED disk

\* _persist_state: only a changed content is written.
Persist ==
  /\ pc = "evaluate" /\ todo = {}
  /\ pc' = "wait"
  /\ IF persisted = Timers
     THEN UNCHANGED disk
     ELSE WriteFile
  /\ UNCHANGED <<up, todo, configured, cfg, ups_rt>>
  /\ UNCHANGED history

\* The operator presses "Reset state".
Reset ==
  /\ up
  /\ ups_rt' = [u \in Ups |-> ResetUps(ups_rt[u])]
  /\ UNCHANGED <<up, pc, todo, configured, cfg>>
  /\ UNCHANGED disk
  /\ UNCHANGED history

\* The operator saves a configuration: update_config with _sync_runtimes.
UpdateConfig(ids, settings) ==
  /\ up
  /\ configured' = ids
  /\ cfg' = settings
  /\ ups_rt' = [u \in Ups |-> IF u \in ids THEN ups_rt[u] ELSE FreshRuntime]
  /\ heard' = [u \in Ups |-> IF u \in ids THEN heard[u] ELSE "nothing"]
  /\ unheard' = [u \in Ups |-> IF u \in ids THEN unheard[u] ELSE 0]
  /\ quiet' = [u \in Ups |-> IF u \in ids THEN quiet[u] ELSE 0]
  /\ UNCHANGED <<up, pc, todo>>
  /\ UNCHANGED disk

\* The process ends: a stop, a crash, or its own host going down.
Crash ==
  /\ up
  /\ up' = FALSE
  /\ pc' = "wait"
  /\ todo' = {}
  /\ ups_rt' = [u \in Ups |-> FreshRuntime]
  /\ persisted' = Unwritten
  /\ heard' = [u \in Ups |-> "nothing"]
  /\ UNCHANGED <<configured, cfg, file, unheard, quiet>>

\* Engine.__init__: one runtime per UPS, then _restore_state.
Start ==
  /\ ~up
  /\ up' = TRUE
  /\ ups_rt' = [u \in Ups |-> IF u \in configured
                              THEN RestoreUps(file[u], RestoreMax)
                              ELSE FreshRuntime]
  /\ unheard' = [u \in Ups |-> 0]
  /\ quiet' = [u \in Ups |-> 0]
  /\ UNCHANGED <<pc, todo, configured, cfg, heard>>
  /\ UNCHANGED disk

Next ==
  \/ Tick
  \/ Poll
  \/ \E u \in Ups : Evaluate(u)
  \/ Persist
  \/ Reset
  \/ \E ids \in SUBSET Ups, settings \in [Ups -> Profiles] :
       UpdateConfig(ids, settings)
  \/ Crash
  \/ Start

Spec == Init /\ [][Next]_vars

(***************************************************************************)
(* The loop is one task that is never cancelled while the process runs,    *)
(* every await in it is bounded (sources.poll, targets.shutdown), its body *)
(* is inside try/except, and the service manager restarts a process that   *)
(* ended.  Nothing is assumed of the operator, the devices or the disk.    *)
(***************************************************************************)
Fairness ==
  /\ WF_vars(Tick)
  /\ WF_vars(Poll)
  /\ \A u \in Ups : WF_vars(Evaluate(u))
  /\ WF_vars(Persist)
  /\ WF_vars(Start)

FairSpec == Spec /\ Fairness

-----------------------------------------------------------------------------
(***************************************************************************)
(* Properties                                                              *)
(***************************************************************************)

\* Every variable has its type.
TypeOK ==
  /\ up \in BOOLEAN
  /\ pc \in {"wait", "evaluate"}
  /\ todo \subseteq Ups
  /\ configured \subseteq Ups
  /\ cfg \in [Ups -> Profiles]
  /\ ups_rt \in [Ups -> UpsRuntime]
  /\ file \in [Ups -> Timer]
  /\ persisted \in [Ups -> Timer] \cup {Unwritten}
  /\ heard \in [Ups -> {"nothing", "mains", "battery"}]
  /\ unheard \in [Ups -> 0 .. MaxAge]
  /\ quiet \in [Ups -> 0 .. MaxAge]

\* README "Safety model": losing contact is not a confirmed outage, and nothing
\* read back from the state file acts on its own.  A UPS demands a shutdown only
\* if this very process heard it say "on battery" and nothing else since, or if
\* the operator opted into treating a long communication loss as an outage.
FailSafe ==
  \A u \in Ups : Triggered(ups_rt[u]) =>
    heard[u] = "battery" \/ ups_rt[u].trigger_reason = "comm"

\* Every timer in memory was read from the file and is still held, or belongs to
\* an outage this process heard of: what makes FailSafe inductive.
TimersAreHeldOrHeard ==
  \A u \in Ups : ups_rt[u].on_battery_since # None =>
    ups_rt[u].restored_unconfirmed \/ heard[u] = "battery"

\* The opt-in of _ups_trigger_reason arms only on an entry that is polled, at a
\* poll nothing answered, after the device gave no usable answer to this process
\* for the whole configured time.
CommLossIsProlonged ==
  [][\A u \in Ups :
       ups_rt[u].trigger_reason # "comm" /\ ups_rt'[u].trigger_reason = "comm" =>
         /\ ~cfg[u].incomplete
         /\ ~ups_rt[u].state.answered
         /\ Reached(cfg[u].comm_loss_shutdown_after_min, unheard[u])]_vars

\* README.md:316-318 and CHANGELOG.md:156 of the same opt-in: it fires on
\* silence only, so the device answered NOTHING for the whole configured time.
CommLossMeansSilence ==
  [][\A u \in Ups :
       ups_rt[u].trigger_reason # "comm" /\ ups_rt'[u].trigger_reason = "comm" =>
         Reached(cfg[u].comm_loss_shutdown_after_min, quiet[u])]_vars

\* _evaluate_ups: a trigger fired on fresh data stays latched while blind.  Only a
\* usable answer, the operator or the end of the process takes a demand back.
DemandSurvivesBlindness ==
  [][\A u \in Ups :
       Triggered(ups_rt[u]) /\ ~Triggered(ups_rt'[u]) =>
         ups_rt[u].state.reachable \/ Reset \/ ~up' \/ u \notin configured']_vars

\* The age of the outage of u as the appliance knows it, running or not.
KnownOutage(u) == IF up THEN ups_rt[u].on_battery_since ELSE file[u]

\* _restore_state: a restart mid-outage loses nothing.  The countdown of an outage
\* starts over only when the device reports mains, when the entry is deleted,
\* when the process ends before the timer was written, or when the file is older
\* than the restore limit; not by silence, resets, restarts or failed writes.
CountdownSurvives ==
  [][\A u \in configured \cap configured' :
       KnownOutage(u)' < KnownOutage(u) =>
         \/ heard'[u] = "mains"
         \/ up /\ ~up' /\ persisted # Timers
         \/ ~up /\ up' /\ file[u] > RestoreMax]_vars

\* _persist_state skips a write when the content equals what it believes is in
\* the file; that belief has to be true even after a write has failed.
BelievedFileIsFile == persisted # Unwritten => persisted = file

\* A confirmed outage whose time alone decides: the device reported battery to this
\* process, and its profile has a time threshold and keeps the shutdown on silence.
Counting(u) ==
  /\ heard[u] = "battery" /\ u \in configured
  /\ ~cfg[u].incomplete /\ cfg[u].on_battery_seconds # None
  /\ cfg[u].keep_shutdown_on_comm_loss

\* _ups_trigger_reason, keep_shutdown_on_comm_loss with a time threshold: a
\* confirmed outage ends in a demand, whatever the device does next, unless it
\* says that mains are back, the process dies or the operator takes the promise
\* out of the profile.
ConfirmedOutageFires ==
  \A u \in Ups : Counting(u) ~> Triggered(ups_rt[u]) \/ ~Counting(u)

\* engine.py:45-47 of the state file: it exists so that a restart during a blind
\* outage still shuts down.  Whenever a countdown is known, it fires or is cleared.
KnownOutageFires ==
  \A u \in Ups :
    KnownOutage(u) # None ~> Triggered(ups_rt[u]) \/ KnownOutage(u) = None

\* Unreachable is an alarm: a UPS without a usable reading raises one, however
\* often the operator resets it meanwhile.
UnreachableRaisesAlarm ==
  \A u \in Ups :
    up /\ u \in configured /\ ~ups_rt[u].state.reachable
      ~> \/ ups_rt[u].alarm_active \/ ups_rt[u].state.reachable
         \/ ~up \/ u \notin configured

\* The monitoring half implements the promise the rest of the engine relies on.
Promise == INSTANCE OutagePromise WITH
  belief <- heard,
  demand <- [u \in Ups |-> Triggered(ups_rt[u])],
  OptIn <- {u \in Ups :
              \E c \in Profiles : c.comm_loss_shutdown_after_min # None}

KeepsPromise == Promise!Spec

=============================================================================
