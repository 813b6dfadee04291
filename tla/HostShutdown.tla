---------------------------- MODULE HostShutdown ----------------------------
(***************************************************************************)
(* The acting half of app/engine.py: which hosts a poll finds due, the     *)
(* stages they are commanded in, the retries, the latches of an episode    *)
(* and their release.  The verdict on each UPS is what module UpsMonitor   *)
(* computes; here every poll chooses it freely.                            *)
(*                                                                         *)
(* _evaluate awaits notifications and shutdown calls.  Each step below     *)
(* runs up to the next await, and between any two steps the operator may   *)
(* reset, save a configuration, or the process may end and start again.    *)
(* Hosts are not cluster members: _prepare_clusters hands them through.    *)
(***************************************************************************)
EXTENDS Integers

CONSTANTS
  Ups,          \* the configured UPS
  Hosts,        \* the host entries that may be configured
  OwnHosts,     \* those marked this_host
  Order,        \* the shutdown order of each host
  Feeds,        \* feed_ids_for each host
  Policy,       \* its ups_policy, "all" or "any"
  MaxAttempts,  \* MAX_SHUTDOWN_ATTEMPTS
  RearmAfter,   \* rearm_after_mains_min, in ticks, or None
  Outcomes,     \* how a shutdown call may end: "ok", "fail", "raise"
  Configs       \* the configurations an operator may save

None == -1

ASSUME HostAssumption ==
  /\ OwnHosts \subseteq Hosts
  /\ Order \in [Hosts -> Nat]
  /\ Feeds \in [Hosts -> SUBSET Ups]
  /\ Policy \in [Hosts -> {"all", "any"}]
  /\ MaxAttempts \in Nat \ {0}
  /\ RearmAfter \in Nat \cup {None}
  /\ Outcomes \subseteq {"ok", "fail", "raise"}
  /\ Configs \subseteq
       [hosts: SUBSET Hosts, enabled: SUBSET Hosts, dry_run: BOOLEAN]
  /\ Configs # {}
  /\ \A c \in Configs : c.enabled \subseteq c.hosts

VARIABLES
  verdict,            \* of each UPS: "mains", "wait" or "demand"
  cfg,                \* the hosts, those enabled, and dry_run
  shutdown_triggered,
  host_fired,         \* the hosts with a true latch
  shutdown_state,     \* host_states[h].shutdown_state, or "none"
  shutdown_attempts,  \* host_states[h].shutdown_attempts
  mains_ok_since,     \* _mains_ok_since, as its age
  state,              \* the state the dashboard shows
  pc,                 \* where _evaluate is
  todo,               \* the hosts its eligibility loop has yet to look at
  due,                \* eligible: those it has yet to command
  had_eligible,
  stage,              \* the hosts of the gather underway
  inflight,           \* those of them whose call is not answered
  raised,             \* those of them whose call raised
  failed_earlier,
  asked,              \* HISTORY: the hosts this poll's verdicts demand
  tries,              \* HISTORY: the commands each host got in this sweep
  accepted,           \* HISTORY: hosts that accepted a command, restarts ignored
  mains_for           \* HISTORY: the age of the last poll that was not all mains

latches == <<shutdown_triggered, host_fired, shutdown_state,
             shutdown_attempts, mains_ok_since>>
sweep == <<todo, due, had_eligible, stage, inflight, raised, failed_earlier>>
history == <<asked, tries, accepted, mains_for>>
vars == <<verdict, cfg, latches, state, pc, sweep, history>>

-----------------------------------------------------------------------------
\* A UPS whose trigger is set demands; one that is reachable, on mains, without
\* a timer and without a trigger is mains-ok; every other one is waited for.
Verdicts == {"mains", "wait", "demand"}
AllMains == \A u \in Ups : verdict[u] = "mains"

\* MUTANT of Demanded: one triggered feed suffices, whatever the policy.
DemandedByAny(h) == \E u \in Feeds[h] : verdict[u] = "demand"

\* _host_trigger_reason: the feeds satisfy the policy of the host.  A host whose
\* feeds are all gone from the configuration is never demanded.
Demanded(h) ==
  LET fired == {u \in Feeds[h] : verdict[u] = "demand"}
  IN fired # {} /\ (Policy[h] = "all" => fired = Feeds[h])

\* HISTORY: the same, for verdicts that are just being reached.
WillDemand(h) ==
  LET fired == {u \in Feeds[h] : verdict'[u] = "demand"}
  IN fired # {} /\ (Policy[h] = "all" => fired = Feeds[h])

\* The sort key (this_host, order): g belongs to no later a stage than h.
NotLater(g, h) ==
  /\ g \in OwnHosts => h \in OwnHosts
  /\ (g \in OwnHosts <=> h \in OwnHosts) => Order[g] <= Order[h]
Foremost(S) == {g \in S : \A h \in S : NotLater(g, h)}

\* _retry_due
RetryDue(h) ==
  /\ shutdown_state[h] = "failed"
  /\ h \notin host_fired
  /\ shutdown_attempts[h] < MaxAttempts

\* The count stops growing one above the limit it is compared with.
OneMore(n) == IF n > MaxAttempts THEN n ELSE n + 1

\* _recompute_state; ONLINE stands for ON_BATTERY too.
RecomputeState(fired, st) ==
  IF \E h \in Hosts : st[h] \in {"sent", "failed"} THEN "SHUTTING_DOWN"
  ELSE IF fired # {} THEN "SHUTDOWN_PENDING" ELSE "ONLINE"

\* _release_shutdown_latches
ReleaseLatches ==
  /\ shutdown_triggered' = FALSE
  /\ host_fired' = {}
  /\ shutdown_state' = [h \in Hosts |-> "none"]
  /\ shutdown_attempts' = [h \in Hosts |-> 0]
  /\ mains_ok_since' = None
  /\ state' = "ONLINE"
  /\ accepted' = {}

\* _sync_host_states: a host that is not configured has no bookkeeping.
SyncHostStates(hosts) ==
  /\ host_fired' = host_fired \cap hosts
  /\ shutdown_state' = [h \in Hosts |->
                          IF h \in hosts THEN shutdown_state[h] ELSE "none"]
  /\ shutdown_attempts' = [h \in Hosts |->
                             IF h \in hosts THEN shutdown_attempts[h] ELSE 0]
  /\ accepted' = accepted \cap hosts

-----------------------------------------------------------------------------
Init ==
  /\ verdict = [u \in Ups |-> "wait"]
  /\ cfg \in Configs
  /\ shutdown_triggered = FALSE
  /\ host_fired = {}
  /\ shutdown_state = [h \in Hosts |-> "none"]
  /\ shutdown_attempts = [h \in Hosts |-> 0]
  /\ mains_ok_since = None
  /\ state = "ONLINE"
  /\ pc = "wait"
  /\ todo = {} /\ due = {} /\ had_eligible = FALSE
  /\ stage = {} /\ inflight = {} /\ raised = {} /\ failed_earlier = {}
  /\ asked = {}
  /\ tries = [h \in Hosts |-> 0]
  /\ accepted = {}
  /\ mains_for = 0

\* Time passes.  Only the re-arm delay is measured here.
Tick ==
  /\ RearmAfter # None
  /\ mains_ok_since' = IF mains_ok_since \in {None, RearmAfter}
                       THEN mains_ok_since ELSE mains_ok_since + 1
  /\ mains_for' = IF mains_for = RearmAfter THEN mains_for ELSE mains_for + 1
  /\ UNCHANGED <<verdict, cfg, shutdown_triggered, host_fired, shutdown_state,
                 shutdown_attempts, state, pc, sweep, asked, tries, accepted>>

\* The polls are back, the bookkeeping is reconciled, every UPS is judged.
Poll ==
  /\ pc = "wait"
  /\ pc' = "rearm"
  /\ verdict' \in [Ups -> Verdicts]
  /\ SyncHostStates(cfg.hosts)
  /\ asked' = {h \in Hosts : WillDemand(h)}
  /\ tries' = [h \in Hosts |-> 0]
  /\ mains_for' = IF \A u \in Ups : verdict'[u] = "mains" THEN mains_for ELSE 0
  /\ UNCHANGED <<cfg, shutdown_triggered, mains_ok_since, state, sweep>>

\* MUTANT of Rearming: the delay runs whatever the UPS say meanwhile.
RearmingBlindly ==
  RearmAfter # None /\ (shutdown_triggered \/ host_fired # {})

\* Whether _maybe_rearm is waiting at all, and for mains that are there.
Rearming ==
  /\ RearmAfter # None
  /\ shutdown_triggered \/ host_fired # {}
  /\ AllMains

\* _maybe_rearm: the latches come off once mains were back for the whole delay.
Rearm ==
  /\ pc = "rearm"
  /\ pc' = "select"
  /\ \/ /\ ~Rearming
        /\ mains_ok_since' = None
        /\ UNCHANGED <<shutdown_triggered, host_fired, shutdown_state,
                       shutdown_attempts, state, accepted>>
     \/ /\ Rearming /\ mains_ok_since = None
        /\ mains_ok_since' = 0
        /\ UNCHANGED <<shutdown_triggered, host_fired, shutdown_state,
                       shutdown_attempts, state, accepted>>
     \/ /\ Rearming /\ mains_ok_since # None /\ mains_ok_since < RearmAfter
        /\ UNCHANGED <<latches, state, accepted>>
     \/ /\ Rearming /\ mains_ok_since # None /\ mains_ok_since >= RearmAfter
        /\ ReleaseLatches
  /\ UNCHANGED <<verdict, cfg, sweep, asked, tries, mains_for>>

\* The eligibility loop of _evaluate_hosts starts over ordered_hosts().
Select ==
  /\ pc = "select"
  /\ pc' = "sweep"
  /\ todo' = cfg.enabled
  /\ UNCHANGED <<verdict, cfg, latches, state, history,
                 due, had_eligible, stage, inflight, raised, failed_earlier>>

\* MUTANT of Eligible: a failed attempt counts as a shutdown that was sent.
EligibleUnlessFailed(h) ==
  Demanded(h) /\ h \notin host_fired /\ shutdown_state[h] # "failed"

\* A host to be commanded: demanded, and not handled in this episode.
Eligible(h) == Demanded(h) /\ h \notin host_fired

\* MUTANT of Releasable: only a latch makes an attempt that can be withdrawn.
ReleasableLatch(h) == h \in host_fired /\ shutdown_state[h] # "sent"

\* What a demand that ended takes back: a latch or an attempt, but nothing sent.
Releasable(h) ==
  \/ h \in host_fired /\ shutdown_state[h] # "sent"
  \/ shutdown_state[h] = "failed"

\* One host of that loop: due, already handled, or its latch is released.
Consider(h) ==
  /\ pc = "sweep" /\ h \in Foremost(todo)
  /\ todo' = todo \ {h}
  /\ \/ /\ Eligible(h)
        /\ due' = due \cup {h}
        /\ had_eligible' = TRUE
        /\ UNCHANGED latches
     \/ /\ Demanded(h) /\ h \in host_fired
        /\ UNCHANGED <<latches, due, had_eligible>>
     \/ /\ ~Demanded(h)
        /\ IF Releasable(h)
           THEN /\ host_fired' = host_fired \ {h}
                /\ shutdown_state' = [shutdown_state EXCEPT ![h] = "none"]
                /\ shutdown_attempts' = [shutdown_attempts EXCEPT ![h] = 0]
           ELSE UNCHANGED <<host_fired, shutdown_state, shutdown_attempts>>
        /\ UNCHANGED <<shutdown_triggered, mains_ok_since, due, had_eligible>>
  /\ UNCHANGED <<verdict, cfg, state, pc, stage, inflight, raised,
                 failed_earlier, history>>

\* The tasks of one gather of _fire_stage run up to their first await: in
\* dry-run a host is only latched, otherwise it is commanded.
StartFiring(hosts) ==
  /\ stage' = hosts
  /\ shutdown_triggered' = TRUE
  /\ IF cfg.dry_run
     THEN /\ host_fired' = host_fired \cup hosts
          /\ UNCHANGED <<inflight, tries>>
     ELSE /\ inflight' = hosts
          /\ tries' = [h \in Hosts |-> IF h \in hosts /\ tries[h] < 2
                                       THEN tries[h] + 1 ELSE tries[h]]
          /\ UNCHANGED host_fired

\* MUTANT of LastChance: no extra pass, the next poll will do.
NoLastChance == {}

\* Which hosts get another attempt before the appliance's own host goes down.
LastChance ==
  IF Foremost(due) \subseteq OwnHosts THEN {h \in failed_earlier : RetryDue(h)}
  ELSE {}

\* The next stage of _evaluate_hosts, or the extra pass before this_host.
StartStage ==
  /\ pc = "sweep" /\ todo = {} /\ due # {}
  /\ IF LastChance # {}
     THEN /\ pc' = "retry"
          /\ StartFiring(LastChance)
          /\ UNCHANGED due
     ELSE /\ pc' = "fire"
          /\ StartFiring(Foremost(due))
          /\ due' = due \ Foremost(due)
  /\ failed_earlier' = IF Foremost(due) \subseteq OwnHosts THEN {}
                       ELSE failed_earlier
  /\ UNCHANGED <<verdict, cfg, shutdown_state, shutdown_attempts,
                 mains_ok_since, state, todo, had_eligible, raised, asked,
                 accepted, mains_for>>

\* MUTANT of Settled: the latch waits until the attempts are used up.
SettledByCount(outcome, attempts) == attempts >= MaxAttempts

\* An attempt that settles a host for the episode.
Settled(outcome, attempts) == outcome = "ok" \/ attempts >= MaxAttempts

\* _fire_host, after the call: the answer is recorded.
Answer(h, outcome) ==
  /\ h \in inflight
  /\ inflight' = inflight \ {h}
  /\ LET attempts == OneMore(shutdown_attempts[h])
         done == Settled(outcome, attempts)
     IN IF outcome = "raise"
        THEN /\ raised' = raised \cup {h}
             /\ UNCHANGED <<host_fired, shutdown_state, shutdown_attempts>>
        ELSE /\ host_fired' = IF done THEN host_fired \cup {h} ELSE host_fired \ {h}
             /\ shutdown_state' =
                  [shutdown_state EXCEPT ![h] = IF outcome = "ok" THEN "sent" ELSE "failed"]
             /\ shutdown_attempts' = [shutdown_attempts EXCEPT ![h] = attempts]
             /\ UNCHANGED raised
  /\ accepted' = IF outcome = "ok" THEN accepted \cup {h} ELSE accepted
  /\ UNCHANGED <<verdict, cfg, shutdown_triggered, mains_ok_since, state, pc,
                 todo, due, had_eligible, stage, failed_earlier,
                 asked, tries, mains_for>>

\* The gather is back: a call that raised counts as a failed attempt, and the
\* hosts that are not latched may be tried again, unless this was that pass.
EndStage ==
  /\ pc \in {"fire", "retry"} /\ inflight = {}
  /\ host_fired' = host_fired \ raised
  /\ shutdown_state' = [h \in Hosts |->
       IF h \in raised THEN "failed" ELSE shutdown_state[h]]
  /\ shutdown_attempts' = [h \in Hosts |->
       IF h \in raised THEN OneMore(shutdown_attempts[h]) ELSE shutdown_attempts[h]]
  /\ failed_earlier' =
       IF pc = "retry" THEN failed_earlier
       ELSE failed_earlier \cup {h \in raised : RetryDue(h)'}
                           \cup ((stage \ raised) \ host_fired)
  /\ stage' = {} /\ raised' = {}
  /\ pc' = "sweep"
  /\ UNCHANGED <<verdict, cfg, shutdown_triggered, mains_ok_since, state,
                 todo, due, had_eligible, inflight, history>>

\* The end of _evaluate_hosts, and _recompute_state.
EndSweep ==
  /\ pc = "sweep" /\ todo = {} /\ due = {}
  /\ pc' = "wait"
  /\ shutdown_triggered' = (shutdown_triggered /\ (host_fired # {} \/ had_eligible))
  /\ state' = RecomputeState(host_fired, shutdown_state)
  /\ had_eligible' = FALSE
  /\ failed_earlier' = {}
  /\ UNCHANGED <<verdict, cfg, host_fired, shutdown_state, shutdown_attempts,
                 mains_ok_since, todo, due, stage, inflight, raised, history>>

-----------------------------------------------------------------------------
\* The operator presses "Reset state": a trigger that is still justified comes
\* back with the next poll.
Reset ==
  /\ ReleaseLatches
  /\ verdict' = [u \in Ups |-> IF verdict[u] = "demand" THEN "wait" ELSE verdict[u]]
  /\ UNCHANGED <<cfg, pc, sweep, asked, tries, mains_for>>

\* The operator saves a configuration: update_config.
SaveConfig(c) ==
  /\ cfg' = c
  /\ SyncHostStates(c.hosts)
  /\ UNCHANGED <<verdict, shutdown_triggered, mains_ok_since, state, pc, sweep,
                 asked, tries, mains_for>>

\* The process ends, wherever it is, and is started again: Engine.__init__.
\* None of the shutdown bookkeeping is in the state file.
Restart ==
  /\ verdict' = [u \in Ups |-> "wait"]
  /\ shutdown_triggered' = FALSE
  /\ host_fired' = {}
  /\ shutdown_state' = [h \in Hosts |-> "none"]
  /\ shutdown_attempts' = [h \in Hosts |-> 0]
  /\ mains_ok_since' = None
  /\ state' = "ONLINE"
  /\ pc' = "wait"
  /\ todo' = {} /\ due' = {} /\ had_eligible' = FALSE
  /\ stage' = {} /\ inflight' = {} /\ raised' = {} /\ failed_earlier' = {}
  /\ asked' = {}
  /\ tries' = [h \in Hosts |-> 0]
  /\ mains_for' = 0
  /\ UNCHANGED <<cfg, accepted>>

\* The poll loop between two awaits of calls to hosts.
Loop == Poll \/ Rearm \/ Select \/ (\E h \in Hosts : Consider(h))
        \/ StartStage \/ EndStage \/ EndSweep

Next ==
  \/ Tick
  \/ Loop
  \/ \E h \in Hosts, outcome \in Outcomes : Answer(h, outcome)
  \/ Reset
  \/ \E c \in Configs : SaveConfig(c)
  \/ Restart

Spec == Init /\ [][Next]_vars

(***************************************************************************)
(* The loop is never cancelled while the process runs, targets.shutdown is *)
(* bounded by host_shutdown_timeout_s plus a grace, and the clock runs.    *)
(* Nothing is assumed of the operator, of the grid or of the answers.      *)
(***************************************************************************)
Fairness ==
  /\ WF_vars(Tick)
  /\ WF_vars(Loop)
  /\ \A h \in Hosts : WF_vars(\E outcome \in Outcomes : Answer(h, outcome))

FairSpec == Spec /\ Fairness

-----------------------------------------------------------------------------
(***************************************************************************)
(* Properties                                                              *)
(***************************************************************************)

\* The hosts to which a step sends a shutdown command.
Commanded == inflight' \ inflight

\* Every variable has its type.
TypeOK ==
  /\ verdict \in [Ups -> Verdicts]
  /\ cfg \in Configs
  /\ shutdown_triggered \in BOOLEAN
  /\ host_fired \subseteq Hosts
  /\ shutdown_state \in [Hosts -> {"none", "sent", "failed"}]
  /\ shutdown_attempts \in [Hosts -> 0 .. MaxAttempts + 1]
  /\ mains_ok_since \in Nat \cup {None}
  /\ state \in {"ONLINE", "SHUTDOWN_PENDING", "SHUTTING_DOWN"}
  /\ pc \in {"wait", "rearm", "select", "sweep", "fire", "retry"}
  /\ todo \subseteq Hosts /\ due \subseteq Hosts /\ had_eligible \in BOOLEAN
  /\ stage \subseteq Hosts /\ inflight \subseteq Hosts /\ raised \subseteq Hosts
  /\ failed_earlier \subseteq Hosts
  /\ asked \subseteq Hosts /\ accepted \subseteq Hosts
  /\ tries \in [Hosts -> 0 .. 2]
  /\ mains_for \in Nat

\* README.md:331-332 "a shutdown that was really sent stays latched": a host that
\* is recorded as powering down is never commanded again, whatever resets, saved
\* configurations and retries come between the command and its answer.
SentIsFinal == [][\A h \in Commanded : shutdown_state[h] # "sent"]_vars

\* The same for the machine instead of the record: README.md:331-332 "a machine
\* on its way down is never commanded twice", across a restart of the service.
NeverCommandedTwice == [][Commanded \cap accepted = {}]_vars

\* _evaluate_hosts: a recorded shutdown is latched, and one that is about to be
\* sent, or under way, is not.  This is why SentIsFinal holds.
LatchesAgree ==
  /\ \A h \in Hosts : shutdown_state[h] = "sent" => h \in host_fired
  /\ (due \cup inflight) \cap host_fired = {}
  /\ due \cap stage = {}

\* Nothing is commanded that the UPS feeding it did not demand in the poll of this
\* very sweep, by the policy of the host.
CommandsAreDemanded == [][Commanded \subseteq asked]_vars

\* README.md:326 "three attempts": a host whose calls are answered is given up
\* after MAX_SHUTDOWN_ATTEMPTS, and stays given up for the episode.
AttemptsAreBounded ==
  "raise" \notin Outcomes => \A h \in Hosts : shutdown_attempts[h] <= MaxAttempts

\* _evaluate_hosts: nothing follows this_host, so when it is commanded every other
\* host of the sweep was commanded before it, and one that failed and has attempts
\* left was tried again.
OwnHostWaits ==
  [][Commanded \cap OwnHosts # {} =>
       /\ due' \subseteq OwnHosts
       /\ \A h \in Hosts \ OwnHosts : RetryDue(h) => tries[h] # 1]_vars

\* README.md:336 "the host carrying the appliance is always shut down last": when
\* it is commanded, no other enabled host is still to be shut down.
OwnHostIsLast ==
  [][Commanded \cap OwnHosts # {} =>
       \A h \in cfg.enabled \ OwnHosts :
         h \in host_fired \/ shutdown_state[h] = "failed"]_vars

\* _maybe_rearm: a grid that dips twice must not re-arm in between.  The record of
\* a sent shutdown goes only by the operator, by the end of the process, or after
\* no poll of the whole delay found any UPS anything but mains-ok.
SentIsReleasedByMains ==
  [][\A h \in Hosts :
       shutdown_state[h] = "sent" /\ shutdown_state'[h] # "sent" =>
         \/ Reset \/ Restart \/ h \notin cfg'.hosts
         \/ AllMains /\ RearmAfter # None /\ mains_for >= RearmAfter]_vars

\* _evaluate_hosts: a machine that stays demanded is never forgotten.  It is
\* latched, or commanded again and again.
DemandIsServed ==
  \A h \in Hosts :
    <>[](h \in cfg.enabled /\ Demanded(h)) => []<>(h \in host_fired \cup inflight)

\* CHANGELOG.md:383 "an outage that ends between two attempts closes the episode":
\* with mains back for good, and the configuration left alone, the appliance leaves
\* the episode by itself.
EpisodeCloses ==
  <>[]AllMains /\ <>[][UNCHANGED cfg]_vars
    => []<>(state = "ONLINE" /\ ~shutdown_triggered)

\* A failed shutdown of a host that the operator disabled meanwhile.
Stranded(h) == shutdown_state[h] = "failed" /\ h \notin cfg.enabled

\* The same without that exception, and whatever configurations are saved.
EpisodeClosesUnlessStranded ==
  <>[](AllMains /\ \A h \in Hosts : ~Stranded(h))
    => []<>(state = "ONLINE" /\ ~shutdown_triggered)

=============================================================================
