# PVE-UPS in TLA+

TLA+ models of PVE-UPS, the appliance that watches UPS devices over SNMP and NUT
and shuts Proxmox machines (PVE nodes, clusters, PBS) down in stages when the
mains fail. The models are checked with TLC on small instances and proved about
with TLAPS for all. `PROJECT.json` lists the components, the runs, the mutants
that show that each property can fail, the source lines behind every definition,
and the hazards; this file explains them. Line numbers are those of the commit
modelled.

Contents: [the system](#the-system) · [modules](#modules) ·
[runs](#what-tlc-checks) · [fairness](#fairness) · [proofs](#what-tlaps-proves) ·
[findings](#findings) · [known disagreements](#known-disagreements-without-a-run) ·
[modelling decisions](#modelling-decisions) · [not modelled](#what-is-not-modelled) ·
[plan](#plan)

## The system

One Python process runs a FastAPI application and, on the same event loop, one
engine task. Concurrency is therefore cooperative: whatever happens, happens
between two awaits. The engine awaits network calls for seconds to minutes, and
during each of them the web API may reset alarms, save a configuration, run a
self-test or restore a cluster; systemd may stop or restart the process; and
machines, clusters and UPS devices go on by themselves.

| component | state it keeps | operations | what is hard |
|---|---|---|---|
| **UPS sources** `ups.py`, `nut.py`, `sources.py` | none; one read makes one `UpsState` | `poll`, `_map_state`, `_apply_variables`, `probe` | "did not answer", "answered but says nothing usable" and "on mains" must never be confused |
| **UPS monitoring** `engine.py` (phase A) | `_UpsRuntime` per UPS: last reading, on-battery and unreachable timers, alarm, trigger reason | `_loop`, `_evaluate_ups`, `_ups_trigger_reason`, `reset`, `update_config` | countdowns through silence and restarts; resets and saves in the middle of an iteration |
| **Engine state file** `engine.py` | on-battery timers, trigger reasons, self-test slot and outcome, on disk | `_persist_state`, `_restore_state` | written after the sweep, only on change; a write may fail; a crash between any two steps |
| **Host shutdown** `engine.py` (A2, B, C) | latches, shutdown records, attempts, re-arm timer, appliance state | `_maybe_rearm`, `_evaluate_hosts`, `_fire_stage`, `_fire_host` | answers in any order; retries; requests while calls are in flight; the own host last |
| **Cluster episode** `engine.py` | recorded cluster names and states, preparation latches, nodes taken along | `_prepare_clusters`, `_inspect_clusters`, `restore_cluster`, self-test | inspection results that are old, partial or wrong when they are used; one preparation per episode |
| **Cluster preparation** `cluster.py` | none of its own; the cluster's HA stack, guests and Ceph flags | `inspect`, `prepare`, `restore`, the guest steps | a write is confirmed by a read or not at all, and both may fail; a cut-off anywhere; HA restarting guests |
| **Self-test scheduler** `engine.py` | slot latch, outcome, pending and startup checks, throttle of green lines | `_maybe_selftest`, `_run_selftest`, `_maybe_startup_*_check`, `selftest_slot` | slots around midnight; a latch that survives a crash; a save during a check |
| **Targets** `targets.py`, `proxmox.py`, `pbs.py` | none | `shutdown_node`, `test_connection`, `list_nodes`, `verify_node` | a request whose answer is lost may have been carried out; two forms of a call, which may name two machines; one deadline over all of it |
| **Configuration** `config.py` | one YAML file | load, validate, migrate, ids, effective thresholds, atomic save | ids that survive renames and are unique whatever a file holds |
| **Notifications** `notify.py` | delivery record per webhook | mail, webhooks | a slow receiver must not hold the engine |
| **Web API** `main.py` | the configuration in force, uploads | save, import, upload, hand jobs over, log their results | secrets a page never sees and sends back as a placeholder; stale pages; a restart in the middle of a request |
| **Update agent** `pve-usv-agent.sh` | queue, result and the mark of what was logged, all files | take a job, update, set NTP server or time zone, record, restart | a root process and an unprivileged one sharing files, either of which may die anywhere |
| **Event log** `db.py` | SQLite rows | insert, prune | nothing a decision reads |
| **Web UI** `app/web` | the page as loaded and as edited | new cards, the check before a save | ids of new cards that nobody else holds |

How they interact: `_loop` polls all sources in one gather (`sources.poll`, bounded
and total), stores the readings, and `_evaluate` then runs phase A for every UPS,
phase A2 (re-arm), phase B (which hosts are demanded, by feeds and policy), the
cluster preparation, phase C (stages, each a gather of `targets.shutdown`), and at
the end persists the timers. Startup checks and the self-test follow. The API calls
engine methods directly; they run to their next await in the middle of all that.
The update agent shares nothing with the service but files: jobs one way, one result
file the other way.

What makes each component correct, and the property that says so:

* sources: a battery is only reported by a device that could be read
  (`SourcesKeepContract`); what cannot be read is never mains (`UnknownIsNotMains`);
* monitoring: no demand without evidence (`FailSafe`, `CommLossIsProlonged`), no
  demand or countdown lost (`DemandSurvivesBlindness`, `CountdownSurvives`), an
  outage is acted on (`ConfirmedOutageFires`), a silence is noticed
  (`UnreachableRaisesAlarm`); in one abstract machine, `KeepsPromise`;
* host shutdown: only what is demanded is commanded, in the right order
  (`CommandsAreDemanded`, `OwnHostWaits`), a bounded number of times
  (`AttemptsAreBounded`), never twice once it worked (`SentIsFinal`), and the
  episode ends, but not too soon (`SentIsReleasedByMains`,
  `EpisodeClosesUnlessStranded`, `DemandIsServed`);
* cluster episode: prepared once, before the first node goes down, or held back
  (`PreparedBeforeDown`, `PreparedOnce`, `HeldBackStays`); down as a whole
  (`UnitGoesTogether`, `TakenAlongIsSettled`); forgotten afterwards
  (`EpisodeIsForgotten`);
* preparation: "ok" means done (`PreparedIsPrepared`, `RestoredIsRestored`), no
  guest is stopped under a live HA manager (`HaLetsGo`), the appliance never stops
  itself (`OwnGuestIsSpared`), a failed step does not take the flags along
  (`FlagsComeAnyway`);
* self-test: one test per slot (`SlotRunsOnce`, `SlotIsGridPoint`), no request
  lost (`RearmTestIsKept`), no check of an old configuration taken for one of the
  new (`ChecksSeeTheConfig`), green lines that mean something
  (`OkLinesFollowFailures`);
* targets: one machine per call, whatever is lost or refused (`OneMachinePerCall`); what passes
  the self-test is served (`GreenIsServed`); every call ends (`CallsEnd`), by the
  client's own timeout where it can (`DeadlineIsBackstop`); a check fits into its time
  (`ChecksFit`);
* configuration: ids are distinct (`KeysAreUnique`) and stay where they are
  (`FirstHolderKeeps`, `IdsStay`); a stored token goes back to its own entry and to no
  other (`TokensAreKept`, `TokensStay`);
* web API and agent: a setting handed over is in force (`SettingsInForce`), an outcome is
  logged once (`ReportedOnce`), only what was checked is unpacked (`OnlyCheckedIsUnpacked`),
  the service comes up again (`ServiceComesBack`) and with what was installed
  (`RestartFollows`).

## Modules

| module | models | actions and operators, and the code they stand for |
|---|---|---|
| `UpsReading` | one read of a device | `SnmpPoll` (`ups.poll`), `MapState` (`_map_state`), `NutPoll`, `ApplyVariables` (`nut.py`), `SourcePoll` (`sources.poll`) |
| `UpsTrigger` | the pure decisions about one UPS | `UpsTriggerReason` (`_ups_trigger_reason`), `EvaluateUps` and its parts (`_evaluate_ups`), `ResetUps`, `RestoreUps` |
| `UpsMonitor` | poll loop, runtimes, state file, crash and restart | `Poll`, `Evaluate`, `Persist`, `Reset`, `UpdateConfig`, `Crash`, `Start` |
| `OutagePromise` | what the monitoring half promises to the rest: three values per UPS, no clock, no file, no loop | refined by `UpsMonitor` (`KeepsPromise`) |
| `HostShutdown` | one shutdown episode of hosts | `Rearm`, `Select`, `Consider`, `StartStage`, `Answer`, `EndStage`, `EndSweep`, `Reset`, `SaveConfig`, `Restart` |
| `ClusterEpisode` | the same episode for cluster nodes | `ColdInspect`, `BeginPreparation`, `EndPreparation`, `TakeUnit`, `EndCandidates`, `Fire`, `Selftest`, `BeginCheck`/`EndCheck`, `BeginRestore` and its steps, `Crash` |
| `ClusterPrepare` | one preparation or restore inside one cluster, request by request | `Prepare`, `PostDisarm`, `SeenDisarmed`, `AskGuest`, `KillGuest`, `PutFlag`, `PostArm`, ..., `CutOff`; the cluster itself: `HaSettles`, `WorkerRuns`, `GuestStops`, `GuestStarts` |
| `SelfTest` | startup checks and scheduled, requested and manual self-tests | `BeginStartupCheck`, `ScheduledSelftest`, `RearmSelftest`, `ManualSelftest`, `HostsTested`, `UpdateConfig`, `Crash`, `Start` |
| `TargetCheck` | the pure decisions about a target | `ReadNodeSource`, `ListNodes`, `VerifyNode`, `TestConnection` of PVE and PBS, `NodeNameOk`, `IsGreen`, and the shares of a check's time |
| `ShutdownCall` | shutdown calls of several entries at once, down to the machine | the client: `Begin`, `Succeed`, `AfterRefusal`, `Raise`, `Cut`; the machines: `Accept`, `Refuse`, `Fault`, `GoDown`; `Save` in between |
| `ConfigSave` | how a list of hosts comes into force | the page: `Forms`, `NewCardId`, `Complete`; `Save`, `Import`, `Start`; the merge: `FindHost`, `Reconciled`; the id loop: `Keep`, `TryNext`, `Assign`; `Commit`, `WriteFails`, `Crash` |
| `AgentQueue` | the service and the privileged agent | `SaveConfig`, `ImportConfig`, `HandOver`, `BeginUpload`, `ReceiveChunk`, `FinishUpload`, `AbortUpload`, `LogResult`, `MarkSeen`, `CrashService`, `StartService`; `Wake`, `TakeJob`, `Unpack`, `Copy`, `Pip`, `Set`, `WriteResult`, `RemoveJob`, `Finish`, `CrashAgent` |
| `MC...` | the instances TLC checks | |
| `...Proofs` | the theorems | |

`UpsMonitor` extends `UpsTrigger` and instantiates `OutagePromise`; its readings are
those `UpsReading` produces (`ReadingsAreRead` in `MCUpsMonitor` checks that for the
runs, `SourcesKeepContract` proves what `MonitorAssumption` needs for all devices).
The other models take over where it ends: `HostShutdown` sees of a UPS only its verdict
(mains, battery, unreachable, demanding), which changes freely from poll to poll, a
superset of what `UpsMonitor` can do; `ClusterEpisode` sees only which hosts
are demanded; `ClusterPrepare` opens up the one call `EndPreparation` of
`ClusterEpisode` makes, and what it may return is what that step is given;
`ShutdownCall`, which extends `TargetCheck`, opens up the call whose outcome `Answer` of
`HostShutdown` is given, and `ConfigSave` says what lists its `SaveConfig` may bring. They
are kept apart because the state of one is never read by the next but
through that narrow value, and their product is out of TLC's reach.

Two kinds of definitions are not of the code: variables marked HISTORY, which no
guard reads and which the properties need; and operators named for a
plausible slip (`RestoreAnew`, `DemandedByAny`, ...), placed before the
definition they are a wrong form of and used by nothing but the mutants of
`PROJECT.json`.

## What TLC checks

The passing runs are exhaustive; counts are distinct states. The other one stops at the
first counterexample; see [findings](#findings).

| run | states | instance | shows |
|---|---|---|---|
| `MCUpsMonitor` | 252,460 | one UPS, four profiles, five readings, saved configurations, failed writes, crashes; fair | no demand without evidence, no countdown or demand lost, the promise is kept, a confirmed outage fires, a silence raises an alarm |
| `MCUpsMonitorCommLoss` |  | the comms-loss opt-in only | **violated**: it fires on a device that answered for part of that time |
| `MCHostShutdown` | 446,274 | one host fed by two UPS and the own one, both policies, calls that succeed, fail or raise, four configurations, resets, restarts; fair | only what is demanded is commanded, the own host after the others and their retries; nothing sent is sent again, only uninterrupted mains release it, a demand is served, an episode closes |
| `MCClusterEpisode` | 1,130,136 | two nodes and a standalone host, abort-on-failure, silent inspections, failing preparations, dry-run switched, crashes, demands without battery | held back while failed, a unit goes whole |
| `MCClusterEpisodeRequests` | 1,675,872 | two nodes, silent and refused reads; resets, restores and self-tests beside the sweep | one preparation per episode, and before its nodes go down |
| `MCClusterEpisodeLive` | 362,567 | two nodes, no abort, refused reads, manual checks; fair | a demanded host is latched or held back, a failed node taken along is settled, the episode is forgotten |
| `MCClusterPrepare` | 753,083 | three guests, two flags, four sites, five configurations, reads that fail in every phase of both calls | ok means done, the own guest is spared, the flags come anyway |
| `MCSelfTest` | 2,549,725 | two hosts, three schedules, three minutes around midnight, pairs of disturbances | a slot is tested once, requests kept, checks see the present configuration |
| `MCShutdownCall` | 398,583 | two entries calling at once, three layouts and saves between them, answers lost, late or errors over a command carried out, machines going down, attempts that outlast their share; fair | one machine per call, green entries are served, the deadline is a backstop, calls end |
| `MCConfigSave` | 3,071,536 | two machines, two names, two tabs, two submitted lists of up to two cards (four from a file), pages without ids, failed writes, crashes | ids are distinct and stay, tokens stay and are kept |
| `MCAgentQueue` | 3,312,134 | two jobs, one package name, two uploads of it at once, three settings, every fault, one death of the agent, any number of the service | settings in force, outcomes logged once, only what was checked is unpacked |
| `MCAgentQueueLive` | 350,865 | one upload at a time, failing copies and installations; fair | the service comes back, restarts follow |

Why the bounds are enough.

* *UPS.* A runtime record is a function of its own UPS's history; UPS meet
  only in `_evaluate_hosts`, which is `HostShutdown`. One UPS is thus
  the general case of every property of `UpsMonitor`, and the theorems cover all
  numbers. Ages stop at `MaxAge` = 4, above every threshold (2 and 3), the
  restore limit (3) and the comms-loss limit (2), so every comparison has both
  outcomes and order relations between all of them occur. The profiles cover each
  way a demand can arise or be refused: time with the shutdown kept on silence, time
  without plus the opt-in, charge only, no address. The five readings are the
  classes a trigger tells apart: silent, answering unusably (with
  a low battery in the unusable part), mains, battery, battery low.
* *Hosts.* Commands meet in the order of the stages, in the retries before the own host, and in
  the lists of one sweep, for which one host and the own one are enough: two ordinary hosts differ
  from each other only in their orders, and a third stage only repeats the step from the first to
  the second (`OwnHostWaitsCorrect` is proved for any number). Two UPS and both policies
  tell what one UPS demands from what both do, and let the own host come due
  while the other is not. Attempts are the code's 3. The re-arm
  delay of 2 ticks lets mains dip during it.
* *Clusters.* Two nodes of one cluster and a standalone host ranked between them
  are the least in which a unit has a node that is not demanded, a node that is
  demanded later, and a host that must not be touched. Clusters share no state but
  the lists of the sweep. The events are split over the runs, each
  naming those it includes; `PreparedOnce` and `PreparedBeforeDown` are proved with all of them at once.
* *Preparation.* Three guests: the appliance's own, one with its name, one
  ordinary; two flags, because the fallback from the bulk request to single ones is
  about which of several are left. Four sites and five configurations cover
  the gates of `_prepare_clusters`. No counters.
* *Self-test.* A day of 6 minutes and the clock from 5 to 7 cross midnight with a
  grid whose anchor is late in the day; intervals of a day and of a minute.
  Disturbances come in pairs (`Pairs`): the state space with all at once is out of
  reach, and what is known to go wrong here needs two.

* *Calls.* A call touches another only through the machines it takes down, the list of
  URLs and what it forwards, for which two entries and two machines are enough. The three
  layouts are those the manual asks for or warns of: one URL for both, with a misspelled name; the
  same URL with one of the two switched off; and the name of another node beside a backup
  server. A timeout of two ticks gives each form one.
* *Configurations.* Everything but the id loop relates two entries: one that is meant and one
  that might be taken for it. The loop meets three or more in the lists of `Written`, where one entry
  asks for the id of the next and the suffix of one name is the slug of another. Two submitted
  lists with two tabs show a stale page.
* *Agent.* Two jobs of one kind or of two are enough for an order, a repetition and a
  restart between two; a second name of a package would differ only in being absent. Two uploads
  of one name are the least that write into each other's file.

`CHECK_DEADLOCK FALSE` appears where the system really may stop: in `MCClusterPrepare`, on a
site where nothing is wanted, and in `MCAgentQueue`, after a copy that failed or was of half a package, when nothing
starts the service again. Everywhere else a deadlock would be an error and there is none.

`MCUpsMonitor` also has TLC evaluate three assumptions: the readings of the runs are
what `UpsReading` makes of real devices; a NUT status is an outage exactly if it
carries `OB`, whatever else it carries; and no MIB without a usable power source is
read as mains.

## Fairness

Liveness is checked under weak fairness of the loop's own steps, of the answers of
calls, of the clock and of the service manager's restart. The code justifies it:

* the loop's body is inside `try/except Exception` (`engine.py:703-752`) and the task
  is cancelled only by `stop`;
* every await in it is bounded: `sources.poll` by its budget plus a grace
  (`sources.py:51-76`), `targets.shutdown` and `check` by a deadline
  (`targets.py`), a preparation by `wait_for` around the whole call;
* systemd restarts the process (`Restart=always`, `deploy/pve-usv.service:14`); in
  `AgentQueue` only an installation that was written to the end starts;
* a call is cut off by `wait_for` (`targets.py:34-55`): fairness of the ticks and of the cut
  alone, none of the machines; where nothing outlasts its share, of the client's timeout;
* the agent is woken by a systemd timer for as long as there are jobs, and its
  commands end; that its copy or installation succeeds is not assumed.

Nothing is assumed of devices, clusters, disks or operators: resets, saves,
crashes, silences and failures may go on for ever, and the properties say what they
exempt in their premises.

## What TLAPS proves

Theorems hold for every value of the constants that satisfies the named assumption of
the module (`BoundsAssumption`, `MonitorAssumption`, `HostAssumption`, `ClusterAssumption`,
`PrepareAssumption`, `SelfTestAssumption`, `CallAssumption`, `ConfigAssumption` with `WordsAssumption`, `AgentAssumption`): any finite or infinite set of UPS, hosts,
guests, any configuration, any bounds. Every proof module checks with `tlapm`
to the last leaf.

**`UpsMonitorProofs`.** `FailSafe` is not inductive: a demand may rest on a timer read from the
state file. `Justified` adds that every running timer is either still held
(`restored_unconfirmed`) or belongs to an outage this process heard of, and that a
demand is the opt-in's or that of such an outage. For the opt-in
(`CommLossCorrect`), `SilenceInv` bounds the unreachable timer by the age of the last
usable answer, except while the evaluation of a fresh answer is still due, which needs
`LoopInv`. `PromiseKept` is the refinement of `OutagePromise`: one lemma per
action, each mapping to a step of the promise or to a stutter. `BeliefCorrect` is
inductive with the types alone. The two action properties rest on `DownInv` (between
the end of a process and the next start no loop runs and no runtime record holds anything), which keeps
a step of a dead process from taking a demand or a countdown away: `DemandSurvivesCorrect`
compares the runtime before and after each step that can touch it, `CountdownSurvivesCorrect` the
age of the outage as it is known, which after a crash is that of the file: hence `BeliefCorrect`. `SourcesKeepContract` is what the monitor assumes of its readings.

**`HostShutdownProofs`.** `SentIsFinal` follows from `LatchesAgree` (a record says "sent" only
behind a latch, and nothing due or in flight is latched), which is inductive only
together with `ControlInv` (which lists are empty at which point of the sweep, which
are disjoint) and `RaisedInv` (a call that raised left no record of success).
`SentIsReleasedCorrect` rests on `RearmInv`: the re-arm timer never
exceeds the time for which no poll found anything but mains. `AttemptsCorrect` rests on
`AttemptsInv`: while no call raises, a host whose attempts are used up is latched, so nobody
commands it again. `DemandInv` (every host on a list of the sweep is one that the verdicts of its
poll demanded; a reset in mid-sweep removes demands and adds none) gives
`CommandsAreDemandedCorrect`. `OwnHostWaitsCorrect` needs two more: `OrderInv` (once an own host is on a list,
no list holds another) and `TriesInv` (what still owes a second attempt is
on the list of the failed or in the stage under way).

**`ClusterEpisodeProofs`.** `TypeCorrect` needs `SweepInv` (what holds at which point of the sweep)
and `AttemptsInv` (a host with its attempts used up is latched, so the counter stays
in its range). `OncePerEpisode` adds `BegunInv`: a preparation begun while shutdowns
stay demanded is still latched. `AbortHolds` adds `StampsInv` (every node of a known or failed
cluster carries its name) and `HeldInv` (no due host is held back); it assumes
`NamesHold`, that nothing inspects clusters beside the sweep or that
every inspection reads them, because without it the property fails (see
[below](#known-disagreements-without-a-run)).

`PreparedFirst` says that no node goes down before the preparation of its cluster ended, or was
announced by a dry run, and assumes nothing of reads, requests or events. A node is exempt only if
it told an inspection of this very sweep no membership (`unheard`), because that is how the code comes to command
it, or if it was settled before; that others were silent exempts nobody. What the exemption leaves
out is `UnpreparedIsHeld`, a [known disagreement](#known-disagreements-without-a-run). Its
invariant `PrepInv` follows a due host through the sweep: it is still a candidate, or its cluster is
handled, or it told nothing (`DueInv`, `UnheardInv`); while a preparation runs, every candidate left will have its turn
(`TurnInv`); a latch stands for a preparation that ended, was announced or is under way (`LatchInv`).
That the sweep leaves no cluster out takes the foremost candidate of each, which exists because ranks are
natural numbers: finiteness of the set of hosts is not assumed. `UnitsGoTogether` says that a
prepared unit goes down whole (`WholeInv`). Without abort-on-failure it assumes nothing and rests on
`FreeInv`: a sweep that finds a host due commands one, so no preparation outlives the sweep
unnoticed. With abort-on-failure a node may be held back while others go, and `GuardedInv` excludes it: no node is commanded
before its cluster is latched as prepared, and none after a failed preparation; `SeenInv` says that a node that told
nothing is held back or belongs to a prepared cluster.
For that case `UnitsGoTogether` assumes `AbortIsRemembered`: no read is refused, nothing takes a name away
(`NamesHold`) and nothing clears a failed preparation. Each
is needed: when one of them is given up, TLC finds the property violated, and the
[table](#known-disagreements-without-a-run) says how. `MCClusterEpisode` satisfies them all.

**`ClusterPrepareProofs`.** One invariant for five theorems: `StageInv` (which call is at which
stage), `PlanInv` (the plan follows from settings and inspection), `TargetInv` (the targets
are the plan's, and HA has let go of them), `DoneInv` (what the steps that went well have
established), `ArmInv` (the same for a restore). None of them assumes that anything can be read.
What an unreadable status costs is in the properties: `HaLetsGo` and the guests of
`PreparedIsPrepared` speak of an HA manager that the inspection saw to manage guests (`HaWasSeen`), and
`RestoredIsRestored` exempts of a restore what this restore itself could not read (`unseen`), that
and nothing else: the flags are confirmed although HA was unreadable, and the other way round. Without the
exemption it is `RestoreIsConfirmed`, a known disagreement.

**`SelfTestProofs`.** `StageInv` (which run is where), `SlotInv` (the slot last tested is in the file and
in memory), `ChecksInv` (a check that counts as made saw the configuration or is looking),
`GreenInv` (after a routine line of today the next waits for a failure). `SlotIsGridPointCorrect` is
arithmetic: remainders by a variable are out of the solver's reach, so the lemmas of "The grid" reduce them
to quotients and products by hand (two points of the grid lie a multiple of the interval
apart, and a multiple smaller than the interval is none); it holds for every day
length and every interval that divides it.

**`ShutdownCallProofs`.** `HitInv` ties the machines a call has hit to the form its request
has, to whether it was accepted and to whether an error was answered over it (`masked`), which gives
`OneMachineCorrect`; the exemption it states, a masked command of an entry that names another machine than
the one behind its URL, is the known disagreement `RefusedDidNothing`; `RefusalInv` says that
without an excuse what was refused is barred for good, the first form before the
second, so that `GreenIsServedCorrect` is a matter of the two forms of a passing entry;
`TimeInv` bounds the time spent by the shares (`BackstopCorrect`). `ChecksFit` is the
arithmetic of a credential check, from a timeout of three seconds on.

**`ConfigSaveProofs`.** `LoopInv`: the ids behind the loop are distinct and are those recorded as used.
`GivenInv`: no id the list came with is ever handed out to another entry. Together they
give `KeysAreUniqueCorrect` and `FirstHolderCorrect`, for lists of any length. The three theorems on a
timely save (`IdsStayCorrect`, `TokensStayCorrect`, `TokensAreKeptCorrect`) rest on `SaveInv`: while the ids of a
save are being assigned, every entry of the list is explained by the list in force, as the same machine under
the same id with the token it had, or as new; `DraftInv` says that the loop changes nothing but ids. `SaveInv` starts
with what the page sends, and the recursive function that removes the deleted cards from it (`Left`) is unrolled without an induction
theorem: if it went wrong there would be a first card at which it does, by `Smallest`, and it is right
up to the one before. That `newCardId` finds an id no card has is the pigeonhole principle. That the loop ends
for every list is not stated: the suffixes it tries are infinitely many and the ids finitely many.

**`AgentQueueProofs`.** `QueueInv` and `OrderInv`: the agent's list is the oldest part of the queue, by the
order of the stamps. `SettingInv`: the newest job of a setting carries the configured value, and
without a job that value is in force. `SeenInv`: what was logged is marked or about to
be, and nothing older than the mark is still queued. `PackageInv`: the file a queued update
refers to holds what was checked for it or is gone, unless it was written to since; for any number of
uploads at once, and with no hypothesis. `SettingsInForceCorrect` and `ReportedOnceCorrect` assume
a clock that does not step back (`~ClockSteps`); without it the properties fail ([below](#known-disagreements-without-a-run)).

Not run, because the theorem says it for every instance: every `TypeOK`, `LatchesAgree`,
`BelievedFileIsFile`, `HaLetsGo`, `OkLinesFollowFailures`, `AttemptsAreBounded`,
`FirstHolderKeeps`, `SlotIsGridPoint`.

Only model-checked: the liveness properties (`ConfirmedOutageFires`, `UnreachableRaisesAlarm`,
`DemandIsServed`, `EpisodeClosesUnlessStranded`, `TakenAlongIsSettled`, `EpisodeIsForgotten`,
`ServiceComesBack`, `RestartFollows`, `CallsEnd`), because TLAPS has no support for fairness. Every
invariant and every safety action property of the passing runs has a theorem; the others are
those that the code violates.

## Findings

One run ends in a counterexample, of a property that a document of the repository states.

`MCUpsMonitorCommLoss`: the comms-loss opt-in (`engine.py:1419`) measures the time
without a *usable* answer and asks only the current poll to be silent. A
device that answered, unusably, while that time passed and misses one poll shuts its
hosts down; README.md:316-318 promises silence only.

### Known disagreements without a run

Stated as properties or as values of a constant, so that each can be reproduced by
changing a line or two of a `.cfg`, unless the row says otherwise. The first four are
exactly what the exemptions of `PreparedBeforeDown`, `RestoredIsRestored`, `OneMachinePerCall` and
`OnlyCheckedIsUnpacked` leave out:

| what | how to see it |
|---|---|
| A node whose API is dead or refuses every read is filed as reachable and without a cluster, hence standalone (`cluster.py:299-315, 661`, `engine.py:2192-2200`), and goes down unprepared even with abort-on-failure; tests/test_basic.py:7166 expects that setting to "hold a cluster nobody could inspect", and `engine.py:1084` says "Prepare each affected cluster exactly once, BEFORE the first node of it goes down" | `UnpreparedIsHeld` in `MCClusterEpisode.cfg` with `Reads = {"read", "refused"}` and `Events = {}`; `UnitGoesTogether` fails there too |
| A restore undoes what its own reads show, and a read that fails shows nothing (`cluster.py:1290-1315, 1110-1117, 815-823`): it writes nothing and reports success over a cluster still prepared. Its docstring, `cluster.py:1319`, promises to arm HA and clear the flags, and `cluster.py:922-923` that a write is confirmed by a read or not at all | `RestoreIsConfirmed` in `MCClusterPrepare.cfg` |
| Every status but 200 and 201 is followed by the other form of the path (`proxmox.py:264-277`), also an error of the machine that forwards, over a command that the named node has accepted. With one URL for two entries the second form is `localhost`, and the forwarding machine goes down too. `proxmox.py:245-247` has it that a refused call did nothing, CHANGELOG.md:937-938 that the second form "can only run where the shutdown had already failed" | `RefusedDidNothing` in `MCShutdownCall.cfg` |
| Uploads are received straight into the file of their name (`main.py:1226-1250`), which a queued job may name or another request may be receiving; the agent then unpacks half of it, or something else. `main.py:200-203` says that a broken or unrelated upload never reaches the root path at all | `BrokenNeverReachesRoot` in `MCAgentQueue.cfg` |
| A host disabled between two failed attempts keeps its failed record, which nothing clears, and the appliance shows `SHUTTING_DOWN` for ever (`engine.py:1524, 428-430`, `config.py:979-982`); CHANGELOG.md:383 says such an outage closes the episode | `EpisodeCloses` in `MCHostShutdown.cfg` |
| A restored timer is held for as long as the device is silent, so an outage blind from the restart on is never acted on (`engine.py:1401`; comment 45-47) | add `KnownOutageFires` to `MCUpsMonitor.cfg` |
| After a restart a machine already going down is commanded again (`engine.py:530` stores no latch; README.md:331) | `NeverCommandedTwice` in `MCHostShutdown.cfg` |
| The own host is last within a sweep, not across polls: another UPS may trigger after it went down (`engine.py:1094`; README.md:336) | `OwnHostIsLast` in `MCHostShutdown.cfg` |
| A self-test's inspection during a sweep takes the name off a node whose cluster's preparation failed, and abort-on-failure no longer holds it (`engine.py:2459`) | `Events = {"selftest"}` in `MCClusterEpisode.cfg`, `HeldBackStays` or `UnitGoesTogether` |
| A reset, a re-check or a restore in mid-outage that falls together with clusters that do not answer makes the engine forget what it knew of a node, which then goes down unprepared although abort-on-failure is set, or apart from its unit (`engine.py:691-700, 2715-2784`); `engine.py:1084`, as in the first row | `UnpreparedIsHeld` or `UnitGoesTogether` in `MCClusterEpisode.cfg` with `Events` of `"reset"`, `"check"` or `"restore"` alone |
| A restore checks for an outage only before its awaits; the engine may prepare meanwhile and the restore undoes it (`engine.py:2715-2728`) | `StillPrepared` in `MCClusterEpisode.cfg` with `Events = {"restore"}` |
| Leaving dry-run in mid-outage: the dry run's latch counts as a preparation (`engine.py:2227`) | `UnpreparedIsHeld` in `MCClusterEpisode.cfg` with `Events = {"dry"}` |
| An HA configuration that cannot be read counts as empty, and guests HA manages are stopped under it (`engine.py:2265`, `cluster.py:597-601`) | why `HaLetsGo` and `PreparedIsPrepared` exempt `~HaWasSeen` |
| One host that fails at every self-test makes every other host's green line appear at every run (`engine.py:2038-2060`; comment 2034-2037, CHANGELOG.md:1134), also with `selftest_log_ok` off (config.py:751-757) | `OkLinesAreDaily` with `Scenarios <- {{}}` in `MCSelfTest.cfg` |
| A manual self-test overtaken by a save settles a startup check of the new configuration with the answers of the old | `ChecksSeeTheConfig` without its `"late"` |
| Moving `selftest_hour` to a later hour that is already past, after the day's slot has run, starts a test at once; the docstring of `update_config` says the next slot | by the definition of `SelftestSlot` |
| A NUT server that publishes a charge, load or runtime of `nan` or `inf` raises in `_apply_variables` (`nut.py:273-283`), outside `poll`'s `try`; `sources.poll` files the answering device as silent, which arms the comms-loss opt-in; `nut.poll` says it never raises and that an answer is not silence (`nut.py:322-342`) | `SourcePoll` of a `Server` with `charge` `NotFinite` is `Silence` |
| The second form of a shutdown call is not tried after an exception: a first form that hangs uses up its share and the call fails (`proxmox.py:278`), although the share is there for the second (`proxmox.py:244, 256-262`, tests/test_basic.py:5841-5848, CHANGELOG.md:935). That silence is not retried is also why a lost answer never takes two machines down | `FallbackIsReachable` as the invariant of `MCShutdownCall.cfg` |
| With one URL for two entries, a name that fails is retried as `localhost` and the machine behind the URL goes down (`engine.py:3251-3253`, CHANGELOG.md:941-943); with its own URL, the name of another member and a token for that name, the second form takes the other machine down; switching one of two entries off changes the address of the other (`engine.py:1745-1748`). All on one machine per call, and warned of in README.md:175-178 | in the layouts `MCShared`, `MCCrossed` and `MCAlone` of `MCShutdownCall` |
| After a step back of the wall clock, which the NTP job itself may cause, a newer job sorts before an older one: the older value is the last one set, and an outcome is logged twice (`main.py:126`, `agent.sh:221`) | `ClockSteps = TRUE` in `MCAgentQueue.cfg`, `SettingsInForce`, `ReportedOnce` |
| A setting whose file the agent could not write is reported as set, and left as it was or empty (`agent.sh:184-193, 204-209`) | why `SettingsInForce` exempts `unwritten` |
| An upload that overwrites the only copy of a package after the agent died in the middle of copying it leaves the service down for good (`main.py:1246`, `agent.sh:132-134`); half of an uncompressed archive may be unpacked without an error and installed as it is | why `ServiceComesBack` exempts `broken`; `Unpackable` |
| A setting that could not be handed over is not handed over by saving the same value again (`main.py:583`) | why `SettingsInForce` exempts `lost` |
| Of two jobs done in one run of the agent only the last outcome is ever logged (`main.py:232`, `agent.sh:52-67`); an import always makes two | `ReportedOnce` promises at most one |
| A copy that fails leaves the application directory cut and nothing repairs it (`agent.sh:133-156`); an agent that dies between its last job and the restart loses the restart; a repeated update whose package is already gone is reported as not found | why `ServiceComesBack` and `RestartFollows` exempt `broken` and a death |
| A new card that is switched off is not checked for a token, and an entry that sends an id the service does not know is still looked up by product and name (`main.py:479-490`): it gets the token of a machine just removed or renamed, and can be switched on later. `app.js:583-590` says that case is closed by `incompleteCards()` (`app.js:1753-1783`; CHANGELOG.md:481) | `TokensStay` without its `~hosts'[j].on` |
| From a stale tab, a new card may get an id another tab has given out meanwhile, with its token, and a card deleted elsewhere comes back switched on and without its token (`app.js:583-590` accepts the former) | `IdsStay` and `TokensStay` without `timely` |

## Modelling decisions

General. Texts, event wording, e-mails, labels and layout are left out. A step of a
model is what the code does between two awaits, or a run of such pieces that
nothing else can observe or disturb; each module's header says which.

* **Time** in `UpsMonitor`: a timestamp is its age, in ticks; the code only subtracts
  timestamps from now. The clock moves forward by one tick while the loop waits and never
  backwards; a stepped wall clock is not modelled there (it is in `SelfTest`, where it decides
  the slot).
* **`Evaluate`** is one step per UPS although `_evaluate_ups` awaits notifications: a reset or
  save that comes in the middle of it leaves what one just before or just after leaves.
* **`HostShutdown`**: requests may come between any two steps. `ONLINE` stands for
  `ON_BATTERY` too. The order, the feeds and the re-arm delay are constants; the list of hosts,
  which of them are enabled, and dry-run change with a save. Hosts here are not cluster members. A call that raises is what
  `_fire_stage` guards against structurally, `return_exceptions`, whether or not a target
  raises today. Mains that dip and return between two polls are not seen, as in the code.
* **`ClusterEpisode`**: `Select` is one step, `Fire` one atomic call per host (interleavings
  inside a stage are `HostShutdown`'s). What is demanded is chosen anew at each poll;
  a demand without a battery needs `"blind"`. `"selftest"` is an inspection in the loop,
  `"check"` a manual one beside the sweep. A reset in mid-sweep clears the latches
  but not the hosts already due, so the commands that follow
  rest on what the sweep itself found: `PreparedBeforeDown` is checked and proved with resets, `HeldBackStays` proved with them (`AbortHolds`). A restore skips a cluster whose name no host
  carries any more; the order of the others is free.
* **`ClusterPrepare`**: time is not counted; every wait may end early and `wait_for` may cut
  the call off at any request. An error answer may hide a request that was carried out. A read may fail
  if its phase is in `Unread`, which in the runs holds every phase. Calls follow one another, and the worker of one is done before the
  next. Users start guests between calls only; HA may start its own at any moment. A
  guest's node is folded into the guest; templates are left out. `PreparedIsPrepared` speaks of the
  guests listed by the inspection: one started after it is not stopped, and nothing promises that.
* **`SelfTest`**: hosts are symmetric, the lines of one of them are counted. One manual test at a
  time. What is emitted between the record and the inspection of a run is one step.
  `outage` is what the last evaluation found.
* **`UpsReading`**: a read is one function of what the device would answer, negative numbers
  included. Identities and the raw evidence are left out; the output load only matters where it is not finite,
  because that raises.
* **`TargetCheck`**: an answer is a set of entries or none; what a status code means is in
  `TestConnection`. Time is in sixths of a second so that the shares are whole numbers.
* **`ShutdownCall`**: how often a call is repeated is `HostShutdown`'s matter. A late request of an
  earlier call of the same entry is dropped when its next call begins. The machines are nodes of one cluster,
  which names them as the entries do; a forwarded request needs both machines. An error may be answered before a command is carried out or after. A timeout of `httpx` is
  per operation, which is why an attempt may outlast its share (`Overruns`). Configurations are the three
  layouts; a save from one to another may come between any two steps.
* **`ConfigSave`**: a card stands for one machine, which stands for its address: the URL of a
  card is not edited. One edit per card and visit, one new card. A request is worked off
  without an await, so requests do not interleave; what may come between its steps is the death of
  the process. Only the token secret is a secret here. UPS sources and webhooks take the same way
  without the fallback to names.
* **`AgentQueue`**: a job file is written aside and renamed, so it is whole. The stamp of a job is its place in
  the order of names. Uploads run side by side, up to `MaxUploads` of one name; a file that is
  being received or was left behind in the middle is `Cut`, whatever it holds, and what a finished upload is found
  to hold is chosen freely. A setting the agent cannot write stays or is emptied. `result.json` is emptied before it is written. systemd runs one agent at a time. The
  file `last_job`, which only the update page shows, is left out. The death of either process is a step;
  the service may die at any time and any number of times, the agent up to `MaxCrashes`.

## What is not modelled

* The probe of the UPS test button, secret masking, the event log, the web UI, mail and webhook
  transport, TLS and authentication: no decision reads them.
* HTTP, SNMP and NUT as protocols: I/O; their outcomes are inputs.
* The reads of `inspect` (its results are inputs of `ClusterEpisode` and
  `ClusterPrepare`) and the shares of the time budget of a preparation: planned.
* Validation of single fields, repairs on load and the migration of old formats in `config.py`: each is a
  function of one file read once, with tests of its own.
* The delivery record of webhooks: shown on a page, never read by a decision. Sessions, sign-in, and the test
  buttons of the web API, which run the checks of `TargetCheck` and `UpsReading` and keep nothing.
* A wall clock that steps while an outage is timed, and a stored timer of an outage that ended while the
  appliance was off: `UpsMonitor` has one clock and no mains behind the device.
* Installation and release scripts: run once, by hand.

## Plan

Done, in this order, the most important first: the monitoring half, the host
sweep, the cluster episode, the preparation, the self-test, the readings, the shutdown
calls and credential checks, the update agent, the way of a configuration into force.

1. **`PrepareBudget`** (`cluster.py:735-775, 1205-1222`): how a preparation's budget is shared
   between HA, guests and flags; that the guest step ends early enough for the flags to be written
   before the cut-off. Arithmetic over small budgets, and a theorem that the shares never exceed it.
2. **Inspection** (`cluster.py:339-508, 569-620, 650-700`): the reads as pure operators from cluster
   answers to a `ClusterState`; `ClusterPrepare` and `ClusterEpisode` then take their inputs from it.
3. **Pure algorithms** against reference definitions: validation and migration, `ordered_hosts`, the order of
   Ceph monitors, the shutdown budget.
4. **Composition**: `HostShutdown` against an abstract episode (commanded, done, released), with the
   verdicts of `UpsMonitor` in place of free ones; `ShutdownCall` under its `Answer`.
5. **Proofs**: the budget theorem of 1, and what 4 makes of `HostShutdown`: that it refines its abstract
   episode.
