------------------------------ MODULE SelfTest ------------------------------
(***************************************************************************)
(* The housekeeping of app/engine.py: the two checks made once per process *)
(* start and per saved configuration, the self-test on its wall-clock      *)
(* grid, the one a re-arm asks for and the one the operator asks for, the  *)
(* latch of the grid in the state file, and the lines in the event log.    *)
(*                                                                         *)
(* One iteration of _loop is Evaluate, the two startup checks and the      *)
(* scheduled self-test; each awaits the network, so saves, manual tests,   *)
(* the clock and the end of the process come in between.  Whether an       *)
(* outage is in progress is what Evaluate found, nothing else (modules     *)
(* UpsMonitor and HostShutdown).                                           *)
(***************************************************************************)
EXTENDS Integers

CONSTANTS
  Hosts,       \* the shutdown targets
  Watched,     \* one of them, whose lines in the event log are counted
  DayLength,   \* minutes in a day: 1440
  Schedules,   \* the schedules an operator may save
  Clock,       \* BOUND: the minutes the clock shows
  Scenarios,   \* BOUND: what may disturb one behaviour: sets of "clock", set
               \* back; "crash"; "manual", a self-test; "outage"; "save", of a
               \* configuration
  None

ASSUME SelfTestAssumption ==
  /\ Watched \in Hosts
  /\ DayLength \in Nat \ {0} /\ Clock \subseteq Nat
  /\ None \notin Int
  /\ \A e \in Scenarios : e \subseteq {"clock", "crash", "manual", "outage", "save"}
  \* What the validators of config.py leave: an hour of the day, and an interval
  \* that divides it.
  /\ \A s \in Schedules : /\ s.enabled \in BOOLEAN /\ s.log_ok \in BOOLEAN
                          /\ s.anchor \in 0 .. DayLength - 1
                          /\ s.interval \in 1 .. DayLength
                          /\ DayLength % s.interval = 0

Checks == {"cluster", "node"}   \* the two checks made at every start
Runs == {"loop", "manual"}      \* the self-test of the loop, and the operator's

VARIABLES
  events,     \* which scenario this is
  now,        \* EXTERNAL: the local wall clock, in minutes
  up,         \* the process runs
  cfg,        \* selftest_enabled, _hour, _interval_min and _log_ok
  outage,     \* _outage_in_progress
  last_selftest_slot,
  last_selftest_ok,
  last_selftest_ok_logged,
  file,       \* selftest_slot and selftest_ok in engine-state.json
  pending,    \* _rearm_selftest_pending
  done,       \* the startup checks made: _cluster_startup_done, _node_startup_done
  seen,       \* HISTORY: which configuration each check last looked at: the
              \* "present", a "past" one, or one a manual self-test was "late" with
  pc,         \* where the loop is
  test,       \* each self-test that runs
  tested,     \* HISTORY: the slot last tested, as far as the file can know
  green,      \* HISTORY: routine "ok" lines of Watched on the last day with one
  failing     \* HISTORY: a self-test failed since the first of them

latch == <<last_selftest_slot, file, tested>>
record == <<last_selftest_ok, last_selftest_ok_logged, green, failing>>
vars == <<events, now, up, cfg, outage, latch, record, pending, done, seen, pc, test>>

-----------------------------------------------------------------------------
\* MUTANT of SelftestSlot: the anchor is the hour of the first run of a day.
SlotOfDay(at, s) == at - ((at % DayLength) - s.anchor)

\* selftest_slot: the start of the slot that a clock reading falls into.
SelftestSlot(at, s) == at - (((at % DayLength) - s.anchor) % s.interval)

Slot == SelftestSlot(now, cfg)
Today == now \div DayLength

\* HISTORY: past, whether a configuration was saved since it last began to look.
Test(at, force, past) == [at |-> at, force |-> force, past |-> past]
NoTest == Test("none", FALSE, FALSE)
Fresh(force) == Test("hosts", force, FALSE)

Nothing == [c \in Checks |-> "past"]
Found(r) == IF ~test[r].past THEN "present" ELSE IF r = "loop" THEN "past" ELSE "late"

\* The self-test part of what _persist_state writes.
Outcome == [slot |-> last_selftest_slot, ok |-> last_selftest_ok]

Init ==
  /\ events \in Scenarios
  /\ now \in Clock /\ up = TRUE
  /\ cfg \in Schedules
  /\ outage = FALSE
  /\ last_selftest_slot = None
  /\ last_selftest_ok = "none" /\ last_selftest_ok_logged = None
  /\ file = [slot |-> None, ok |-> "none"]
  /\ pending = FALSE /\ done = {} /\ seen = Nothing
  /\ pc = "wait"
  /\ test = [r \in Runs |-> NoTest]
  /\ tested = None
  /\ green = [day |-> None, lines |-> 0] /\ failing = FALSE

Tick ==
  /\ now' = now + 1 /\ now' \in Clock
  /\ UNCHANGED <<events, up, cfg, outage, latch, record, pending, done, seen, pc, test>>

\* EXTERNAL: an NTP correction, or another time zone.
SetBack ==
  /\ "clock" \in events
  /\ now' \in {t \in Clock : t < now}
  /\ tested' = None
  /\ green' = [day |-> None, lines |-> 0] /\ failing' = FALSE
  /\ UNCHANGED <<events, up, cfg, outage, last_selftest_slot, file, last_selftest_ok,
                 last_selftest_ok_logged, pending, done, seen, pc, test>>

-----------------------------------------------------------------------------
\* Polls, _evaluate with its re-arm, and _persist_state at its end.
Evaluate ==
  /\ up /\ pc = "wait"
  /\ pc' = "cluster"
  /\ \/ outage' \in {FALSE, "outage" \in events} /\ UNCHANGED pending
     \/ outage /\ outage' = FALSE /\ pending' = TRUE
  /\ file' \in {file, Outcome}
  /\ UNCHANGED <<events, now, up, cfg, last_selftest_slot, tested, record, done, seen, test>>

\* The check after check c in the loop.
After(c) == IF c = "cluster" THEN "node" ELSE "selftest"

\* _maybe_cluster_startup_check and _maybe_node_startup_check; their latch is set
\* before they await anything.
BeginStartupCheck(c) ==
  /\ pc = c /\ test["loop"].at = "none"
  /\ IF c \in done \/ outage
     THEN pc' = After(c) /\ UNCHANGED <<done, test>>
     ELSE /\ done' = done \cup {c}
          /\ test' = [test EXCEPT !["loop"] = Test("checking", FALSE, FALSE)]
          /\ UNCHANGED pc
  /\ UNCHANGED <<events, now, up, cfg, outage, latch, record, pending, seen>>

EndStartupCheck(c) ==
  /\ pc = c /\ test["loop"].at = "checking"
  /\ pc' = After(c)
  /\ seen' = [seen EXCEPT ![c] = Found("loop")]
  /\ test' = [test EXCEPT !["loop"] = NoTest]
  /\ UNCHANGED <<events, now, up, cfg, outage, latch, record, pending, done>>

-----------------------------------------------------------------------------
\* Only a slot after the latched one is run.
SlotIsDue == last_selftest_slot # None => Slot > last_selftest_slot

\* MUTANT of MaySelftest: a queued test is taken off the queue in any case.
MaySelftestWhenQueued == cfg.enabled /\ (~outage \/ pending)

MaySelftest == cfg.enabled /\ ~outage

\* _maybe_selftest has nothing to do.
SkipSelftest ==
  /\ pc = "selftest"
  /\ ~MaySelftest \/ (~pending /\ ~SlotIsDue)
  /\ pc' = "wait"
  /\ UNCHANGED <<events, now, up, cfg, outage, latch, record, pending, done, seen, test>>

\* The run a re-arm asked for, off schedule.
RearmSelftest ==
  /\ pc = "selftest"
  /\ MaySelftest /\ pending
  /\ pending' = FALSE
  /\ pc' = "testing"
  /\ test' = [test EXCEPT !["loop"] = Fresh(TRUE)]
  /\ UNCHANGED <<events, now, up, cfg, outage, latch, record, done, seen>>

\* MUTANT of LatchSlot: the latch is written when the state next changes.
LatchInMemory(written) ==
  /\ last_selftest_slot' = Slot
  /\ UNCHANGED file

\* Latched, and written before the test runs, if the disk allows.
LatchSlot(written) ==
  /\ last_selftest_slot' = Slot
  /\ file' = IF written THEN [slot |-> Slot, ok |-> last_selftest_ok] ELSE file

ScheduledSelftest ==
  /\ pc = "selftest"
  /\ MaySelftest /\ ~pending /\ SlotIsDue
  /\ \E written \in BOOLEAN : /\ LatchSlot(written)
                              /\ tested' = IF written THEN Slot ELSE None
  /\ pc' = "testing"
  /\ test' = [test EXCEPT !["loop"] = Fresh(FALSE)]
  /\ UNCHANGED <<events, now, up, cfg, outage, record, pending, done, seen>>

\* The operator's run_selftest_now.
ManualSelftest ==
  /\ "manual" \in events
  /\ up /\ test["manual"].at = "none"
  /\ ~outage
  /\ test' = [test EXCEPT !["manual"] = Fresh(TRUE)]
  /\ UNCHANGED <<events, now, up, cfg, outage, latch, record, pending, done, seen, pc>>

-----------------------------------------------------------------------------
\* log_daily
LogDaily(r) ==
  test[r].force \/ last_selftest_ok = "failed" \/ last_selftest_ok_logged # Today

\* log_ok
LogOk(r) ==
  \/ test[r].force \/ last_selftest_ok = "failed"
  \/ LogDaily(r) /\ cfg.log_ok

\* A host's green line is routine unless it was asked for, or closes a failure.
Routine(r, good) ==
  ~test[r].force /\ ~(last_selftest_ok = "failed" /\ good = Hosts)

\* One more routine line of today, counted up to 2.
OneMore == [day |-> Today, lines |-> IF green.day = Today THEN 2 ELSE 1]
Written(r, good) ==
  IF Watched \in good /\ LogOk(r) /\ Routine(r, good) THEN OneMore ELSE green

\* A self-test takes its result down and goes on to _check_clusters, which inspects
\* the clusters configured by now.
TakeDown(r, ok) ==
  /\ last_selftest_ok' = IF ok THEN "ok" ELSE "failed"
  /\ last_selftest_ok_logged' = IF ok THEN Today ELSE last_selftest_ok_logged
  /\ test' = [test EXCEPT ![r] = Test("inspecting", test[r].force, FALSE)]

\* The gathered answers of run r are back: one line in the log for each host.  A
\* failure is also sent out, which is awaited before the result is taken down.
HostsTested(r, good) ==
  /\ test[r].at = "hosts"
  /\ green' = Written(r, good)
  /\ failing' = IF green' = green THEN failing ELSE failing /\ green'.lines = 2
  /\ IF good = Hosts
     THEN TakeDown(r, TRUE)
     ELSE /\ test' = [test EXCEPT ![r] = Test("failing", test[r].force, test[r].past)]
          /\ UNCHANGED <<last_selftest_ok, last_selftest_ok_logged>>
  /\ UNCHANGED <<events, now, up, cfg, outage, latch, pending, done, seen, pc>>

\* The failures were sent out.
FailuresSent(r) ==
  /\ test[r].at = "failing"
  /\ TakeDown(r, FALSE)
  /\ failing' = TRUE
  /\ UNCHANGED <<events, now, up, cfg, outage, latch, green, pending, done, seen, pc>>

\* What it found replaces what was known, and the run is over.
EndClusters(r) ==
  /\ test[r].at = "inspecting"
  /\ seen' = [seen EXCEPT !["cluster"] = Found(r)]
  /\ test' = [test EXCEPT ![r] = NoTest]
  /\ pc' = IF r = "loop" THEN "wait" ELSE pc
  /\ UNCHANGED <<events, now, up, cfg, outage, latch, record, pending, done>>

-----------------------------------------------------------------------------
\* MUTANT of RepeatChecks: a saved configuration is not looked at again.
RepeatNode == done' = done \ {"node"}

\* The startup checks are made once more for a saved configuration.
RepeatChecks == done' = {}

\* The operator saves a configuration: update_config.  The latch of the self-test
\* is kept; a UPS that is gone may end an outage.
UpdateConfig(s) ==
  /\ "save" \in events
  /\ up
  /\ cfg' = s
  /\ RepeatChecks
  /\ seen' = [c \in Checks |-> IF seen[c] = "late" THEN "late" ELSE "past"]
  /\ test' = [r \in Runs |-> Test(test[r].at, test[r].force, test[r].at # "none")]
  /\ outage' \in {outage, FALSE}
  /\ UNCHANGED <<events, now, up, latch, record, pending, pc>>

\* "Reset state" ends an episode, and with it an outage that is over.
Reset ==
  /\ up /\ outage /\ outage' = FALSE
  /\ UNCHANGED <<events, now, up, cfg, latch, record, pending, done, seen, pc, test>>

\* The process ends, whatever awaits.
Crash ==
  /\ "crash" \in events
  /\ up /\ up' = FALSE
  /\ outage' = FALSE /\ pending' = FALSE
  /\ last_selftest_slot' = None
  /\ last_selftest_ok' = "none" /\ last_selftest_ok_logged' = None
  /\ green' = [day |-> None, lines |-> 0] /\ failing' = FALSE
  /\ done' = {} /\ seen' = Nothing
  /\ pc' = "wait" /\ test' = [r \in Runs |-> NoTest]
  /\ UNCHANGED <<events, now, cfg, file, tested>>

\* _restore_selftest_slot: a slot ahead of the clock is dropped.
Restored ==
  IF file.slot # None /\ file.slot <= now + 1 THEN file.slot ELSE None

\* Engine.__init__ with the state file.
Start ==
  /\ ~up /\ up' = TRUE
  /\ last_selftest_slot' = Restored
  /\ last_selftest_ok' = file.ok
  /\ UNCHANGED <<events, now, cfg, outage, file, tested, last_selftest_ok_logged, green,
                 failing, pending, done, seen, pc, test>>

Next ==
  \/ Tick \/ SetBack
  \/ Evaluate
  \/ \E c \in Checks : BeginStartupCheck(c) \/ EndStartupCheck(c)
  \/ SkipSelftest \/ RearmSelftest \/ ScheduledSelftest \/ ManualSelftest
  \/ \E r \in Runs : \/ \E good \in SUBSET Hosts : HostsTested(r, good)
                     \/ FailuresSent(r) \/ EndClusters(r)
  \/ \E s \in Schedules : UpdateConfig(s)
  \/ Reset
  \/ Crash
  \/ Start

Spec == Init /\ [][Next]_vars

-----------------------------------------------------------------------------
(***************************************************************************)
(* Properties                                                              *)
(***************************************************************************)

\* The slots that may have begun.
Slots == {t - age : t \in Clock, age \in 0 .. DayLength - 1}

\* Every variable has its type.
TypeOK ==
  /\ events \in Scenarios
  /\ now \in Clock /\ up \in BOOLEAN
  /\ cfg \in Schedules
  /\ outage \in BOOLEAN
  /\ last_selftest_slot \in Slots \cup {None}
  /\ last_selftest_ok \in {"none", "ok", "failed"}
  /\ last_selftest_ok_logged \in Int \cup {None}
  /\ file \in [slot : Slots \cup {None}, ok : {"none", "ok", "failed"}]
  /\ pending \in BOOLEAN /\ done \subseteq Checks
  /\ seen \in [Checks -> {"present", "past", "late"}]
  /\ pc \in {"wait", "cluster", "node", "selftest", "testing"}
  /\ test \in [Runs -> [at : {"none", "checking", "hosts", "failing", "inspecting"},
                        force : BOOLEAN, past : BOOLEAN]]
  /\ tested \in Slots \cup {None}
  /\ green \in [day : Int \cup {None}, lines : 0 .. 2]
  /\ failing \in BOOLEAN

\* selftest_slot: the slot is the last point of the daily grid not after now, on
\* every day and across midnight (test_basic.py:3269, 3286).
SlotIsGridPoint ==
  \A anchor \in 0 .. DayLength - 1, interval \in {i \in 1 .. DayLength : DayLength % i = 0} :
    LET slot == SelftestSlot(now, [anchor |-> anchor, interval |-> interval])
        grid == {t \in now - DayLength .. now : (t - anchor) % interval = 0}
    IN slot \in grid /\ \A t \in grid : t <= slot

\* CHANGELOG.md:1132 "a service restart no longer re-triggers the test", and the
\* comment of _maybe_selftest: no restart loop hammers the API.  A slot is tested
\* once, and none before it, whatever is saved and however often the process
\* dies, unless the write of the latch failed or the clock was set back.
SlotRunsOnce ==
  [][ScheduledSelftest /\ tested # None => last_selftest_slot' > tested]_vars

\* CHANGELOG.md:869 of the test a re-arm asks for: it "waits out a new outage
\* instead of being lost to it".  It leaves the queue by being run, and never in
\* an outage, or with the process.
RearmTestIsKept ==
  [][pending /\ ~pending' =>
       ~up' \/ (~outage /\ cfg.enabled /\ test'["loop"].force)]_vars

\* The comments in update_config: what a saved configuration raises is looked at on
\* the next poll.  A startup check that counts as made has looked at the present
\* configuration, or is just looking; only a manual self-test that was overtaken
\* by a save may overwrite that.
ChecksSeeTheConfig ==
  \A c \in done :
    \/ seen[c] \in {"present", "late"}
    \/ pc = c /\ test["loop"].at = "checking" /\ ~test["loop"].past

\* CHANGELOG.md:1134: a green line is written once a day plus on a recovery.  A
\* second routine line of a host on one day means that a self-test failed in
\* between, unless the clock was set back.
OkLinesFollowFailures == green.lines > 1 => failing

\* The comment of _run_selftest, "one per day, plus whenever the test recovers from
\* a failure": no host gets more than one routine line on a day.
OkLinesAreDaily == green.lines <= 1

=============================================================================
