--------------------------- MODULE ClusterEpisode ---------------------------
(***************************************************************************)
(* How app/engine.py takes Proxmox clusters through a shutdown episode:    *)
(* which cluster a due host belongs to, its one preparation, the nodes     *)
(* that go down with it as a unit, the hosts held back when the            *)
(* preparation fails, and the two operator requests that inspect the same  *)
(* clusters while the poll loop runs: the self-test and the restore.       *)
(*                                                                         *)
(* What feeds a host and in which stages hosts are commanded is module     *)
(* HostShutdown's; here a poll chooses freely which hosts are demanded,    *)
(* and due hosts are commanded in any order.  Every host is an enabled PVE *)
(* target that asked for the cluster handling.                             *)
(***************************************************************************)
EXTENDS Integers

CONSTANTS
  Hosts,         \* the hosts
  Clusters,      \* the names of the clusters
  NoName,        \* "", the name of no cluster
  Cluster,       \* the cluster each host is really a node of, or NoName
  Rank,          \* the position of each host in ordered_hosts()
  Unit,          \* the clusters with cluster_shutdown_all
  Abort,         \* cluster_abort_on_prep_failure
  MaxAttempts,   \* MAX_SHUTDOWN_ATTEMPTS
  Reads,         \* how cluster.inspect may end: "read", "refused", "silent"
  PrepOutcomes,  \* how a preparation may end: "ok", "fail", "nothing" to do
  Events         \* what may happen besides: "blind", a demand without a UPS on
                 \* battery; "selftest", in the loop itself; "reset", "dry",
                 \* "check" and "restore", requested at any time; "crash"

ASSUME ClusterAssumption ==
  /\ NoName \notin Clusters
  /\ Cluster \in [Hosts -> Clusters \cup {NoName}]
  /\ Rank \in [Hosts -> Nat]
  /\ \A g, h \in Hosts : Rank[g] = Rank[h] => g = h
  /\ Unit \subseteq Clusters
  /\ Abort \in BOOLEAN
  /\ MaxAttempts \in Nat \ {0}
  /\ Reads \subseteq {"read", "refused", "silent"}
  /\ PrepOutcomes \subseteq {"ok", "fail", "nothing"}
  /\ Events \subseteq {"blind", "selftest", "reset", "dry", "check", "restore",
                      "crash"}

VARIABLES
  demanded,            \* the hosts whose feeds demand a shutdown
  battery,             \* some UPS runs on battery
  dry_run,
  shutdown_triggered,
  host_fired,          \* the hosts with a true latch
  shutdown_state,      \* host_states[h].shutdown_state, or "none"
  shutdown_attempts,
  cluster_name,        \* host_states[h].cluster_name, or NoName
  cluster_states,      \* the names the engine holds a ClusterInfo of
  cluster_prepared,
  cluster_prep_failed,
  cluster_inspect_failed,
  cluster_standalone,
  cluster_unit_hosts,
  pc,                  \* where _evaluate_hosts is
  due,                 \* the eligible hosts still to be commanded
  had_eligible,
  candidates,          \* those _prepare_clusters has yet to look at
  cold,                \* what _cold_inspect brought back for each host
  current,             \* the cluster being prepared, or NoName
  extra,               \* the hosts taken along
  check,               \* a manual self-test is underway
  restore,             \* where restore_clusters is
  restoring,           \* the clusters it has yet to restore
  arming,              \* the one it is restoring, or NoName
  disarmed,            \* EXTERNAL: clusters whose HA manager is disarmed
  result,              \* HISTORY: how each cluster's preparation ended, or was
                       \* "announced" by a dry run
  begun,               \* HISTORY: preparations begun since nothing was demanded
  served,              \* HISTORY: hosts commanded or latched in this episode
  unheard              \* HISTORY: hosts that told an inspection of this sweep no
                       \* membership, or were settled before it

latches == <<shutdown_triggered, host_fired, shutdown_state, shutdown_attempts>>
facts == <<cluster_name, cluster_states>>
prep == <<cluster_prepared, cluster_prep_failed, cluster_inspect_failed,
          cluster_standalone, cluster_unit_hosts>>
sweep == <<due, had_eligible, candidates, cold, current, extra>>
requests == <<check, restore, restoring, arming>>
history == <<result, begun, served, unheard>>
vars == <<demanded, battery, dry_run, latches, facts, prep, pc, sweep,
          requests, disarmed, history>>

-----------------------------------------------------------------------------
\* _outage_in_progress: what housekeeping stands down for.
OutageInProgress == shutdown_triggered \/ battery

\* _retry_due
RetryDue(h) ==
  /\ shutdown_state[h] = "failed"
  /\ h \notin host_fired
  /\ shutdown_attempts[h] < MaxAttempts

\* _cluster_episode_live: whether a peer of h is still demanded, or going down.
EpisodeLive(h) ==
  /\ cluster_name[h] # NoName
  /\ \E peer \in Hosts \ {h} :
       /\ cluster_name[peer] = cluster_name[h]
       /\ shutdown_state[peer] = "sent" \/ peer \in demanded

\* The nodes that cluster.inspect lists for the cluster c.
NodesOf(c) == {h \in Hosts : Cluster[h] = c}

\* MUTANT of Members: the membership recorded by a self-test only.
NamedMembers(c) == {h \in Hosts : cluster_name[h] = c}

\* _cluster_members: by the name recorded for a host, or by the list of nodes.
Members(c) == {h \in Hosts : cluster_name[h] = c} \cup NodesOf(c)

\* _known_cluster: by the recorded name, or by a list of nodes naming h.
NameOf(h) ==
  IF cluster_name[h] # NoName THEN cluster_name[h]
  ELSE IF Cluster[h] \in cluster_states THEN Cluster[h]
  ELSE NoName
Known(h) == NameOf(h) \in cluster_states

\* What cluster.inspect reports as the name: nothing unless the membership was
\* read.  A refused or failed request is a reachable node without a cluster.
Reported(h, read) == IF read = "read" THEN Cluster[h] ELSE NoName

-----------------------------------------------------------------------------
NoResult == [c \in Clusters |-> "none"]

Init ==
  /\ demanded = {} /\ battery = FALSE
  /\ dry_run = FALSE
  /\ shutdown_triggered = FALSE
  /\ host_fired = {}
  /\ shutdown_state = [h \in Hosts |-> "none"]
  /\ shutdown_attempts = [h \in Hosts |-> 0]
  /\ cluster_name = [h \in Hosts |-> NoName]
  /\ cluster_states = {}
  /\ cluster_prepared = {} /\ cluster_prep_failed = {}
  /\ cluster_inspect_failed = {} /\ cluster_standalone = {}
  /\ cluster_unit_hosts = {}
  /\ pc = "wait"
  /\ due = {} /\ had_eligible = FALSE
  /\ candidates = {} /\ cold = [h \in Hosts |-> "unread"]
  /\ current = NoName /\ extra = {}
  /\ check = FALSE /\ restore = "idle" /\ restoring = {} /\ arming = NoName
  /\ disarmed = {}
  /\ result = NoResult /\ begun = {} /\ served = {} /\ unheard = {}

\* MUTANT of ClearPreparation: a failed preparation is remembered.
ClearButFailure ==
  /\ cluster_prepared' = {} /\ UNCHANGED cluster_prep_failed
  /\ cluster_inspect_failed' = {} /\ cluster_standalone' = {}
  /\ cluster_unit_hosts' = {}

\* The latches that every end of an episode clears.
ClearPreparation ==
  /\ cluster_prepared' = {} /\ cluster_prep_failed' = {}
  /\ cluster_inspect_failed' = {} /\ cluster_standalone' = {}
  /\ cluster_unit_hosts' = {}

\* _release_shutdown_latches
ReleaseLatches ==
  /\ shutdown_triggered' = FALSE
  /\ host_fired' = {}
  /\ shutdown_state' = [h \in Hosts |-> "none"]
  /\ shutdown_attempts' = [h \in Hosts |-> 0]
  /\ ClearPreparation

\* The polls are back and the UPS are judged.
Poll ==
  /\ pc = "wait"
  /\ pc' = "select"
  /\ demanded' \in SUBSET Hosts
  /\ battery' \in BOOLEAN
  /\ battery' \/ demanded' = {} \/ "blind" \in Events
  /\ result' = [c \in Clusters |-> IF c \in cluster_prepared THEN result[c]
                                  ELSE "none"]
  /\ begun' = IF demanded' = {} THEN {} ELSE begun
  /\ served' = IF shutdown_triggered THEN served ELSE {}
  /\ UNCHANGED <<dry_run, latches, facts, prep, sweep, requests, disarmed,
                 unheard>>

\* _maybe_rearm: mains have been back for the whole delay.
Rearm ==
  /\ pc = "select"
  /\ shutdown_triggered \/ host_fired # {}
  /\ demanded = {} /\ ~battery
  /\ ReleaseLatches
  /\ result' = NoResult /\ served' = {}
  /\ UNCHANGED <<demanded, battery, dry_run, facts, pc, sweep, requests,
                 disarmed, begun, unheard>>

-----------------------------------------------------------------------------
\* A host that its cluster took along, and whose cluster is still going down.
TakenAlong(h) == h \in cluster_unit_hosts /\ EpisodeLive(h)

\* MUTANT of Eligible: one failed attempt settles a host.
EligibleOnce(h) ==
  IF h \in demanded THEN h \notin host_fired /\ shutdown_state[h] # "failed"
  ELSE TakenAlong(h) /\ RetryDue(h)

\* MUTANT of Eligible: a node taken along gets no second attempt.
EligibleDemanded(h) == h \in demanded /\ h \notin host_fired

\* The hosts the eligibility loop of _evaluate_hosts collects.
Eligible(h) ==
  IF h \in demanded THEN h \notin host_fired
  ELSE TakenAlong(h) /\ RetryDue(h)

\* Those it releases: neither demanded nor taken along, and nothing was sent.
Released(h) ==
  /\ h \notin demanded /\ ~TakenAlong(h)
  /\ \/ h \in host_fired /\ shutdown_state[h] # "sent"
     \/ shutdown_state[h] = "failed"

\* The eligibility loop.  What it asks of peers, releasing a host leaves alone, so
\* all hosts are looked at in one step.
Select ==
  /\ pc = "select"
  /\ LET released == {h \in Hosts : Released(h)}
     IN /\ host_fired' = host_fired \ released
        /\ cluster_unit_hosts' = cluster_unit_hosts \ released
        /\ shutdown_state' = [h \in Hosts |->
             IF h \in released THEN "none" ELSE shutdown_state[h]]
        /\ shutdown_attempts' = [h \in Hosts |->
             IF h \in released THEN 0 ELSE shutdown_attempts[h]]
  /\ due' = {h \in Hosts : Eligible(h)}
  /\ had_eligible' = (due' # {})
  /\ candidates' = due'
  /\ unheard' = cluster_inspect_failed \cup cluster_standalone
  /\ pc' = IF due' = {} THEN "fire" ELSE "cold"
  /\ UNCHANGED <<demanded, battery, dry_run, shutdown_triggered, facts,
                 cluster_prepared, cluster_prep_failed, cluster_inspect_failed,
                 cluster_standalone, cold, current, extra, requests, disarmed,
                 result, begun, served>>

Foremost(S) == CHOOSE h \in S : \A g \in S : Rank[h] <= Rank[g]

\* MUTANT of Pending: one reading is taken to answer for everybody.
FirstPending ==
  LET unread == {h \in candidates :
                   /\ h \notin cluster_inspect_failed \cup cluster_standalone
                   /\ ~Known(h)}
  IN IF unread = {} THEN {} ELSE {Foremost(unread)}

\* The candidates nothing is known about yet.
Pending ==
  {h \in candidates : /\ h \notin cluster_inspect_failed \cup cluster_standalone
                      /\ ~Known(h)}

\* _cold_inspect: the first of them is read alone; what its list of nodes does
\* not cover is read next, all at once.
ColdInspect ==
  /\ pc = "cold"
  /\ pc' = "prepare"
  /\ \E answer \in [Pending -> Reads] :
       LET first == Foremost(Pending)
           listed == IF Pending = {} \/ Reported(first, answer[first]) = NoName
                     THEN {} ELSE NodesOf(Cluster[first])
           asked == {h \in Pending : h = first \/ h \notin listed}
       IN /\ cold' = [h \in Hosts |-> IF h \in asked THEN answer[h] ELSE "unread"]
          /\ unheard' = unheard \cup {h \in asked : answer[h] # "read"}
  /\ UNCHANGED <<demanded, battery, dry_run, latches, facts, prep, due,
                 had_eligible, candidates, current, extra, requests, disarmed,
                 result, begun, served>>

\* _unit_additions, with the hosts already taken.
Additions(c) ==
  IF c \notin Unit THEN {} ELSE Members(c) \ (due \cup extra \cup host_fired)
TakeAlong(c) ==
  /\ extra' = extra \cup Additions(c)
  /\ cluster_unit_hosts' = cluster_unit_hosts \cup Additions(c)

\* The bookkeeping of the names: the members a cold reading brought back, and
\* those taken along.
Stamp(hosts, c) ==
  cluster_name' = [h \in Hosts |-> IF h \in hosts THEN c ELSE cluster_name[h]]

\* The loop of _prepare_clusters reaches h, in the order of ordered_hosts.
Turn(h) ==
  /\ pc = "prepare" /\ h \in candidates
  /\ \A g \in candidates : Rank[h] <= Rank[g]
  /\ candidates' = candidates \ {h}

Settled(h) == h \in cluster_inspect_failed \cup cluster_standalone

\* A candidate whose cluster was found unreachable, or not to exist, before; or
\* one that nothing was read for.
SkipCandidate(h) ==
  /\ Turn(h)
  /\ Settled(h) \/ (~Known(h) /\ cold[h] = "unread")
  /\ UNCHANGED <<demanded, battery, dry_run, latches, facts, prep, pc, due,
                 had_eligible, cold, current, extra, requests, disarmed, history>>

\* A candidate whose inspection has just failed, or has reported no cluster:
\* settled for the episode.
SettleCandidate(h) ==
  /\ Turn(h)
  /\ ~Settled(h) /\ ~Known(h) /\ cold[h] # "unread"
  /\ Reported(h, cold[h]) = NoName
  /\ IF cold[h] = "silent"
     THEN /\ cluster_inspect_failed' = cluster_inspect_failed \cup {h}
          /\ UNCHANGED cluster_standalone
     ELSE /\ cluster_standalone' = cluster_standalone \cup {h}
          /\ UNCHANGED cluster_inspect_failed
  /\ UNCHANGED <<demanded, battery, dry_run, latches, facts, cluster_prepared,
                 cluster_prep_failed, cluster_unit_hosts, pc, due, had_eligible,
                 cold, current, extra, requests, disarmed, history>>

\* A candidate whose cluster is known or was just read: prepared once, and in
\* dry-run only said to be.
BeginPreparation(h) ==
  /\ Turn(h)
  /\ ~Settled(h)
  /\ Known(h) \/ (cold[h] = "read" /\ Cluster[h] # NoName)
  /\ LET c == IF Known(h) THEN NameOf(h) ELSE Cluster[h]
         stamped == IF Known(h) THEN {} ELSE Members(c) \cup {h}
     IN /\ cluster_states' = cluster_states \cup {c}
        /\ cluster_prepared' = cluster_prepared \cup {c}
        /\ IF c \in cluster_prepared
           THEN /\ Stamp(stamped, c)
                /\ UNCHANGED <<pc, current, extra, cluster_unit_hosts, result,
                               begun>>
           ELSE IF dry_run
           THEN /\ Stamp(stamped \cup Additions(c), c)
                /\ TakeAlong(c)
                /\ result' = [result EXCEPT ![c] = "announced"]
                /\ UNCHANGED <<pc, current, begun>>
           ELSE /\ Stamp(stamped, c)
                /\ current' = c
                /\ begun' = begun \cup {c}
                /\ pc' = "preparing"
                /\ UNCHANGED <<extra, cluster_unit_hosts, result>>
  /\ UNCHANGED <<demanded, battery, dry_run, latches, cluster_prep_failed,
                 cluster_inspect_failed, cluster_standalone, due, had_eligible,
                 cold, requests, disarmed, served, unheard>>

\* cluster.prepare is back.  With nothing to prepare it was not even called.
EndPreparation(outcome) ==
  /\ pc = "preparing"
  /\ pc' = "taking"
  /\ \/ outcome = "nothing" /\ UNCHANGED cluster_prep_failed
     \/ outcome = "ok" /\ cluster_prep_failed' = cluster_prep_failed \ {current}
     \/ outcome = "fail"
        /\ cluster_prep_failed' = cluster_prep_failed \cup {current}
  /\ disarmed' = IF outcome = "ok" THEN disarmed \cup {current} ELSE disarmed
  /\ result' = [result EXCEPT ![current] = outcome]
  /\ UNCHANGED <<demanded, battery, dry_run, latches, facts, cluster_prepared,
                 cluster_inspect_failed, cluster_standalone, cluster_unit_hosts,
                 sweep, requests, begun, served, unheard>>

\* Its outcome was announced, and the rest of a unit joins.
TakeUnit ==
  /\ pc = "taking"
  /\ pc' = "prepare"
  /\ TakeAlong(current)
  /\ Stamp(Additions(current), current)
  /\ current' = NoName
  /\ UNCHANGED <<demanded, battery, dry_run, latches, cluster_states,
                 cluster_prepared, cluster_prep_failed, cluster_inspect_failed,
                 cluster_standalone, due, had_eligible, candidates, cold,
                 requests, disarmed, history>>

\* MUTANT of HeldBack: the abort knows only clusters, not hosts nobody could ask.
HeldByCluster(h) == Abort /\ cluster_name[h] \in cluster_prep_failed

\* The last lines of _prepare_clusters: who is held back.
HeldBack(h) ==
  /\ Abort
  /\ cluster_name[h] \in cluster_prep_failed \/ h \in cluster_inspect_failed

EndCandidates ==
  /\ pc = "prepare" /\ candidates = {}
  /\ pc' = "fire"
  /\ due' = {h \in due \cup extra : ~HeldBack(h)}
  /\ extra' = {}
  /\ cold' = [h \in Hosts |-> "unread"]
  /\ UNCHANGED <<demanded, battery, dry_run, latches, facts, prep, had_eligible,
                 candidates, current, requests, disarmed, history>>

\* _fire_host for one host, with the answer of its target.
Fire(h, ok) ==
  /\ pc = "fire" /\ h \in due
  /\ due' = due \ {h}
  /\ shutdown_triggered' = TRUE
  /\ served' = served \cup {h}
  /\ IF dry_run
     THEN /\ host_fired' = host_fired \cup {h}
          /\ UNCHANGED <<shutdown_state, shutdown_attempts>>
     ELSE LET attempts == shutdown_attempts[h] + 1
          IN /\ host_fired' = IF ok \/ attempts >= MaxAttempts
                              THEN host_fired \cup {h} ELSE host_fired \ {h}
             /\ shutdown_state' =
                  [shutdown_state EXCEPT ![h] = IF ok THEN "sent" ELSE "failed"]
             /\ shutdown_attempts' = [shutdown_attempts EXCEPT ![h] = attempts]
  /\ UNCHANGED <<demanded, battery, dry_run, facts, prep, pc, had_eligible,
                 candidates, cold, current, extra, requests, disarmed,
                 result, begun, unheard>>

\* MUTANT of EpisodeOver: a sweep that commanded nothing ends the episode.
NothingLatched == host_fired = {}

\* Nothing latched, and nothing was eligible either.
EpisodeOver == host_fired = {} /\ ~had_eligible

\* The end of _evaluate_hosts.
EndSweep ==
  /\ pc = "fire" /\ due = {}
  /\ pc' = "wait"
  /\ had_eligible' = FALSE
  /\ IF EpisodeOver
     THEN shutdown_triggered' = FALSE /\ ClearPreparation /\ result' = NoResult
     ELSE UNCHANGED <<shutdown_triggered, prep, result>>
  /\ UNCHANGED <<demanded, battery, dry_run, host_fired, shutdown_state,
                 shutdown_attempts, facts, due, candidates, cold, current,
                 extra, requests, disarmed, begun, served, unheard>>

-----------------------------------------------------------------------------
\* The operator presses "Reset state".
Reset ==
  /\ "reset" \in Events
  /\ ReleaseLatches
  /\ demanded' = {}
  /\ begun' = {}
  /\ UNCHANGED <<battery, dry_run, facts, pc, sweep, requests, disarmed,
                 result, served, unheard>>

\* The operator saves a configuration with the master switch changed.
SwitchDryRun ==
  /\ "dry" \in Events
  /\ dry_run' = ~dry_run
  /\ UNCHANGED <<demanded, battery, latches, facts, prep, pc, sweep, requests,
                 disarmed, history>>

\* _inspect_clusters: every host is asked, and what it reports is recorded.
Inspect(answer) ==
  /\ cluster_name' = [h \in Hosts |-> Reported(h, answer[h])]
  /\ unheard' = unheard \cup {h \in Hosts : answer[h] # "read"}
Found(answer) == {Reported(h, answer[h]) : h \in Hosts} \ {NoName}

\* The inspections of the loop itself, at its start and in every self-test: not
\* during an outage.
Selftest(answer) ==
  /\ "selftest" \in Events
  /\ pc = "wait" /\ ~OutageInProgress
  /\ Inspect(answer)
  /\ cluster_states' = Found(answer)
  /\ UNCHANGED <<demanded, battery, dry_run, latches, prep, pc, sweep, requests,
                 disarmed, result, begun, served>>

\* run_selftest_now: refused in an outage, but only when it begins.
BeginCheck ==
  /\ "check" \in Events
  /\ ~check /\ ~OutageInProgress
  /\ check' = TRUE
  /\ UNCHANGED <<demanded, battery, dry_run, latches, facts, prep, pc, sweep,
                 restore, restoring, arming, disarmed, history>>

EndCheck(answer) ==
  /\ check
  /\ check' = FALSE
  /\ Inspect(answer)
  /\ cluster_states' = Found(answer)
  /\ UNCHANGED <<demanded, battery, dry_run, latches, prep, pc, sweep, restore,
                 restoring, arming, disarmed, result, begun, served>>

\* restore_clusters
BeginRestore ==
  /\ "restore" \in Events
  /\ restore = "idle" /\ ~OutageInProgress
  /\ restore' = "inspect"
  /\ UNCHANGED <<demanded, battery, dry_run, latches, facts, prep, pc, sweep,
                 check, restoring, arming, disarmed, history>>

RestoreInspected(answer) ==
  /\ restore = "inspect"
  /\ Inspect(answer)
  /\ LET found == Found(answer) \cap disarmed
     IN IF found = {}
        THEN restore' = "idle" /\ UNCHANGED <<restoring, arming>>
        ELSE /\ arming' \in found
             /\ restoring' = found \ {arming'}
             /\ restore' = "write"
  /\ UNCHANGED <<demanded, battery, dry_run, latches, cluster_states, prep, pc,
                 sweep, check, disarmed, result, begun, served>>

\* cluster.restore arms the HA manager, or fails to.
RestoreWrite(ok) ==
  /\ restore = "write"
  /\ restore' = "forget"
  /\ disarmed' = IF ok THEN disarmed \ {arming} ELSE disarmed
  /\ UNCHANGED <<demanded, battery, dry_run, latches, facts, prep, pc, sweep,
                 check, restoring, arming, history>>

\* No host carries the name any more: another inspection did not find it.
Nameless(c) == \A h \in Hosts : cluster_name[h] # c

\* Its outcome was announced, and its preparation is forgotten; the next one is
\* looked for, past those no host is known of.
RestoreForget ==
  /\ restore = "forget"
  /\ cluster_prepared' = cluster_prepared \ {arming}
  /\ cluster_prep_failed' = cluster_prep_failed \ {arming}
  /\ begun' = begun \ {arming}
  /\ IF \A c \in restoring : Nameless(c)
     THEN restore' = "reread" /\ restoring' = {} /\ arming' = NoName
     ELSE /\ restore' = "write"
          /\ arming' \in {c \in restoring : ~Nameless(c)}
          /\ \E skipped \in SUBSET {c \in restoring : Nameless(c)} :
               restoring' = restoring \ ({arming'} \cup skipped)
  /\ UNCHANGED <<demanded, battery, dry_run, latches, facts,
                 cluster_inspect_failed, cluster_standalone, cluster_unit_hosts,
                 pc, sweep, check, disarmed, result, served, unheard>>

RestoreReread(answer) ==
  /\ restore = "reread"
  /\ restore' = "idle"
  /\ Inspect(answer)
  /\ cluster_states' = Found(answer)
  /\ UNCHANGED <<demanded, battery, dry_run, latches, prep, pc, sweep, check,
                 restoring, arming, disarmed, result, begun, served>>

\* The process dies at any moment, and starts again knowing nothing of this.
Crash ==
  /\ "crash" \in Events
  /\ ReleaseLatches
  /\ demanded' = {}
  /\ cluster_name' = [h \in Hosts |-> NoName] /\ cluster_states' = {}
  /\ pc' = "wait"
  /\ due' = {} /\ had_eligible' = FALSE
  /\ candidates' = {} /\ cold' = [h \in Hosts |-> "unread"]
  /\ current' = NoName /\ extra' = {}
  /\ check' = FALSE /\ restore' = "idle" /\ restoring' = {} /\ arming' = NoName
  /\ result' = NoResult /\ begun' = {} /\ served' = {} /\ unheard' = {}
  /\ UNCHANGED <<battery, dry_run, disarmed>>

Loop ==
  \/ Poll \/ Rearm \/ Select \/ ColdInspect
  \/ (\E h \in Hosts : \/ SkipCandidate(h) \/ SettleCandidate(h)
                       \/ BeginPreparation(h))
  \/ (\E outcome \in PrepOutcomes : EndPreparation(outcome))
  \/ TakeUnit \/ EndCandidates
  \/ (\E h \in Hosts, ok \in BOOLEAN : Fire(h, ok))
  \/ EndSweep

Next ==
  \/ Loop
  \/ (\E answer \in [Hosts -> Reads] : Selftest(answer))
  \/ Reset \/ SwitchDryRun \/ Crash
  \/ BeginCheck \/ (\E answer \in [Hosts -> Reads] : EndCheck(answer))
  \/ BeginRestore
  \/ (\E answer \in [Hosts -> Reads] : RestoreInspected(answer))
  \/ (\E ok \in BOOLEAN : RestoreWrite(ok))
  \/ RestoreForget
  \/ (\E answer \in [Hosts -> Reads] : RestoreReread(answer))

Spec == Init /\ [][Next]_vars

\* The loop never ends: its body is caught whole, and every call it awaits is
\* bounded by a deadline.
FairSpec == Spec /\ WF_vars(Loop)

-----------------------------------------------------------------------------
TypeOK ==
  /\ demanded \in SUBSET Hosts
  /\ battery \in BOOLEAN
  /\ dry_run \in BOOLEAN
  /\ shutdown_triggered \in BOOLEAN
  /\ host_fired \in SUBSET Hosts
  /\ shutdown_state \in [Hosts -> {"none", "sent", "failed"}]
  /\ shutdown_attempts \in [Hosts -> 0..MaxAttempts]
  /\ cluster_name \in [Hosts -> Clusters \cup {NoName}]
  /\ cluster_states \in SUBSET Clusters
  /\ cluster_prepared \in SUBSET Clusters
  /\ cluster_prep_failed \in SUBSET Clusters
  /\ cluster_inspect_failed \in SUBSET Hosts
  /\ cluster_standalone \in SUBSET Hosts
  /\ cluster_unit_hosts \in SUBSET Hosts
  /\ pc \in {"wait", "select", "cold", "prepare", "preparing", "taking", "fire"}
  /\ due \in SUBSET Hosts
  /\ had_eligible \in BOOLEAN
  /\ candidates \in SUBSET Hosts
  /\ cold \in [Hosts -> Reads \cup {"unread"}]
  /\ current \in Clusters \cup {NoName}
  /\ extra \in SUBSET Hosts
  /\ check \in BOOLEAN
  /\ restore \in {"idle", "inspect", "write", "forget", "reread"}
  /\ restoring \in SUBSET Clusters
  /\ arming \in Clusters \cup {NoName}
  /\ disarmed \in SUBSET Clusters
  /\ result \in [Clusters -> PrepOutcomes \cup {"none", "announced"}]
  /\ begun \in SUBSET Clusters
  /\ served \in SUBSET Hosts
  /\ unheard \in SUBSET Hosts

\* The step commands h to shut down.
Commanded(h) == shutdown_attempts'[h] > shutdown_attempts[h]

\* No node of a cluster is commanded before the preparation of its cluster has
\* ended, well or not, or was announced by a dry run; unless the node told an
\* inspection of this sweep nothing, or was settled by an earlier one, be it beside
\* the loop.  (engine.py:1084, "exactly once, BEFORE the first node of it goes down".)
PreparedBeforeDown ==
  [][\A h \in Hosts :
       Commanded(h) /\ Cluster[h] # NoName =>
         result[Cluster[h]] # "none" \/ h \in unheard]_vars

\* With abort-on-failure, no node of a cluster goes down whose preparation did not
\* even begin.  (tests/test_basic.py:7166, "abort-on-failure must hold a cluster
\* nobody could inspect": violated by a refused inspection, see the README.)
UnpreparedIsHeld ==
  [][\A h \in Hosts :
       Commanded(h) /\ Abort /\ Cluster[h] # NoName =>
         result[Cluster[h]] \notin {"none", "announced"}]_vars

\* With abort-on-failure, a failed preparation keeps every node of that cluster
\* up, in this sweep and in all that follow until the latch is cleared, and so
\* does a failed inspection its node.
HeldBackStays ==
  [][\A h \in Hosts :
       Commanded(h) /\ Abort => /\ Cluster[h] \notin cluster_prep_failed
                                /\ h \notin cluster_inspect_failed]_vars

\* As long as a shutdown is demanded a cluster is prepared at most once, however
\* often its nodes come back as candidates, unless it was reset or restored.
PreparedOnce ==
  [][\A c \in Clusters :
       pc = "prepare" /\ pc' = "preparing" /\ current' = c => c \notin begun]_vars

\* A cluster that goes down as a unit does so whole: between two sweeps, if it
\* was prepared and one of its nodes was commanded, then so were all of them.
UnitGoesTogether ==
  pc = "wait" =>
    \A c \in Unit :
      result[c] # "none" /\ served \cap NodesOf(c) # {} =>
        \A h \in NodesOf(c) :
          h \in served \/ (Abort /\ h \in cluster_inspect_failed)

\* A node is not commanded after its successful preparation was undone.
\* (engine.py:2722, "Refused during an outage": violated, see the README.)
StillPrepared ==
  [][\A h \in Hosts :
       Commanded(h) /\ Cluster[h] # NoName /\ result[Cluster[h]] = "ok" =>
         Cluster[h] \in disarmed]_vars

\* A host that stays demanded is sooner or later latched, be it after the last
\* failed attempt, or held back.
DemandIsServed ==
  \A h \in Hosts :
    <>[](h \in demanded) => <>[](h \in host_fired \/ HeldBack(h))

\* A failed attempt at a node taken along does not stay as it is: it is tried
\* again until it succeeds or the attempts are used up, or withdrawn.
TakenAlongIsSettled ==
  \A h \in Hosts :
    (h \in cluster_unit_hosts /\ shutdown_state[h] = "failed")
      ~> (h \in host_fired \/ shutdown_state[h] # "failed")

\* Once nothing is demanded any more and nothing went down, no latch of the
\* episode survives into the next outage.
EpisodeIsForgotten ==
  <>[](demanded = {}) =>
    <>[](host_fired # {} \/ /\ cluster_prepared = {} /\ cluster_prep_failed = {}
                            /\ cluster_inspect_failed = {}
                            /\ cluster_standalone = {})

=============================================================================
