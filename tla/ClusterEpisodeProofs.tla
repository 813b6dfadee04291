------------------------ MODULE ClusterEpisodeProofs ------------------------
(***************************************************************************)
(* Theorems about ClusterEpisode, for every set of hosts and clusters,     *)
(* every membership, order and configuration.                              *)
(***************************************************************************)
EXTENDS ClusterEpisode, WellFoundedInduction, TLAPS

-----------------------------------------------------------------------------
(***************************************************************************)
(* Type correctness.  The attempts are bounded because a host that used    *)
(* them up is latched, and because a host on its way to be commanded still *)
(* has one left.                                                           *)
(***************************************************************************)

\* Where the sweep is, and what it carries there.
SweepInv ==
  /\ pc \in {"wait", "select"} => ~had_eligible
  /\ pc \in {"cold", "prepare", "preparing", "taking"} => had_eligible
  /\ pc = "fire" /\ ~had_eligible => due = {} /\ demanded \subseteq host_fired
  /\ pc \in {"preparing", "taking"} => current \in Clusters
  /\ pc \in {"wait", "select", "cold", "fire"} => extra = {}

AttemptsInv ==
  /\ \A h \in Hosts : shutdown_attempts[h] = MaxAttempts => h \in host_fired
  /\ \A h \in due \cup extra : shutdown_attempts[h] < MaxAttempts

TypeInv == TypeOK /\ SweepInv /\ AttemptsInv

LEMMA NoAttempts == 0 \in 0 .. MaxAttempts /\ 0 < MaxAttempts
  BY ClusterAssumption

LEMMA NodesWithin == \A c : NodesOf(c) \subseteq Hosts /\ Members(c) \subseteq Hosts
  BY DEF NodesOf, Members

LEMMA AdditionsWithin ==
  \A c : /\ Additions(c) \subseteq Hosts
         /\ Additions(c) \cap (due \cup host_fired) = {}
  BY NodesWithin DEF Additions

LEMMA ReleaseType ==
  ASSUME TypeInv, ReleaseLatches, due' \subseteq due, extra' \subseteq extra
  PROVE  /\ shutdown_triggered' \in BOOLEAN /\ host_fired' \in SUBSET Hosts
         /\ shutdown_state' \in [Hosts -> {"none", "sent", "failed"}]
         /\ shutdown_attempts' \in [Hosts -> 0 .. MaxAttempts]
         /\ cluster_prepared' \in SUBSET Clusters
         /\ cluster_prep_failed' \in SUBSET Clusters
         /\ cluster_inspect_failed' \in SUBSET Hosts
         /\ cluster_standalone' \in SUBSET Hosts
         /\ cluster_unit_hosts' \in SUBSET Hosts
         /\ AttemptsInv'
<1>1. shutdown_attempts' \in [Hosts -> 0 .. MaxAttempts]
  BY NoAttempts DEF ReleaseLatches
<1>2. \A h \in Hosts : shutdown_attempts'[h] = 0
  BY DEF ReleaseLatches
<1>3. due' \cup extra' \subseteq Hosts
  BY DEF TypeInv, TypeOK
<1>4. AttemptsInv'
  BY <1>2, <1>3, NoAttempts DEF AttemptsInv
<1>5. QED BY <1>1, <1>4 DEF ReleaseLatches, ClearPreparation

LEMMA TypeInit == Init => TypeInv
<1> SUFFICES ASSUME Init
             PROVE  TypeInv
  OBVIOUS
<1>1. shutdown_attempts \in [Hosts -> 0 .. MaxAttempts]
  BY NoAttempts DEF Init
<1>2. /\ shutdown_state \in [Hosts -> {"none", "sent", "failed"}]
      /\ cluster_name \in [Hosts -> Clusters \cup {NoName}]
      /\ cold \in [Hosts -> Reads \cup {"unread"}]
  BY DEF Init
<1>3. result \in [Clusters -> PrepOutcomes \cup {"none", "announced"}]
  BY DEF Init, NoResult
<1>4. TypeOK
  BY <1>1, <1>2, <1>3 DEF Init, TypeOK
<1>5. SweepInv
  BY DEF Init, SweepInv
<1>6. AttemptsInv
  BY NoAttempts DEF Init, AttemptsInv
<1>7. QED BY <1>4, <1>5, <1>6 DEF TypeInv

LEMMA TypePoll == TypeInv /\ Poll => TypeInv'
<1> SUFFICES ASSUME TypeInv, Poll
             PROVE  TypeInv'
  OBVIOUS
<1> USE DEF TypeInv
<1>1. result' \in [Clusters -> PrepOutcomes \cup {"none", "announced"}]
  BY DEF Poll, TypeOK
<1>2. TypeOK'
  BY <1>1 DEF Poll, TypeOK, latches, facts, prep, sweep, requests
<1>3. SweepInv'
  BY DEF Poll, SweepInv, latches, sweep
<1>4. AttemptsInv'
  BY DEF Poll, AttemptsInv, latches, sweep
<1>5. QED BY <1>2, <1>3, <1>4

LEMMA TypeRearm == TypeInv /\ Rearm => TypeInv'
<1> SUFFICES ASSUME TypeInv, Rearm
             PROVE  TypeInv'
  OBVIOUS
<1>1. result' \in [Clusters -> PrepOutcomes \cup {"none", "announced"}]
  BY DEF Rearm, NoResult
<1>2. due' = due /\ extra' = extra
  BY DEF Rearm, sweep
<1>3. TypeOK'
  BY <1>1, <1>2, ReleaseType DEF TypeInv, Rearm, TypeOK, facts, sweep, requests
<1>4. SweepInv'
  BY DEF Rearm, TypeInv, SweepInv, sweep
<1>5. QED BY <1>2, <1>3, <1>4, ReleaseType DEF TypeInv, Rearm

LEMMA TypeSelect == TypeInv /\ Select => TypeInv'
<1> SUFFICES ASSUME TypeInv, Select
             PROVE  TypeInv'
  OBVIOUS
<1> USE DEF TypeInv
<1> DEFINE released == {h \in Hosts : Released(h)}
<1>1. /\ host_fired' = host_fired \ released
      /\ cluster_unit_hosts' = cluster_unit_hosts \ released
      /\ shutdown_state' = [h \in Hosts |->
           IF h \in released THEN "none" ELSE shutdown_state[h]]
      /\ shutdown_attempts' = [h \in Hosts |->
           IF h \in released THEN 0 ELSE shutdown_attempts[h]]
  BY DEF Select
<1> HIDE DEF released
<1>2. /\ shutdown_state' \in [Hosts -> {"none", "sent", "failed"}]
      /\ shutdown_attempts' \in [Hosts -> 0 .. MaxAttempts]
  BY <1>1, NoAttempts DEF TypeOK
<1>3. /\ due' = {h \in Hosts : Eligible(h)}
      /\ had_eligible' = (due' # {}) /\ candidates' = due' /\ extra' = extra
      /\ demanded' = demanded /\ current' = current
      /\ pc = "select" /\ pc' = IF due' = {} THEN "fire" ELSE "cold"
  BY DEF Select
<1>4. TypeOK'
  BY <1>1, <1>2, <1>3 DEF Select, TypeOK, facts, requests, history
<1>5. extra' = {}
  BY <1>3 DEF SweepInv
<1>6. ASSUME due' = {}
      PROVE  demanded' \subseteq host_fired'
  <2>1. \A h \in demanded : h \in Hosts /\ ~Eligible(h)
    BY <1>3, <1>6 DEF TypeOK
  <2>2. \A h \in demanded : h \in host_fired /\ h \notin released
    BY <2>1 DEF Eligible, Released, released
  <2>3. QED BY <1>1, <1>3, <2>2
<1>7. SweepInv'
  BY <1>3, <1>5, <1>6 DEF SweepInv
<1>8. \A h \in Hosts : shutdown_attempts'[h] \in {0, shutdown_attempts[h]}
  BY <1>1
<1>9. \A h \in Hosts : shutdown_attempts'[h] = MaxAttempts => h \in host_fired'
  BY <1>1, NoAttempts DEF AttemptsInv
<1>10. \A h \in due' : shutdown_attempts[h] < MaxAttempts
  <2> SUFFICES ASSUME NEW h \in due'
               PROVE  shutdown_attempts[h] < MaxAttempts
    OBVIOUS
  <2>1. h \in Hosts /\ Eligible(h)
    BY <1>3
  <2>2. CASE h \in host_fired
    BY <2>1, <2>2 DEF Eligible, RetryDue
  <2>3. CASE h \notin host_fired
    BY <2>1, <2>3, ClusterAssumption DEF AttemptsInv, TypeOK
  <2>4. QED BY <2>2, <2>3
<1>11. \A h \in due' : h \in Hosts
  BY <1>3
<1>12. AttemptsInv'
  BY <1>5, <1>8, <1>9, <1>10, <1>11, NoAttempts DEF AttemptsInv
<1>13. QED BY <1>4, <1>7, <1>12

LEMMA PendingWithin == TypeOK => Pending \subseteq Hosts
  BY DEF TypeOK, Pending

LEMMA TypeColdInspect == TypeInv /\ ColdInspect => TypeInv'
<1> SUFFICES ASSUME TypeInv, ColdInspect
             PROVE  TypeInv'
  OBVIOUS
<1> USE DEF TypeInv
<1>1. PICK answer \in [Pending -> Reads], asked \in SUBSET Pending :
        /\ cold' = [h \in Hosts |-> IF h \in asked THEN answer[h] ELSE "unread"]
        /\ unheard' = unheard \cup {h \in asked : answer[h] # "read"}
  BY DEF ColdInspect
<1>2. cold' \in [Hosts -> Reads \cup {"unread"}]
  BY <1>1
<1>3. unheard' \in SUBSET Hosts
  BY <1>1, PendingWithin DEF TypeOK
<1>4. TypeOK'
  BY <1>2, <1>3 DEF ColdInspect, TypeOK, latches, facts, prep, requests
<1>5. SweepInv' /\ AttemptsInv'
  BY DEF ColdInspect, SweepInv, AttemptsInv, latches
<1>6. QED BY <1>4, <1>5

LEMMA TypeSkip ==
  ASSUME TypeInv, NEW h \in Hosts, SkipCandidate(h)
  PROVE  TypeInv'
<1>1. TypeOK'
  BY DEF TypeInv, SkipCandidate, Turn, TypeOK, latches, facts, prep, requests,
         history
<1>2. SweepInv' /\ AttemptsInv'
  BY DEF TypeInv, SkipCandidate, Turn, SweepInv, AttemptsInv, latches
<1>3. QED BY <1>1, <1>2 DEF TypeInv

LEMMA TypeSettle ==
  ASSUME TypeInv, NEW h \in Hosts, SettleCandidate(h)
  PROVE  TypeInv'
<1>1. TypeOK'
  BY DEF TypeInv, SettleCandidate, Turn, TypeOK, latches, facts, requests, history
<1>2. SweepInv' /\ AttemptsInv'
  BY DEF TypeInv, SettleCandidate, Turn, SweepInv, AttemptsInv, latches
<1>3. QED BY <1>1, <1>2 DEF TypeInv

\* Recording a name keeps the names a function into the clusters.
LEMMA StampType ==
  ASSUME TypeOK, NEW hosts, NEW c \in Clusters, Stamp(hosts, c)
  PROVE  cluster_name' \in [Hosts -> Clusters \cup {NoName}]
  BY DEF TypeOK, Stamp

\* Who is taken along has an attempt left.
LEMMA AdditionsHaveAttempts ==
  ASSUME TypeInv, NEW c
  PROVE  \A h \in Additions(c) : h \in Hosts /\ shutdown_attempts[h] < MaxAttempts
<1>1. \A h \in Additions(c) : h \in Hosts /\ h \notin host_fired
  BY AdditionsWithin
<1>2. \A h \in Hosts \ host_fired :
        shutdown_attempts[h] \in 0 .. MaxAttempts /\ shutdown_attempts[h] # MaxAttempts
  BY DEF TypeInv, TypeOK, AttemptsInv
<1>3. \A n \in 0 .. MaxAttempts : n # MaxAttempts => n < MaxAttempts
  BY ClusterAssumption
<1>4. \A h \in Hosts \ host_fired : shutdown_attempts[h] < MaxAttempts
  BY <1>2, <1>3
<1>5. QED BY <1>1, <1>4

\* The cluster of a candidate, known before or just read.
LEMMA CandidateCluster ==
  ASSUME TypeOK, NEW h \in Hosts,
         Known(h) \/ (cold[h] = "read" /\ Cluster[h] # NoName)
  PROVE  (IF Known(h) THEN NameOf(h) ELSE Cluster[h]) \in Clusters
  BY ClusterAssumption DEF TypeOK, Known

LEMMA TypeBegin ==
  ASSUME TypeInv, NEW h \in Hosts, BeginPreparation(h)
  PROVE  TypeInv'
<1> USE DEF TypeInv
<1> DEFINE c == IF Known(h) THEN NameOf(h) ELSE Cluster[h]
           stamped == IF Known(h) THEN {} ELSE Members(c) \cup {h}
<1>1. c \in Clusters
  BY CandidateCluster DEF BeginPreparation
<1>2. /\ Turn(h)
      /\ cluster_states' = cluster_states \cup {c}
      /\ cluster_prepared' = cluster_prepared \cup {c}
      /\ \/ /\ Stamp(stamped, c)
            /\ UNCHANGED <<pc, current, extra, cluster_unit_hosts, result, begun>>
         \/ /\ Stamp(stamped \cup Additions(c), c)
            /\ TakeAlong(c)
            /\ result' = [result EXCEPT ![c] = "announced"]
            /\ UNCHANGED <<pc, current, begun>>
         \/ /\ Stamp(stamped, c)
            /\ current' = c
            /\ begun' = begun \cup {c}
            /\ pc' = "preparing"
            /\ UNCHANGED <<extra, cluster_unit_hosts, result>>
  BY DEF BeginPreparation
<1> HIDE DEF c, stamped
<1>3. cluster_name' \in [Hosts -> Clusters \cup {NoName}]
  BY <1>1, <1>2, StampType
<1>4. /\ extra' \subseteq extra \cup Additions(c)
      /\ cluster_unit_hosts' \subseteq cluster_unit_hosts \cup Additions(c)
  BY <1>2 DEF TakeAlong
<1>5. /\ current' \in {current, c} /\ begun' \subseteq begun \cup {c}
      /\ \/ pc' = pc
         \/ pc' = "preparing" /\ current' = c
  BY <1>2
<1>6. /\ candidates' = candidates \ {h} /\ pc = "prepare"
      /\ due' = due /\ had_eligible' = had_eligible
      /\ host_fired' = host_fired /\ demanded' = demanded
      /\ shutdown_attempts' = shutdown_attempts
  BY DEF BeginPreparation, Turn, latches
<1>7. extra' \subseteq Hosts /\ cluster_unit_hosts' \subseteq Hosts
  BY <1>4, AdditionsWithin DEF TypeOK
<1>13. result' \in [Clusters -> PrepOutcomes \cup {"none", "announced"}]
  BY <1>1, <1>2 DEF TypeOK
<1>8. TypeOK'
  BY <1>1, <1>2, <1>3, <1>5, <1>6, <1>7, <1>13
  DEF BeginPreparation, TypeOK, latches, requests
<1>9. SweepInv'
  BY <1>1, <1>5, <1>6 DEF SweepInv
<1>10. \A g \in due' \cup extra' : shutdown_attempts'[g] < MaxAttempts
  BY <1>4, <1>6, AdditionsHaveAttempts DEF AttemptsInv
<1>11. AttemptsInv'
  BY <1>6, <1>10 DEF AttemptsInv
<1>12. QED BY <1>8, <1>9, <1>11

LEMMA TypeEnd ==
  ASSUME TypeInv, NEW outcome \in PrepOutcomes, EndPreparation(outcome)
  PROVE  TypeInv'
<1> USE DEF TypeInv
<1>1. current \in Clusters
  BY DEF EndPreparation, SweepInv
<1>2. result' \in [Clusters -> PrepOutcomes \cup {"none", "announced"}]
  BY <1>1 DEF EndPreparation, TypeOK
<1>4. cluster_prep_failed' \in SUBSET Clusters
  BY <1>1 DEF EndPreparation, TypeOK
<1>5. disarmed' \in SUBSET Clusters
  BY <1>1 DEF EndPreparation, TypeOK
<1>6. TypeOK'
  BY <1>2, <1>4, <1>5 DEF EndPreparation, TypeOK, latches, facts, sweep, requests
<1>7. SweepInv' /\ AttemptsInv'
  BY DEF EndPreparation, SweepInv, AttemptsInv, latches, sweep
<1>8. QED BY <1>6, <1>7

LEMMA TypeTakeUnit == TypeInv /\ TakeUnit => TypeInv'
<1> SUFFICES ASSUME TypeInv, TakeUnit
             PROVE  TypeInv'
  OBVIOUS
<1> USE DEF TypeInv
<1>1. current \in Clusters
  BY DEF TakeUnit, SweepInv
<1>2. cluster_name' \in [Hosts -> Clusters \cup {NoName}]
  BY <1>1, StampType DEF TakeUnit
<1>3. /\ extra' = extra \cup Additions(current)
      /\ cluster_unit_hosts' = cluster_unit_hosts \cup Additions(current)
  BY DEF TakeUnit, TakeAlong
<1>4. extra' \subseteq Hosts /\ cluster_unit_hosts' \subseteq Hosts
  BY <1>3, AdditionsWithin DEF TypeOK
<1>5. TypeOK'
  BY <1>2, <1>4 DEF TakeUnit, TypeOK, latches, requests, history
<1>6. SweepInv'
  BY DEF TakeUnit, SweepInv
<1>7. \A g \in due' \cup extra' : shutdown_attempts'[g] < MaxAttempts
  BY <1>3, AdditionsHaveAttempts DEF TakeUnit, AttemptsInv, latches
<1>8. AttemptsInv'
  BY <1>7 DEF TakeUnit, AttemptsInv, latches
<1>9. QED BY <1>5, <1>6, <1>8

LEMMA TypeEndCandidates == TypeInv /\ EndCandidates => TypeInv'
<1> SUFFICES ASSUME TypeInv, EndCandidates
             PROVE  TypeInv'
  OBVIOUS
<1> USE DEF TypeInv
<1>1. due' \subseteq due \cup extra /\ extra' = {}
  BY DEF EndCandidates
<1>2. cold' \in [Hosts -> Reads \cup {"unread"}]
  BY DEF EndCandidates
<1>3. TypeOK'
  BY <1>1, <1>2 DEF EndCandidates, TypeOK, latches, facts, prep, requests, history
<1>4. SweepInv' /\ AttemptsInv'
  BY <1>1 DEF EndCandidates, SweepInv, AttemptsInv, latches
<1>5. QED BY <1>3, <1>4

LEMMA TypeFire ==
  ASSUME TypeInv, NEW h \in Hosts, NEW ok \in BOOLEAN, Fire(h, ok)
  PROVE  TypeInv'
<1> USE DEF TypeInv
<1>1. /\ h \in due /\ due' = due \ {h} /\ extra = {} /\ extra' = {}
      /\ demanded' = demanded /\ pc = "fire" /\ pc' = pc /\ current' = current
      /\ had_eligible' = had_eligible
  BY DEF Fire, SweepInv
<1>2. shutdown_attempts[h] + 1 \in 0 .. MaxAttempts
  BY <1>1, ClusterAssumption DEF TypeOK, AttemptsInv
<1>3. shutdown_attempts' \in [Hosts -> 0 .. MaxAttempts]
  BY <1>2 DEF Fire, TypeOK
<1>4. shutdown_state' \in [Hosts -> {"none", "sent", "failed"}]
  BY DEF Fire, TypeOK
<1>5. host_fired' \in SUBSET Hosts
  BY DEF Fire, TypeOK
<1>6. TypeOK'
  BY <1>3, <1>4, <1>5 DEF Fire, TypeOK, facts, prep, requests
<1>7. had_eligible
  BY <1>1 DEF SweepInv, TypeOK
<1>8. SweepInv'
  BY <1>1, <1>7 DEF SweepInv
<1>9. \A g \in Hosts \ {h} :
        /\ shutdown_attempts'[g] = shutdown_attempts[g]
        /\ g \in host_fired => g \in host_fired'
  BY DEF Fire, TypeOK
<1>10. shutdown_attempts'[h] = MaxAttempts => h \in host_fired'
  <2>1. CASE dry_run
    BY <2>1 DEF Fire
  <2>2. CASE ~dry_run
    BY <2>2, <1>2, ClusterAssumption DEF Fire, TypeOK
  <2>3. QED BY <2>1, <2>2
<1>11. \A g \in due' : g \in Hosts \ {h} /\ g \in due
  BY <1>1 DEF TypeOK
<1>12. AttemptsInv'
  BY <1>1, <1>9, <1>10, <1>11 DEF AttemptsInv
<1>13. QED BY <1>6, <1>8, <1>12

LEMMA TypeEndSweep == TypeInv /\ EndSweep => TypeInv'
<1> SUFFICES ASSUME TypeInv, EndSweep
             PROVE  TypeInv'
  OBVIOUS
<1> USE DEF TypeInv
<1>1. /\ shutdown_triggered' \in BOOLEAN
      /\ result' \in [Clusters -> PrepOutcomes \cup {"none", "announced"}]
      /\ cluster_prepared' \in SUBSET Clusters
      /\ cluster_prep_failed' \in SUBSET Clusters
      /\ cluster_inspect_failed' \in SUBSET Hosts
      /\ cluster_standalone' \in SUBSET Hosts
      /\ cluster_unit_hosts' \in SUBSET Hosts
  <2>1. CASE EpisodeOver
    BY <2>1 DEF EndSweep, ClearPreparation, NoResult
  <2>2. CASE ~EpisodeOver
    BY <2>2 DEF EndSweep, prep, TypeOK
  <2>3. QED BY <2>1, <2>2
<1>2. TypeOK'
  BY <1>1 DEF EndSweep, TypeOK, facts, requests
<1>3. SweepInv' /\ AttemptsInv'
  BY DEF EndSweep, SweepInv, AttemptsInv
<1>4. QED BY <1>2, <1>3

-----------------------------------------------------------------------------
(* The events beside the loop.                                             *)

LEMMA TypeReset == TypeInv /\ Reset => TypeInv'
<1> SUFFICES ASSUME TypeInv, Reset
             PROVE  TypeInv'
  OBVIOUS
<1>1. due' = due /\ extra' = extra
  BY DEF Reset, sweep
<1>2. TypeOK'
  BY <1>1, ReleaseType DEF TypeInv, Reset, TypeOK, facts, sweep, requests
<1>3. SweepInv'
  BY DEF Reset, TypeInv, SweepInv, sweep
<1>4. QED BY <1>1, <1>2, <1>3, ReleaseType DEF TypeInv, Reset

LEMMA TypeSwitch == TypeInv /\ SwitchDryRun => TypeInv'
<1> SUFFICES ASSUME TypeInv, SwitchDryRun
             PROVE  TypeInv'
  OBVIOUS
<1> USE DEF TypeInv
<1>1. TypeOK'
  BY DEF SwitchDryRun, TypeOK, latches, facts, prep, sweep, requests, history
<1>2. SweepInv' /\ AttemptsInv'
  BY DEF SwitchDryRun, SweepInv, AttemptsInv, latches, sweep
<1>3. QED BY <1>1, <1>2

LEMMA TypeCrash == TypeInv /\ Crash => TypeInv'
<1> SUFFICES ASSUME TypeInv, Crash
             PROVE  TypeInv'
  OBVIOUS
<1>1. due' = {} /\ extra' = {}
  BY DEF Crash
<1>2. /\ cluster_name' \in [Hosts -> Clusters \cup {NoName}]
      /\ cold' \in [Hosts -> Reads \cup {"unread"}]
      /\ result' \in [Clusters -> PrepOutcomes \cup {"none", "announced"}]
  BY DEF Crash, NoResult
<1>3. TypeOK'
  BY <1>1, <1>2, ReleaseType DEF TypeInv, Crash, TypeOK
<1>4. SweepInv'
  BY DEF Crash, SweepInv
<1>5. QED BY <1>1, <1>3, <1>4, ReleaseType DEF TypeInv, Crash

\* What an inspection reports are clusters, or the lack of one.
LEMMA InspectType ==
  ASSUME TypeOK, NEW answer, Inspect(answer)
  PROVE  /\ cluster_name' \in [Hosts -> Clusters \cup {NoName}]
         /\ Found(answer) \in SUBSET Clusters
         /\ unheard' \in SUBSET Hosts
<1>1. \A h \in Hosts : Reported(h, answer[h]) \in Clusters \cup {NoName}
  BY ClusterAssumption DEF Reported
<1>2. QED BY <1>1 DEF Inspect, Found, TypeOK

LEMMA TypeSelftest ==
  ASSUME TypeInv, NEW answer, Selftest(answer) \/ EndCheck(answer)
  PROVE  TypeInv'
<1> USE DEF TypeInv
<1>1. /\ cluster_name' \in [Hosts -> Clusters \cup {NoName}]
      /\ cluster_states' \in SUBSET Clusters
      /\ unheard' \in SUBSET Hosts
  BY InspectType DEF Selftest, EndCheck
<1>2. /\ check' \in BOOLEAN
      /\ UNCHANGED <<demanded, battery, dry_run, latches, prep, pc, sweep,
                     restore, restoring, arming, disarmed, result, begun, served>>
  BY DEF Selftest, EndCheck, requests, TypeOK
<1>3. TypeOK'
  BY <1>1, <1>2 DEF TypeOK, latches, prep, sweep
<1>4. SweepInv' /\ AttemptsInv'
  BY <1>2 DEF SweepInv, AttemptsInv, latches, sweep
<1>5. QED BY <1>3, <1>4

LEMMA TypeBeginRequest == TypeInv /\ (BeginCheck \/ BeginRestore) => TypeInv'
<1> SUFFICES ASSUME TypeInv, BeginCheck \/ BeginRestore
             PROVE  TypeInv'
  OBVIOUS
<1> USE DEF TypeInv
<1>1. /\ check' \in BOOLEAN
      /\ restore' \in {"idle", "inspect", "write", "forget", "reread"}
      /\ UNCHANGED <<demanded, battery, dry_run, latches, facts, prep, pc, sweep,
                     restoring, arming, disarmed, history>>
  BY DEF BeginCheck, BeginRestore, TypeOK
<1>2. TypeOK'
  BY <1>1 DEF TypeOK, latches, facts, prep, sweep, history
<1>3. SweepInv' /\ AttemptsInv'
  BY <1>1 DEF SweepInv, AttemptsInv, latches, sweep
<1>4. QED BY <1>2, <1>3

LEMMA TypeRestoreInspected ==
  ASSUME TypeInv, NEW answer, RestoreInspected(answer) \/ RestoreReread(answer)
  PROVE  TypeInv'
<1> USE DEF TypeInv
<1>1. /\ cluster_name' \in [Hosts -> Clusters \cup {NoName}]
      /\ cluster_states' \in SUBSET Clusters
      /\ restoring' \in SUBSET Clusters
      /\ arming' \in Clusters \cup {NoName}
      /\ unheard' \in SUBSET Hosts
  BY InspectType DEF RestoreInspected, RestoreReread, TypeOK
<1>2. /\ restore' \in {"idle", "inspect", "write", "forget", "reread"}
      /\ UNCHANGED <<demanded, battery, dry_run, latches, prep, pc, sweep, check,
                     disarmed, result, begun, served>>
  BY DEF RestoreInspected, RestoreReread, TypeOK
<1>3. TypeOK'
  BY <1>1, <1>2 DEF TypeOK, latches, prep, sweep
<1>4. SweepInv' /\ AttemptsInv'
  BY <1>2 DEF SweepInv, AttemptsInv, latches, sweep
<1>5. QED BY <1>3, <1>4

LEMMA TypeRestoreWrite ==
  ASSUME TypeInv, NEW ok \in BOOLEAN, RestoreWrite(ok)
  PROVE  TypeInv'
<1> USE DEF TypeInv
<1>1. TypeOK'
  BY DEF RestoreWrite, TypeOK, latches, facts, prep, sweep, history
<1>2. SweepInv' /\ AttemptsInv'
  BY DEF RestoreWrite, SweepInv, AttemptsInv, latches, sweep
<1>3. QED BY <1>1, <1>2

LEMMA TypeRestoreForget == TypeInv /\ RestoreForget => TypeInv'
<1> SUFFICES ASSUME TypeInv, RestoreForget
             PROVE  TypeInv'
  OBVIOUS
<1> USE DEF TypeInv
<1>1. TypeOK'
  BY DEF RestoreForget, TypeOK, latches, facts, sweep
<1>2. SweepInv' /\ AttemptsInv'
  BY DEF RestoreForget, SweepInv, AttemptsInv, latches, sweep
<1>3. QED BY <1>1, <1>2

LEMMA TypeLoop == TypeInv /\ Loop => TypeInv'
  BY TypePoll, TypeRearm, TypeSelect, TypeColdInspect, TypeSkip, TypeSettle,
     TypeBegin, TypeEnd, TypeTakeUnit, TypeEndCandidates, TypeFire, TypeEndSweep
  DEF Loop

LEMMA TypeNext == TypeInv /\ [Next]_vars => TypeInv'
<1> SUFFICES ASSUME TypeInv, [Next]_vars
             PROVE  TypeInv'
  OBVIOUS
<1>1. CASE Next
  BY <1>1, TypeLoop, TypeReset, TypeSwitch, TypeCrash, TypeSelftest,
     TypeBeginRequest, TypeRestoreInspected, TypeRestoreWrite, TypeRestoreForget
  DEF Next
<1>2. CASE UNCHANGED vars
  <2>1. TypeOK'
    BY <1>2 DEF TypeInv, TypeOK, vars, latches, facts, prep, sweep, requests,
                history
  <2>2. SweepInv' /\ AttemptsInv'
    BY <1>2 DEF TypeInv, SweepInv, AttemptsInv, vars, latches, sweep
  <2>3. QED BY <2>1, <2>2 DEF TypeInv
<1>3. QED BY <1>1, <1>2

\* Every variable keeps its type, whatever happens: in particular no host is
\* given more attempts than the limit, although hosts become due through their
\* demand, through their cluster and through retries of both.
THEOREM TypeCorrect == Spec => []TypeOK
<1>1. TypeInv => TypeOK
  BY DEF TypeInv
<1>2. QED BY TypeInit, TypeNext, <1>1, PTL DEF Spec

-----------------------------------------------------------------------------
(***************************************************************************)
(* A cluster is prepared once while a shutdown is demanded.                *)
(***************************************************************************)

\* What was begun is still latched, and the latch is cleared only when nothing
\* is demanded, which is when the history starts afresh.
BegunInv ==
  /\ begun \subseteq cluster_prepared
  /\ pc \in {"select", "fire"} /\ ~had_eligible /\ demanded = {} => begun = {}

OnceInv == TypeInv /\ BegunInv

LEMMA BegunLoop == OnceInv /\ Loop => BegunInv'
<1> SUFFICES ASSUME OnceInv, Loop
             PROVE  BegunInv'
  OBVIOUS
<1> USE DEF OnceInv, BegunInv
<1>1. CASE Poll
  BY <1>1 DEF Poll, prep, sweep
<1>2. CASE Rearm
  <2>1. begun = {}
    BY <1>2 DEF Rearm, TypeInv, SweepInv
  <2>2. QED BY <1>2, <2>1 DEF Rearm, sweep
<1>3. CASE Select
  <2>1. /\ pc = "select" /\ ~had_eligible /\ begun' = begun
        /\ cluster_prepared' = cluster_prepared /\ demanded' = demanded
    BY <1>3 DEF Select, TypeInv, SweepInv, history
  <2>2. QED BY <2>1
<1>4. CASE ColdInspect
  BY <1>4 DEF ColdInspect, prep, history
<1>5. ASSUME NEW h \in Hosts, SkipCandidate(h) \/ SettleCandidate(h)
      PROVE  BegunInv'
  BY <1>5 DEF SkipCandidate, SettleCandidate, Turn, prep, history
<1>6. ASSUME NEW h \in Hosts, BeginPreparation(h)
      PROVE  BegunInv'
  <2>1. /\ begun' \subseteq cluster_prepared'
        /\ pc' \in {"prepare", "preparing"}
    BY <1>6 DEF BeginPreparation, Turn
  <2>2. QED BY <2>1
<1>7. ASSUME NEW outcome \in PrepOutcomes, EndPreparation(outcome)
      PROVE  BegunInv'
  BY <1>7 DEF EndPreparation
<1>8. CASE TakeUnit
  BY <1>8 DEF TakeUnit, history
<1>9. CASE EndCandidates
  BY <1>9 DEF EndCandidates, TypeInv, SweepInv, prep, history
<1>10. ASSUME NEW h \in Hosts, NEW ok \in BOOLEAN, Fire(h, ok)
       PROVE  BegunInv'
  BY <1>10 DEF Fire, prep
<1>11. CASE EndSweep
  <2>1. CASE EpisodeOver
    <3>1. demanded = {} /\ begun = {}
      BY <1>11, <2>1 DEF EndSweep, EpisodeOver, TypeInv, SweepInv
    <3>2. QED BY <1>11, <3>1 DEF EndSweep
  <2>2. CASE ~EpisodeOver
    BY <1>11, <2>2 DEF EndSweep, prep
  <2>3. QED BY <2>1, <2>2
<1>12. QED
  BY <1>1, <1>2, <1>3, <1>4, <1>5, <1>6, <1>7, <1>8, <1>9, <1>10, <1>11 DEF Loop

LEMMA OnceNext == OnceInv /\ [Next]_vars => OnceInv'
<1> SUFFICES ASSUME OnceInv, [Next]_vars
             PROVE  BegunInv'
  BY TypeNext DEF OnceInv
<1>1. CASE Loop
  BY <1>1, BegunLoop
<1>2. CASE Reset \/ Crash
  BY <1>2 DEF Reset, Crash, BegunInv
<1>3. CASE RestoreForget
  BY <1>3 DEF RestoreForget, OnceInv, BegunInv, sweep
<1>4. CASE \/ SwitchDryRun \/ BeginCheck \/ BeginRestore
           \/ (\E answer \in [Hosts -> Reads] : Selftest(answer))
           \/ (\E answer \in [Hosts -> Reads] : EndCheck(answer))
           \/ (\E answer \in [Hosts -> Reads] : RestoreInspected(answer))
           \/ (\E ok \in BOOLEAN : RestoreWrite(ok))
           \/ (\E answer \in [Hosts -> Reads] : RestoreReread(answer))
  <2>1. UNCHANGED <<demanded, pc, cluster_prepared, had_eligible, begun>>
    BY <1>4 DEF SwitchDryRun, BeginCheck, BeginRestore, Selftest, EndCheck,
                RestoreInspected, RestoreWrite, RestoreReread, prep, sweep, history
  <2>2. QED BY <2>1 DEF OnceInv, BegunInv
<1>5. CASE UNCHANGED vars
  BY <1>5 DEF vars, prep, sweep, history, OnceInv, BegunInv
<1>6. QED BY <1>1, <1>2, <1>3, <1>4, <1>5 DEF Next

\* No interleaving of polls, failing preparations, requests and crashes prepares
\* a cluster twice while shutdowns stay demanded: the latch outlives a sweep that
\* commanded nothing, which is what abort-on-failure makes of it.
THEOREM OncePerEpisode == Spec => PreparedOnce
<1>1. Init => OnceInv
  BY TypeInit DEF Init, OnceInv, BegunInv
<1>2. OnceInv /\ [Next]_vars =>
        [\A c \in Clusters :
           pc = "prepare" /\ pc' = "preparing" /\ current' = c => c \notin begun]_vars
  <2> SUFFICES ASSUME OnceInv, Next, NEW c \in Clusters,
                      pc = "prepare", pc' = "preparing", current' = c
               PROVE  c \notin begun
    OBVIOUS
  <2>1. PICK h \in Hosts : BeginPreparation(h)
    BY DEF Next, Loop, Poll, Rearm, Select, ColdInspect, SkipCandidate,
           SettleCandidate, EndPreparation, TakeUnit, EndCandidates, Fire,
           EndSweep, Selftest, Reset, SwitchDryRun, Crash, BeginCheck, EndCheck,
           BeginRestore, RestoreInspected, RestoreWrite, RestoreForget,
           RestoreReread
  <2>2. c \notin cluster_prepared
    BY <2>1 DEF BeginPreparation, OnceInv, TypeInv, TypeOK
  <2>3. QED BY <2>2 DEF OnceInv, BegunInv
<1>3. QED BY <1>1, <1>2, OnceNext, PTL DEF Spec, PreparedOnce

-----------------------------------------------------------------------------
(***************************************************************************)
(* Held back by abort-on-failure.                                          *)
(***************************************************************************)

\* Nothing inspects the clusters beside _prepare_clusters, or every inspection
\* reads them: a node whose name is lost while its cluster is known is not held
\* back.
NamesHold ==
  \/ Events \cap {"selftest", "check", "restore"} = {}
  \/ Reads \subseteq {"read"}

\* Every node of c carries its name.
Stamped(c) == \A h \in Hosts : Cluster[h] = c => cluster_name[h] = c

StampsInv ==
  /\ \A h \in Hosts : cluster_name[h] \in {NoName, Cluster[h]}
  /\ \A c \in cluster_states \cup cluster_prep_failed : Stamped(c)
  /\ pc \in {"preparing", "taking"} => Stamped(current)
  /\ "restore" \notin Events => restore = "idle"
  /\ "check" \notin Events => ~check

HeldInv ==
  Abort /\ pc = "fire" =>
    \A h \in due : /\ Cluster[h] \notin cluster_prep_failed
                   /\ h \notin cluster_inspect_failed

AbortInv == TypeInv /\ StampsInv /\ HeldInv

\* Names of the nodes of c leave everything stamped that was.
LEMMA StampKeeps ==
  ASSUME TypeOK, StampsInv, NEW c \in Clusters, NEW hosts \in SUBSET NodesOf(c),
         Stamp(hosts, c)
  PROVE  /\ \A h \in Hosts : cluster_name'[h] \in {NoName, Cluster[h]}
         /\ \A d : Stamped(d) => Stamped(d)'
         /\ NodesOf(c) \subseteq hosts => Stamped(c)'
<1>1. \A h \in Hosts :
        cluster_name'[h] = IF h \in hosts THEN c ELSE cluster_name[h]
  BY DEF Stamp
<1>2. \A h \in hosts : h \in Hosts /\ Cluster[h] = c
  BY DEF NodesOf
<1>3. \A h \in Hosts : cluster_name'[h] \in {NoName, Cluster[h]}
  BY <1>1, <1>2 DEF StampsInv
<1>4. ASSUME NEW d, Stamped(d)
      PROVE  Stamped(d)'
  BY <1>1, <1>2, <1>4 DEF Stamped
<1>5. ASSUME NodesOf(c) \subseteq hosts
      PROVE  Stamped(c)'
  BY <1>1, <1>5 DEF Stamped, NodesOf
<1>6. QED BY <1>3, <1>4, <1>5

\* The members of a cluster are its nodes.
LEMMA MembersAreNodes ==
  ASSUME StampsInv, NEW c \in Clusters
  PROVE  Members(c) = NodesOf(c) /\ Additions(c) \subseteq NodesOf(c)
<1>1. Members(c) = NodesOf(c)
  BY ClusterAssumption DEF Members, NodesOf, StampsInv
<1>2. QED BY <1>1 DEF Additions

\* An inspection that may follow leaves true names, and all of them if it must.
LEMMA InspectKeeps ==
  ASSUME NamesHold, Events \cap {"selftest", "check", "restore"} # {},
         NEW answer \in [Hosts -> Reads], Inspect(answer)
  PROVE  /\ \A h \in Hosts : cluster_name'[h] \in {NoName, Cluster[h]}
         /\ \A d : Stamped(d)'
<1>1. \A h \in Hosts : answer[h] = "read"
  BY DEF NamesHold
<1>2. \A h \in Hosts : cluster_name'[h] = Cluster[h]
  BY <1>1 DEF Inspect, Reported
<1>3. QED BY <1>2 DEF Stamped

LEMMA BeginStamps ==
  ASSUME AbortInv, NEW h \in Hosts, BeginPreparation(h)
  PROVE  StampsInv'
<1> DEFINE name == IF Known(h) THEN NameOf(h) ELSE Cluster[h]
           stamped == IF Known(h) THEN {} ELSE Members(name) \cup {h}
<1>1. name \in Clusters
  BY CandidateCluster DEF BeginPreparation, AbortInv, TypeInv
<1>2. Members(name) = NodesOf(name) /\ Additions(name) \subseteq NodesOf(name)
  BY <1>1, MembersAreNodes DEF AbortInv
<1>3. stamped \subseteq NodesOf(name)
  BY <1>2 DEF NodesOf
<1>4. /\ Known(h) => name \in cluster_states
      /\ ~Known(h) => NodesOf(name) \subseteq stamped
  BY <1>2 DEF Known
<1>5. \E hosts \in {stamped, stamped \cup Additions(name)} : Stamp(hosts, name)
  BY DEF BeginPreparation
<1>6. /\ cluster_states' = cluster_states \cup {name}
      /\ cluster_prep_failed' = cluster_prep_failed
      /\ pc = "prepare" /\ (pc' = "prepare" \/ (pc' = "preparing" /\ current' = name))
      /\ restore' = restore /\ check' = check
  BY DEF BeginPreparation, Turn, requests
<1> HIDE DEF name, stamped
<1>7. PICK c \in Clusters : c = name
  BY <1>1
<1>8. PICK hosts \in SUBSET NodesOf(c) :
        /\ Stamp(hosts, c)
        /\ ~Known(h) => NodesOf(c) \subseteq hosts
  BY <1>2, <1>3, <1>4, <1>5, <1>7
<1>9. /\ \A g \in Hosts : cluster_name'[g] \in {NoName, Cluster[g]}
      /\ \A d : Stamped(d) => Stamped(d)'
      /\ NodesOf(c) \subseteq hosts => Stamped(c)'
  BY <1>8, StampKeeps DEF AbortInv, TypeInv
<1>10. Stamped(c)'
  <2>1. CASE Known(h)
    BY <1>4, <1>7, <1>9, <2>1 DEF AbortInv, StampsInv
  <2>2. CASE ~Known(h)
    BY <1>8, <1>9, <2>2
  <2>3. QED BY <2>1, <2>2
<1>11. \A d \in cluster_states' \cup cluster_prep_failed' : Stamped(d)'
  BY <1>6, <1>7, <1>9, <1>10 DEF AbortInv, StampsInv
<1>12. pc' \in {"preparing", "taking"} => Stamped(current)'
  BY <1>6, <1>7, <1>10 DEF Stamped
<1>13. QED BY <1>6, <1>9, <1>11, <1>12 DEF AbortInv, StampsInv

LEMMA StampsLoop == AbortInv /\ Loop => StampsInv'
<1> SUFFICES ASSUME AbortInv, Loop
             PROVE  StampsInv'
  OBVIOUS
<1> USE DEF AbortInv, StampsInv, Stamped
<1>1. CASE Poll
  BY <1>1 DEF Poll, facts, prep, sweep, requests
<1>2. CASE Rearm
  BY <1>2 DEF Rearm, ReleaseLatches, ClearPreparation, facts, sweep, requests
<1>3. CASE Select
  BY <1>3 DEF Select, facts, requests
<1>4. CASE ColdInspect
  BY <1>4 DEF ColdInspect, facts, prep, requests
<1>5. ASSUME NEW h \in Hosts, SkipCandidate(h) \/ SettleCandidate(h)
      PROVE  StampsInv'
  BY <1>5 DEF SkipCandidate, SettleCandidate, Turn, facts, prep, requests
<1>6. ASSUME NEW h \in Hosts, BeginPreparation(h)
      PROVE  StampsInv'
  BY <1>6, BeginStamps
<1>7. ASSUME NEW outcome \in PrepOutcomes, EndPreparation(outcome)
      PROVE  StampsInv'
  BY <1>7 DEF EndPreparation, facts, sweep, requests
<1>8. CASE TakeUnit
  <2>1. current \in Clusters
    BY <1>8 DEF TakeUnit, TypeInv, SweepInv
  <2>2. Additions(current) \in SUBSET NodesOf(current)
    BY <2>1, MembersAreNodes
  <2>3. Stamp(Additions(current), current)
    BY <1>8 DEF TakeUnit
  <2>4. /\ \A g \in Hosts : cluster_name'[g] \in {NoName, Cluster[g]}
        /\ \A d : Stamped(d) => Stamped(d)'
    BY <2>1, <2>2, <2>3, StampKeeps DEF TypeInv
  <2>5. /\ cluster_states' = cluster_states
        /\ cluster_prep_failed' = cluster_prep_failed
        /\ pc' = "prepare" /\ restore' = restore /\ check' = check
    BY <1>8 DEF TakeUnit, requests
  <2> HIDE DEF Stamped
  <2>6. \A d \in cluster_states' \cup cluster_prep_failed' : Stamped(d)'
    BY <2>4, <2>5
  <2>7. QED BY <2>4, <2>5, <2>6
<1>9. CASE EndCandidates
  BY <1>9 DEF EndCandidates, facts, prep, requests
<1>10. ASSUME NEW h \in Hosts, NEW ok \in BOOLEAN, Fire(h, ok)
       PROVE  StampsInv'
  BY <1>10 DEF Fire, facts, prep, requests
<1>11. CASE EndSweep
  BY <1>11 DEF EndSweep, ClearPreparation, facts, prep, requests
<1>12. QED
  BY <1>1, <1>2, <1>3, <1>4, <1>5, <1>6, <1>7, <1>8, <1>9, <1>10, <1>11 DEF Loop

LEMMA StampsNext ==
  ASSUME NamesHold
  PROVE  AbortInv /\ [Next]_vars => StampsInv'
<1> SUFFICES ASSUME AbortInv, [Next]_vars
             PROVE  StampsInv'
  OBVIOUS
<1> USE DEF AbortInv, StampsInv
<1>1. CASE Loop
  BY <1>1, StampsLoop
<1>2. ASSUME NEW answer \in [Hosts -> Reads],
             \/ Selftest(answer) \/ EndCheck(answer)
             \/ RestoreInspected(answer) \/ RestoreReread(answer)
      PROVE  StampsInv'
  <2>1. Inspect(answer) /\ Events \cap {"selftest", "check", "restore"} # {}
    BY <1>2 DEF Selftest, EndCheck, RestoreInspected, RestoreReread
  <2>2. /\ \A h \in Hosts : cluster_name'[h] \in {NoName, Cluster[h]}
        /\ \A d : Stamped(d)'
    BY <2>1, InspectKeeps
  <2>3. Stamped(current)' 
    BY <2>2 DEF Stamped
  <2>4. /\ "restore" \notin Events => restore' = "idle"
        /\ "check" \notin Events => ~check'
    BY <1>2 DEF Selftest, EndCheck, RestoreInspected, RestoreReread, requests
  <2>5. QED BY <2>2, <2>3, <2>4
<1>3. CASE Reset \/ SwitchDryRun \/ BeginCheck \/ BeginRestore
  BY <1>3 DEF Reset, SwitchDryRun, BeginCheck, BeginRestore, ReleaseLatches,
              ClearPreparation, facts, prep, sweep, requests, Stamped
<1>4. CASE Crash
  <2>1. /\ \A h \in Hosts : cluster_name'[h] = NoName
        /\ cluster_states' = {} /\ cluster_prep_failed' = {} /\ pc' = "wait"
        /\ restore' = "idle" /\ ~check'
    BY <1>4 DEF Crash, ReleaseLatches, ClearPreparation
  <2>2. QED BY <2>1
<1>5. ASSUME NEW ok \in BOOLEAN, RestoreWrite(ok)
      PROVE  StampsInv'
  BY <1>5 DEF RestoreWrite, facts, prep, sweep, Stamped
<1>6. CASE RestoreForget
  BY <1>6 DEF RestoreForget, facts, sweep, Stamped
<1>7. CASE UNCHANGED vars
  BY <1>7 DEF vars, facts, prep, sweep, requests, Stamped
<1>8. QED BY <1>1, <1>2, <1>3, <1>4, <1>5, <1>6, <1>7 DEF Next

\* Attempts are counted nowhere else.
LEMMA OnlyFireCommands ==
  ASSUME TypeInv, Next, NEW h \in Hosts, Commanded(h)
  PROVE  \E g \in Hosts, ok \in BOOLEAN : Fire(g, ok)
<1> SUFFICES ASSUME \A g \in Hosts, ok \in BOOLEAN : ~Fire(g, ok)
             PROVE  FALSE
  OBVIOUS
<1>1. CASE Select \/ Rearm \/ Reset \/ Crash
  <2>1. shutdown_attempts'[h] \in {0, shutdown_attempts[h]}
    BY <1>1 DEF Select, Rearm, Reset, Crash, ReleaseLatches
  <2>2. QED BY <2>1, ClusterAssumption DEF Commanded, TypeInv, TypeOK
<1>2. CASE ~(Select \/ Rearm \/ Reset \/ Crash)
  <2>1. shutdown_attempts' = shutdown_attempts
    BY <1>2 DEF Next, Loop, Poll, ColdInspect, SkipCandidate, SettleCandidate,
           BeginPreparation, EndPreparation, TakeUnit, EndCandidates, EndSweep,
           Selftest, SwitchDryRun, BeginCheck, EndCheck, BeginRestore,
           RestoreInspected, RestoreWrite, RestoreForget, RestoreReread, latches
  <2>2. QED BY <2>1, ClusterAssumption DEF Commanded, TypeInv, TypeOK
<1>3. QED BY <1>1, <1>2

LEMMA HeldNext == AbortInv /\ [Next]_vars => HeldInv'
<1> SUFFICES ASSUME AbortInv, [Next]_vars, Abort, pc' = "fire", NEW h \in due'
             PROVE  /\ Cluster[h] \notin cluster_prep_failed'
                    /\ h \notin cluster_inspect_failed'
  BY DEF HeldInv
<1> USE DEF AbortInv
<1>1. CASE EndCandidates
  <2>1. h \in Hosts /\ ~HeldBack(h)
    BY <1>1 DEF EndCandidates, TypeInv, TypeOK
  <2>2. Cluster[h] \in cluster_prep_failed => cluster_name[h] = Cluster[h]
    BY <2>1 DEF StampsInv, Stamped
  <2>3. QED BY <1>1, <2>1, <2>2 DEF EndCandidates, HeldBack, prep
<1>2. CASE Select
  BY <1>2 DEF Select
<1>3. CASE ~EndCandidates /\ ~Select
  <2>1. /\ pc = "fire" /\ due' \subseteq due
        /\ cluster_prep_failed' \subseteq cluster_prep_failed
        /\ cluster_inspect_failed' \subseteq cluster_inspect_failed
    BY <1>3 DEF Next, Loop, Poll, Rearm, ColdInspect, SkipCandidate, Turn,
           SettleCandidate, BeginPreparation, EndPreparation, TakeUnit, Fire,
           EndSweep, Selftest, Reset, SwitchDryRun, Crash, BeginCheck, EndCheck,
           BeginRestore, RestoreInspected, RestoreWrite, RestoreForget,
           RestoreReread, ReleaseLatches, ClearPreparation, prep, sweep, vars
  <2>2. QED BY <2>1 DEF HeldInv
<1>4. QED BY <1>1, <1>2, <1>3

\* Abort-on-failure keeps every node down the list: however preparations and
\* inspections fail, whichever node asked first, and through resets, crashes and
\* retries, no node of a cluster whose preparation failed is commanded, provided
\* nothing takes away the names of nodes (see NamesHold).
THEOREM AbortHolds == NamesHold /\ Spec => HeldBackStays
<1> SUFFICES ASSUME NamesHold
             PROVE  Spec => HeldBackStays
  OBVIOUS
<1>1. Init => AbortInv
  <2> SUFFICES ASSUME Init
               PROVE  AbortInv
    OBVIOUS
  <2>1. StampsInv /\ HeldInv
    BY DEF Init, StampsInv, HeldInv
  <2>2. QED BY <2>1, TypeInit DEF AbortInv
<1>2. AbortInv /\ [Next]_vars => AbortInv'
  BY TypeNext, StampsNext, HeldNext DEF AbortInv
<1>3. AbortInv /\ [Next]_vars =>
        [\A h \in Hosts :
           Commanded(h) /\ Abort => /\ Cluster[h] \notin cluster_prep_failed
                                    /\ h \notin cluster_inspect_failed]_vars
  <2> SUFFICES ASSUME AbortInv, Next, NEW h \in Hosts, Commanded(h), Abort
               PROVE  /\ Cluster[h] \notin cluster_prep_failed
                      /\ h \notin cluster_inspect_failed
    OBVIOUS
  <2>1. PICK g \in Hosts, ok \in BOOLEAN : Fire(g, ok)
    BY OnlyFireCommands DEF AbortInv
  <2>2. g = h
    BY <2>1 DEF Fire, Commanded, AbortInv, TypeInv, TypeOK
  <2>3. QED BY <2>1, <2>2 DEF Fire, AbortInv, HeldInv
<1>4. QED BY <1>1, <1>2, <1>3, PTL DEF Spec, HeldBackStays

-----------------------------------------------------------------------------
(***************************************************************************)
(* Prepared before it goes down.                                           *)
(***************************************************************************)

\* The preparation of c is underway.
Awaited(c) == pc = "preparing" /\ c = current

\* The cluster of h, if it has one, was or is being prepared, or h told nothing.
Handled(h) ==
  \/ Cluster[h] = NoName
  \/ h \in unheard
  \/ Cluster[h] \in cluster_prepared
  \/ result[Cluster[h]] # "none"
  \/ Awaited(Cluster[h])

\* The turn of h, a node, will not be skipped: its cluster is known, its own answer
\* is there, or a candidate before it has read the cluster.
TurnCounts(h, S) ==
  \/ h \in unheard
  \/ Cluster[h] \in cluster_states
  \/ cold[h] # "unread"
  \/ \E f \in S : /\ Rank[f] < Rank[h] /\ Cluster[f] = Cluster[h]
                  /\ cold[f] = "read" /\ ~Settled(f)

\* The names are true ones.
NamesInv == \A h \in Hosts : cluster_name[h] \in {NoName, Cluster[h]}

\* Where the hosts of a sweep are.
ListsInv ==
  /\ pc \in {"wait", "select"} => due = {}
  /\ pc \in {"wait", "select", "fire"} => candidates = {}
  /\ pc = "cold" => due \subseteq candidates
  /\ pc = "taking" => result[current] # "none"

\* A due host is still a candidate, or its cluster is handled.
DueInv == \A h \in due \cup extra : h \in candidates \/ Handled(h)

\* What a sweep holds against a node: it told nothing.
UnheardInv ==
  /\ pc \notin {"wait", "select"} =>
       \A h \in Hosts : Settled(h) => Cluster[h] = NoName \/ h \in unheard
  /\ \A h \in Hosts : cold[h] \notin {"unread", "read"} =>
       h \in unheard /\ pc \in {"prepare", "preparing", "taking"}

TurnInv ==
  pc \in {"prepare", "preparing", "taking"} =>
    \A h \in candidates : Cluster[h] # NoName => TurnCounts(h, candidates)

\* What is latched as prepared was prepared, or a dry run said so.
LatchInv == \A c \in cluster_prepared : result[c] # "none" \/ Awaited(c)

PrepInv ==
  /\ TypeInv /\ NamesInv /\ ListsInv
  /\ DueInv /\ UnheardInv /\ TurnInv /\ LatchInv

LEMMA PrepInit == Init => PrepInv
<1> SUFFICES ASSUME Init
             PROVE  PrepInv
  OBVIOUS
<1>1. TypeInv
  BY TypeInit
<1>2. NamesInv /\ ListsInv /\ DueInv /\ UnheardInv /\ TurnInv /\ LatchInv
  BY DEF Init, NamesInv, ListsInv, DueInv, UnheardInv, TurnInv, LatchInv
<1>3. QED BY <1>1, <1>2 DEF PrepInv

\* Every set of hosts has a foremost one, for Rank counts in naturals.
LEMMA ForemostExists ==
  ASSUME NEW S \in SUBSET Hosts, S # {}
  PROVE  Foremost(S) \in S /\ \A g \in S : Rank[Foremost(S)] <= Rank[g]
<1> DEFINE T == {Rank[h] : h \in S}
           R == {p \in Nat \X Nat : p[1] < p[2]}
<1>1. T \subseteq Nat /\ T # {}
  BY ClusterAssumption
<1>2. IsWellFoundedOn(R, Nat)
  BY NatLessThanWellFounded DEF OpToRel
<1> HIDE DEF R, T
<1>3. PICK n \in T : \A m \in T : <<m, n>> \notin R
  BY <1>1, <1>2, WFMin
<1>4. \A m \in T : n <= m
  <2> SUFFICES ASSUME NEW m \in T
               PROVE  n <= m
    OBVIOUS
  <2>1. m \in Nat /\ n \in Nat /\ <<m, n>> \notin R
    BY <1>1, <1>3
  <2>2. ~(m < n)
    BY <2>1 DEF R
  <2>3. QED BY <2>1, <2>2
<1>5. \E h \in S : \A g \in S : Rank[h] <= Rank[g]
  BY <1>3, <1>4 DEF T
<1>6. QED BY <1>5 DEF Foremost

\* A cluster is known by the names of its nodes or by its list of them.
LEMMA KnownByName ==
  ASSUME TypeOK, NamesInv, NEW h \in Hosts
  PROVE  /\ Known(h) <=> Cluster[h] \in cluster_states
         /\ Known(h) => NameOf(h) = Cluster[h] /\ Cluster[h] # NoName
<1>1. NoName \notin cluster_states
  BY ClusterAssumption DEF TypeOK
<1>2. cluster_name[h] \in {NoName, Cluster[h]}
  BY DEF NamesInv
<1>3. QED BY <1>1, <1>2 DEF Known, NameOf

\* The members of a cluster are its nodes.
LEMMA TrueMembers ==
  ASSUME NamesInv, NEW c \in Clusters
  PROVE  Members(c) = NodesOf(c) /\ Additions(c) \subseteq NodesOf(c)
<1>1. Members(c) = NodesOf(c)
  BY ClusterAssumption DEF Members, NodesOf, NamesInv
<1>2. QED BY <1>1 DEF Additions

\* What a step leaves of the lists: the latch of a preparation may go, for its
\* result stays.
LEMMA HandledKept ==
  ASSUME LatchInv, unheard \subseteq unheard',
         \A c \in Clusters : result[c] # "none" => result'[c] # "none",
         \A c \in Clusters : Awaited(c) => Awaited(c)' \/ result'[c] # "none"
  PROVE  \A h \in Hosts : Handled(h) => Handled(h)'
  BY ClusterAssumption DEF Handled, LatchInv

LEMMA TurnKept ==
  ASSUME TurnInv, candidates' = candidates, cold' = cold,
         cluster_states \subseteq cluster_states', unheard \subseteq unheard',
         \A f \in candidates : Settled(f)' => Settled(f),
         pc' \in {"prepare", "preparing", "taking"} =>
           pc \in {"prepare", "preparing", "taking"}
  PROVE  TurnInv'
  BY DEF TurnInv, TurnCounts

\* Names that are recorded with a cluster are those of its nodes.
LEMMA StampTrue ==
  ASSUME NamesInv, NEW c \in Clusters, NEW hosts \in SUBSET NodesOf(c),
         Stamp(hosts, c)
  PROVE  NamesInv'
  BY DEF NamesInv, Stamp, NodesOf

LEMMA PrepPoll == PrepInv /\ Poll => PrepInv'
<1> SUFFICES ASSUME PrepInv, Poll
             PROVE  PrepInv'
  OBVIOUS
<1>1. TypeInv'
  BY TypePoll DEF PrepInv
<1>2. /\ due = {} /\ extra = {} /\ candidates = {} /\ pc = "wait" /\ pc' = "select"
      /\ UNCHANGED <<facts, prep, sweep, unheard>>
  BY DEF PrepInv, ListsInv, TypeInv, SweepInv, Poll
<1>3. NamesInv' /\ ListsInv' /\ DueInv' /\ UnheardInv' /\ TurnInv'
  BY <1>2 DEF PrepInv, NamesInv, ListsInv, DueInv, UnheardInv, TurnInv, facts, sweep
<1>4. \A c \in cluster_prepared : result'[c] = result[c]
  BY DEF Poll, PrepInv, TypeInv, TypeOK
<1>5. LatchInv'
  BY <1>2, <1>4 DEF PrepInv, LatchInv, Awaited, prep
<1>6. QED BY <1>1, <1>3, <1>5 DEF PrepInv

LEMMA PrepRearm == PrepInv /\ Rearm => PrepInv'
<1> SUFFICES ASSUME PrepInv, Rearm
             PROVE  PrepInv'
  OBVIOUS
<1>1. TypeInv'
  BY TypeRearm DEF PrepInv
<1>2. /\ due = {} /\ extra = {} /\ candidates = {} /\ pc = "select" /\ pc' = pc
      /\ cluster_prepared' = {}
      /\ UNCHANGED <<facts, sweep, unheard>>
  BY DEF PrepInv, ListsInv, TypeInv, SweepInv, Rearm, ReleaseLatches,
         ClearPreparation
<1>3. NamesInv' /\ ListsInv' /\ DueInv' /\ UnheardInv' /\ TurnInv' /\ LatchInv'
  BY <1>2 DEF PrepInv, NamesInv, ListsInv, DueInv, UnheardInv, TurnInv, LatchInv,
              facts, sweep
<1>4. QED BY <1>1, <1>3 DEF PrepInv

LEMMA PrepSelect == PrepInv /\ Select => PrepInv'
<1> SUFFICES ASSUME PrepInv, Select
             PROVE  PrepInv'
  OBVIOUS
<1>1. TypeInv'
  BY TypeSelect DEF PrepInv
<1>2. /\ extra' = {} /\ candidates' = due' /\ pc = "select"
      /\ pc' = IF due' = {} THEN "fire" ELSE "cold"
      /\ unheard' = cluster_inspect_failed \cup cluster_standalone
      /\ UNCHANGED <<facts, cold, cluster_prepared, cluster_inspect_failed,
                     cluster_standalone, result>>
  BY DEF PrepInv, TypeInv, SweepInv, Select
<1>3. NamesInv' /\ ListsInv' /\ DueInv' /\ TurnInv'
  BY <1>2 DEF PrepInv, NamesInv, ListsInv, DueInv, TurnInv, facts
<1>4. UnheardInv'
  BY <1>2 DEF PrepInv, UnheardInv, Settled
<1>5. LatchInv'
  BY <1>2 DEF PrepInv, LatchInv, Awaited
<1>6. QED BY <1>1, <1>3, <1>4, <1>5 DEF PrepInv

LEMMA PrepColdInspect == PrepInv /\ ColdInspect => PrepInv'
<1> SUFFICES ASSUME PrepInv, ColdInspect
             PROVE  PrepInv'
  OBVIOUS
<1> DEFINE first == Foremost(Pending)
           listed(answer) ==
             IF Pending = {} \/ Reported(first, answer[first]) = NoName
             THEN {} ELSE NodesOf(Cluster[first])
           asked(answer) == {h \in Pending : h = first \/ h \notin listed(answer)}
<1>1. TypeInv'
  BY TypeColdInspect DEF PrepInv
<1>2. PICK answer \in [Pending -> Reads] :
        /\ cold' = [h \in Hosts |-> IF h \in asked(answer) THEN answer[h]
                                    ELSE "unread"]
        /\ unheard' = unheard \cup {h \in asked(answer) : answer[h] # "read"}
  BY DEF ColdInspect
<1>3. /\ pc = "cold" /\ pc' = "prepare"
      /\ UNCHANGED <<facts, prep, due, candidates, extra, result>>
  BY DEF ColdInspect
<1>4. Pending \in SUBSET Hosts
  BY PendingWithin DEF PrepInv, TypeInv
<1>5. NamesInv' /\ ListsInv'
  BY <1>3 DEF PrepInv, NamesInv, ListsInv, facts
<1>6. LatchInv'
  BY <1>3 DEF PrepInv, LatchInv, Awaited, prep
<1>7. DueInv'
  BY <1>2, <1>3 DEF PrepInv, ListsInv, TypeInv, SweepInv, DueInv
<1>8. UnheardInv'
  <2>1. \A h \in Hosts : Settled(h)' => Cluster[h] = NoName \/ h \in unheard'
    BY <1>2, <1>3 DEF Settled, prep, PrepInv, UnheardInv
  <2>2. \A h \in Hosts : cold'[h] \notin {"unread", "read"} => h \in unheard'
    BY <1>2
  <2>3. QED BY <1>3, <2>1, <2>2 DEF UnheardInv
<1>9. ASSUME NEW h \in candidates, Cluster[h] # NoName
      PROVE  TurnCounts(h, candidates)'
  <2>1. h \in Hosts
    BY DEF PrepInv, TypeInv, TypeOK
  <2>2. CASE h \notin Pending
    <3>1. Settled(h) \/ Known(h)
      BY <2>2 DEF Pending, Settled
    <3>2. h \in unheard \/ Cluster[h] \in cluster_states
      BY <1>3, <1>9, <2>1, <3>1, KnownByName DEF PrepInv, UnheardInv, TypeInv
    <3>3. QED BY <1>2, <1>3, <3>2 DEF TurnCounts, facts
  <2>3. CASE h \in asked(answer)
    <3>1. cold'[h] = answer[h] /\ answer[h] \in Reads
      BY <1>2, <2>1, <2>3
    <3>2. cold'[h] # "unread"
      BY <3>1, ClusterAssumption
    <3>3. QED BY <3>2 DEF TurnCounts
  <2>4. CASE h \in Pending /\ h \notin asked(answer)
    <3>1. /\ Reported(first, answer[first]) # NoName
          /\ h \in NodesOf(Cluster[first]) /\ h # first
      BY <2>4
    <3>2. first \in Pending /\ Rank[first] <= Rank[h] /\ first \in asked(answer)
      BY <1>4, <2>4, ForemostExists
    <3> HIDE DEF first, listed
    <3>3. PICK f \in Hosts : f = first /\ Cluster[h] = Cluster[f]
      BY <1>4, <3>1, <3>2 DEF NodesOf
    <3>4. cold'[f] = "read"
      BY <1>2, <3>1, <3>2, <3>3 DEF Reported
    <3>5. Rank[f] < Rank[h]
      BY <2>1, <3>1, <3>2, <3>3, ClusterAssumption
    <3>6. f \in candidates' /\ ~Settled(f)'
      BY <1>3, <3>2, <3>3 DEF Pending, Settled, prep
    <3>7. QED BY <3>3, <3>4, <3>5, <3>6 DEF TurnCounts
  <2>5. QED BY <2>2, <2>3, <2>4
<1>10. TurnInv'
  BY <1>3, <1>9 DEF TurnInv
<1>11. QED BY <1>1, <1>5, <1>6, <1>7, <1>8, <1>10 DEF PrepInv

LEMMA PrepSkip ==
  ASSUME PrepInv, NEW h \in Hosts, SkipCandidate(h)
  PROVE  PrepInv'
<1>1. TypeInv'
  BY TypeSkip DEF PrepInv
<1>2. /\ pc = "prepare" /\ candidates' = candidates \ {h} /\ h \in candidates
      /\ \A g \in candidates : Rank[h] <= Rank[g]
      /\ UNCHANGED <<facts, prep, pc, due, extra, cold, current, result, unheard>>
      /\ Settled(h) \/ (~Known(h) /\ cold[h] = "unread")
  BY DEF SkipCandidate, Turn, history
<1>3. NamesInv' /\ ListsInv' /\ UnheardInv' /\ LatchInv'
  BY <1>2 DEF PrepInv, NamesInv, ListsInv, UnheardInv, Settled, LatchInv, Awaited,
              facts, prep
<1>4. Handled(h)
  <2> SUFFICES ASSUME Cluster[h] # NoName, h \notin unheard
               PROVE  FALSE
    BY DEF Handled
  <2>1. TurnCounts(h, candidates)
    BY <1>2 DEF PrepInv, TurnInv
  <2>2. \A f \in candidates : ~(Rank[f] < Rank[h])
    <3>1. \A f \in candidates : f \in Hosts
      BY DEF PrepInv, TypeInv, TypeOK
    <3>2. QED BY <1>2, <3>1, ClusterAssumption
  <2>3. ~Settled(h)
    BY <1>2 DEF PrepInv, UnheardInv
  <2>4. QED BY <1>2, <2>1, <2>2, <2>3, KnownByName DEF TurnCounts, PrepInv, TypeInv
<1>5. DueInv'
  <2>1. \A g \in Hosts : Handled(g) => Handled(g)'
    BY <1>2, HandledKept DEF PrepInv, Awaited
  <2>2. \A g \in due' \cup extra' : g \in Hosts
    BY <1>1 DEF TypeInv, TypeOK
  <2>3. QED BY <1>2, <1>4, <2>1, <2>2 DEF PrepInv, DueInv
<1>6. TurnInv'
  <2>1. ASSUME NEW g \in candidates', Cluster[g] # NoName
        PROVE  TurnCounts(g, candidates)'
    <3>1. \A f \in candidates : f = h => ~(cold[f] = "read" /\ ~Settled(f))
      BY <1>2
    <3>2. TurnCounts(g, candidates)
      BY <1>2, <2>1 DEF PrepInv, TurnInv
    <3>3. \A f : Settled(f)' <=> Settled(f)
      BY <1>2 DEF Settled, prep
    <3>4. QED BY <1>2, <3>1, <3>2, <3>3 DEF TurnCounts, facts
  <2>2. QED BY <2>1 DEF TurnInv
<1>7. QED BY <1>1, <1>3, <1>5, <1>6 DEF PrepInv

LEMMA PrepSettle ==
  ASSUME PrepInv, NEW h \in Hosts, SettleCandidate(h)
  PROVE  PrepInv'
<1>1. TypeInv'
  BY TypeSettle DEF PrepInv
<1>2. /\ pc = "prepare" /\ candidates' = candidates \ {h} /\ h \in candidates
      /\ UNCHANGED <<facts, pc, due, extra, cold, current, cluster_prepared, result,
                     unheard>>
      /\ Reported(h, cold[h]) = NoName /\ cold[h] # "unread"
      /\ \A g : Settled(g)' <=> Settled(g) \/ g = h
  BY DEF SettleCandidate, Turn, history, Settled
<1>3. Cluster[h] = NoName \/ (cold[h] # "read" /\ h \in unheard)
  BY <1>2 DEF Reported, PrepInv, UnheardInv
<1>4. NamesInv' /\ ListsInv' /\ LatchInv'
  BY <1>2 DEF PrepInv, NamesInv, ListsInv, LatchInv, Awaited, facts
<1>5. UnheardInv'
  BY <1>2, <1>3 DEF PrepInv, UnheardInv
<1>6. DueInv'
  <2>1. \A g \in Hosts : Handled(g) => Handled(g)'
    BY <1>2, HandledKept DEF PrepInv, Awaited
  <2>2. Handled(h)'
    BY <1>2, <1>3 DEF Handled
  <2>3. \A g \in due' \cup extra' : g \in Hosts
    BY <1>1 DEF TypeInv, TypeOK
  <2>4. QED BY <1>2, <2>1, <2>2, <2>3 DEF PrepInv, DueInv
<1>7. TurnInv'
  <2>1. ASSUME NEW g \in candidates', Cluster[g] # NoName
        PROVE  TurnCounts(g, candidates)'
    <3>1. TurnCounts(g, candidates)
      BY <1>2, <2>1 DEF PrepInv, TurnInv
    <3>2. Cluster[h] = Cluster[g] => cold[h] # "read"
      BY <1>3, <2>1
    <3>3. QED BY <1>2, <3>1, <3>2 DEF TurnCounts, facts
  <2>2. QED BY <2>1 DEF TurnInv
<1>8. QED BY <1>1, <1>4, <1>5, <1>6, <1>7 DEF PrepInv

LEMMA PrepBegin ==
  ASSUME PrepInv, NEW h \in Hosts, BeginPreparation(h)
  PROVE  PrepInv'
<1> DEFINE name == IF Known(h) THEN NameOf(h) ELSE Cluster[h]
           stamped == IF Known(h) THEN {} ELSE Members(name) \cup {h}
<1>1. TypeInv'
  BY TypeBegin DEF PrepInv
<1>2. name = Cluster[h]
  BY KnownByName DEF PrepInv, TypeInv
<1>3. name \in Clusters
  BY CandidateCluster DEF BeginPreparation, PrepInv, TypeInv
<1>4. Members(name) = NodesOf(name) /\ Additions(name) \subseteq NodesOf(name)
  BY <1>3, TrueMembers DEF PrepInv
<1>5. stamped \cup Additions(name) \subseteq NodesOf(name)
  BY <1>2, <1>4 DEF NodesOf
<1>6. /\ pc = "prepare" /\ candidates' = candidates \ {h} /\ h \in candidates
      /\ cluster_states' = cluster_states \cup {name}
      /\ cluster_prepared' = cluster_prepared \cup {name}
      /\ UNCHANGED <<cluster_inspect_failed, cluster_standalone, due, cold, unheard>>
      /\ \E hosts \in {stamped, stamped \cup Additions(name)} : Stamp(hosts, name)
      /\ extra' \in {extra, extra \cup Additions(name)}
  BY DEF BeginPreparation, Turn, TakeAlong
<1>7. \/ name \in cluster_prepared /\ UNCHANGED <<pc, result>>
      \/ pc' = pc /\ result' = [result EXCEPT ![name] = "announced"]
      \/ pc' = "preparing" /\ current' = name /\ result' = result
  BY DEF BeginPreparation
<1> HIDE DEF name, stamped
<1>8. PICK c \in Clusters : c = name
  BY <1>3
<1>9. \A d \in Clusters : result[d] # "none" => result'[d] # "none"
  BY <1>7, <1>8 DEF PrepInv, TypeInv, TypeOK
<1>10. c \in cluster_prepared \/ result'[c] # "none" \/ Awaited(c)'
  BY <1>7, <1>8 DEF PrepInv, TypeInv, TypeOK, Awaited
<1>11. pc' \in {"prepare", "preparing"}
  BY <1>6, <1>7
<1>12. NamesInv'
  BY <1>5, <1>6, <1>8, StampTrue DEF PrepInv
<1>13. ListsInv'
  BY <1>6, <1>11 DEF PrepInv, ListsInv
<1>14. UnheardInv'
  BY <1>6, <1>11 DEF PrepInv, UnheardInv, Settled
<1>15. LatchInv'
  <2>1. \A d \in cluster_prepared : d \in Clusters /\ result'[d] # "none"
    BY <1>6, <1>9 DEF PrepInv, TypeInv, TypeOK, LatchInv, Awaited
  <2>2. QED BY <1>6, <1>8, <1>10, <2>1 DEF LatchInv
<1>16. DueInv'
  <2>1. \A g \in Hosts : Handled(g) => Handled(g)'
    BY <1>6, <1>9, HandledKept DEF PrepInv, Awaited
  <2>2. \A g \in NodesOf(name) \cup {h} : Handled(g)'
    BY <1>2, <1>6 DEF Handled, NodesOf
  <2>3. extra' \subseteq extra \cup NodesOf(name)
    BY <1>5, <1>6
  <2>4. \A g \in due' \cup extra' : g \in Hosts
    BY <1>1 DEF TypeInv, TypeOK
  <2>5. QED BY <1>6, <2>1, <2>2, <2>3, <2>4 DEF PrepInv, DueInv
<1>17. TurnInv'
  <2>1. ASSUME NEW g \in candidates', Cluster[g] # NoName
        PROVE  TurnCounts(g, candidates)'
    <3>1. TurnCounts(g, candidates)
      BY <1>6, <2>1 DEF PrepInv, TurnInv
    <3>2. Cluster[h] = Cluster[g] => Cluster[g] \in cluster_states'
      BY <1>2, <1>6
    <3>3. \A f : Settled(f)' <=> Settled(f)
      BY <1>6 DEF Settled
    <3>4. QED BY <1>6, <3>1, <3>2, <3>3 DEF TurnCounts
  <2>2. QED BY <2>1 DEF TurnInv
<1>18. QED BY <1>1, <1>12, <1>13, <1>14, <1>15, <1>16, <1>17 DEF PrepInv

LEMMA PrepEnd ==
  ASSUME PrepInv, NEW outcome \in PrepOutcomes, EndPreparation(outcome)
  PROVE  PrepInv'
<1>1. TypeInv'
  BY TypeEnd DEF PrepInv
<1>2. /\ pc = "preparing" /\ pc' = "taking"
      /\ UNCHANGED <<facts, cluster_prepared, cluster_inspect_failed,
                     cluster_standalone, sweep, unheard>>
      /\ result' = [result EXCEPT ![current] = outcome]
  BY DEF EndPreparation
<1>3. current \in Clusters /\ outcome # "none"
  BY <1>2, ClusterAssumption DEF PrepInv, TypeInv, SweepInv
<1>4. result'[current] # "none"
  BY <1>2, <1>3 DEF PrepInv, TypeInv, TypeOK
<1>5. \A c \in Clusters : result[c] # "none" => result'[c] # "none"
  BY <1>2, <1>3 DEF PrepInv, TypeInv, TypeOK
<1>6. NamesInv' /\ ListsInv' /\ UnheardInv'
  BY <1>2, <1>4 DEF PrepInv, NamesInv, ListsInv, UnheardInv, Settled, facts, sweep
<1>7. DueInv'
  <2>1. \A g \in Hosts : Handled(g) => Handled(g)'
    BY <1>2, <1>4, <1>5, HandledKept DEF PrepInv, Awaited, sweep
  <2>2. \A g \in due \cup extra : g \in Hosts
    BY DEF PrepInv, TypeInv, TypeOK
  <2>3. QED BY <1>2, <2>1, <2>2 DEF PrepInv, DueInv, sweep
<1>8. TurnInv'
  BY <1>2, TurnKept DEF PrepInv, Settled, sweep, facts
<1>9. LatchInv'
  <2>1. \A c \in cluster_prepared : c \in Clusters
    BY DEF PrepInv, TypeInv, TypeOK
  <2>2. QED BY <1>2, <1>4, <1>5, <2>1 DEF PrepInv, LatchInv, Awaited
<1>10. QED BY <1>1, <1>6, <1>7, <1>8, <1>9 DEF PrepInv

LEMMA PrepTakeUnit == PrepInv /\ TakeUnit => PrepInv'
<1> SUFFICES ASSUME PrepInv, TakeUnit
             PROVE  PrepInv'
  OBVIOUS
<1>1. TypeInv'
  BY TypeTakeUnit DEF PrepInv
<1>2. /\ pc = "taking" /\ pc' = "prepare"
      /\ extra' = extra \cup Additions(current)
      /\ Stamp(Additions(current), current)
      /\ UNCHANGED <<cluster_states, cluster_prepared, cluster_inspect_failed,
                     cluster_standalone, due, candidates, cold, result, unheard>>
  BY DEF TakeUnit, TakeAlong, history
<1>3. current \in Clusters /\ result[current] # "none"
  BY <1>2 DEF PrepInv, TypeInv, SweepInv, ListsInv
<1>4. Additions(current) \in SUBSET NodesOf(current)
  BY <1>3, TrueMembers DEF PrepInv
<1>5. NamesInv'
  BY <1>2, <1>3, <1>4, StampTrue DEF PrepInv
<1>6. ListsInv' /\ UnheardInv'
  BY <1>2 DEF PrepInv, ListsInv, UnheardInv, Settled
<1>7. DueInv'
  <2>1. \A g \in Hosts : Handled(g) => Handled(g)'
    BY <1>2, HandledKept DEF PrepInv, Awaited
  <2>2. \A g \in NodesOf(current) : Handled(g)'
    BY <1>2, <1>3 DEF NodesOf, Handled
  <2>3. \A g \in due' \cup extra' : g \in Hosts
    BY <1>1 DEF TypeInv, TypeOK
  <2>4. QED BY <1>2, <1>4, <2>1, <2>2, <2>3 DEF PrepInv, DueInv
<1>8. TurnInv'
  BY <1>2, TurnKept DEF PrepInv, Settled
<1>9. LatchInv'
  BY <1>2 DEF PrepInv, LatchInv, Awaited
<1>10. QED BY <1>1, <1>5, <1>6, <1>7, <1>8, <1>9 DEF PrepInv

LEMMA PrepFiring ==
  ASSUME PrepInv,
         \/ EndCandidates
         \/ \E h \in Hosts, ok \in BOOLEAN : Fire(h, ok)
  PROVE  PrepInv'
<1>1. TypeInv'
  BY TypeEndCandidates, TypeFire DEF PrepInv
<1>2. /\ pc \in {"prepare", "fire"} /\ pc' = "fire" /\ candidates = {}
      /\ candidates' = {} /\ due' \cup extra' \subseteq due \cup extra
      /\ UNCHANGED <<facts, prep, result, unheard>>
  BY DEF EndCandidates, Fire, history, PrepInv, ListsInv
<1>3. NamesInv' /\ ListsInv' /\ TurnInv'
  BY <1>2 DEF PrepInv, NamesInv, ListsInv, TurnInv, facts
<1>4. \A h \in Hosts : cold'[h] \in {"unread", "read"}
  <2>1. CASE EndCandidates
    BY <2>1 DEF EndCandidates
  <2>2. CASE \E h \in Hosts, ok \in BOOLEAN : Fire(h, ok)
    BY <2>2 DEF Fire, PrepInv, UnheardInv
  <2>3. QED BY <2>1, <2>2
<1>5. UnheardInv'
  BY <1>2, <1>4 DEF PrepInv, UnheardInv, Settled, prep
<1>6. DueInv'
  <2>1. \A g \in Hosts : Handled(g) => Handled(g)'
    BY <1>2, HandledKept DEF PrepInv, Awaited
  <2>2. \A g \in due' \cup extra' : g \in Hosts
    BY <1>1 DEF TypeInv, TypeOK
  <2>3. QED BY <1>2, <2>1, <2>2 DEF PrepInv, DueInv
<1>7. LatchInv'
  BY <1>2 DEF PrepInv, LatchInv, Awaited, prep
<1>8. QED BY <1>1, <1>3, <1>5, <1>6, <1>7 DEF PrepInv

LEMMA PrepEndSweep == PrepInv /\ EndSweep => PrepInv'
<1> SUFFICES ASSUME PrepInv, EndSweep
             PROVE  PrepInv'
  OBVIOUS
<1>1. TypeInv'
  BY TypeEndSweep DEF PrepInv
<1>2. /\ due' = {} /\ extra' = {} /\ candidates' = {} /\ pc = "fire" /\ pc' = "wait"
      /\ UNCHANGED <<facts, cold, unheard>>
  BY DEF EndSweep, PrepInv, ListsInv, TypeInv, SweepInv
<1>3. cluster_prepared' = {} \/ UNCHANGED <<prep, result>>
  BY DEF EndSweep, ClearPreparation
<1>4. NamesInv' /\ ListsInv' /\ DueInv' /\ UnheardInv' /\ TurnInv'
  BY <1>2 DEF PrepInv, NamesInv, ListsInv, DueInv, UnheardInv, TurnInv, facts
<1>5. LatchInv'
  BY <1>2, <1>3 DEF PrepInv, LatchInv, Awaited, prep
<1>6. QED BY <1>1, <1>4, <1>5 DEF PrepInv

\* An inspection beside the loop leaves true names, and each host it drops from
\* what is known is one that told it nothing.
LEMMA PrepInspect ==
  ASSUME PrepInv, NEW answer \in [Hosts -> Reads],
         \/ Selftest(answer) \/ EndCheck(answer)
         \/ RestoreInspected(answer) \/ RestoreReread(answer)
  PROVE  PrepInv'
<1>1. TypeInv'
  BY TypeSelftest, TypeRestoreInspected DEF PrepInv
<1>2. /\ UNCHANGED <<prep, pc, sweep, result>>
      /\ Inspect(answer)
      /\ cluster_states' \in {cluster_states, Found(answer)}
  BY DEF Selftest, EndCheck, RestoreInspected, RestoreReread
<1>3. unheard' = unheard \cup {h \in Hosts : answer[h] # "read"}
  BY <1>2 DEF Inspect
<1>4. NamesInv'
  BY <1>2 DEF Inspect, Reported, NamesInv
<1>5. ListsInv' /\ LatchInv' /\ UnheardInv'
  BY <1>2, <1>3 DEF PrepInv, ListsInv, LatchInv, Awaited, UnheardInv, Settled, prep,
                    sweep
<1>6. DueInv'
  <2>1. \A g \in Hosts : Handled(g) => Handled(g)'
    BY <1>2, <1>3, HandledKept DEF PrepInv, Awaited, sweep
  <2>2. \A g \in due \cup extra : g \in Hosts
    BY DEF PrepInv, TypeInv, TypeOK
  <2>3. QED BY <1>2, <2>1, <2>2 DEF PrepInv, DueInv, sweep
<1>7. TurnInv'
  <2>1. CASE cluster_states' = cluster_states
    BY <1>2, <1>3, <2>1, TurnKept DEF PrepInv, Settled, prep, sweep
  <2>2. CASE cluster_states' = Found(answer)
    <3>1. \A h \in Hosts : Cluster[h] # NoName =>
                             Cluster[h] \in cluster_states' \/ h \in unheard'
      BY <1>3, <2>2 DEF Found, Reported
    <3>2. \A h \in candidates' : h \in Hosts
      BY <1>1 DEF TypeInv, TypeOK
    <3>3. QED BY <3>1, <3>2 DEF TurnInv, TurnCounts
  <2>3. QED BY <1>2, <2>1, <2>2
<1>8. QED BY <1>1, <1>4, <1>5, <1>6, <1>7 DEF PrepInv

\* What a reset or a restore makes the engine forget was done or heard all the same.
LEMMA PrepForgets ==
  ASSUME PrepInv, Reset \/ RestoreForget
  PROVE  PrepInv'
<1>1. TypeInv'
  BY TypeReset, TypeRestoreForget DEF PrepInv
<1>2. /\ UNCHANGED <<facts, pc, sweep, result, unheard>>
      /\ cluster_prepared' \subseteq cluster_prepared
      /\ cluster_inspect_failed' \subseteq cluster_inspect_failed
      /\ cluster_standalone' \subseteq cluster_standalone
  BY DEF Reset, RestoreForget, ReleaseLatches, ClearPreparation
<1>3. \A h : Settled(h)' => Settled(h)
  BY <1>2 DEF Settled
<1>4. NamesInv' /\ ListsInv'
  BY <1>2 DEF PrepInv, NamesInv, ListsInv, facts, sweep
<1>5. LatchInv' /\ UnheardInv'
  BY <1>2, <1>3 DEF PrepInv, LatchInv, Awaited, UnheardInv, sweep
<1>6. DueInv'
  <2>1. \A g \in Hosts : Handled(g) => Handled(g)'
    BY <1>2, HandledKept DEF PrepInv, Awaited, sweep
  <2>2. \A g \in due \cup extra : g \in Hosts
    BY DEF PrepInv, TypeInv, TypeOK
  <2>3. QED BY <1>2, <2>1, <2>2 DEF PrepInv, DueInv, sweep
<1>7. TurnInv'
  BY <1>2, <1>3, TurnKept DEF PrepInv, facts, sweep
<1>8. QED BY <1>1, <1>4, <1>5, <1>6, <1>7 DEF PrepInv

LEMMA PrepNext == PrepInv /\ [Next]_vars => PrepInv'
<1> SUFFICES ASSUME PrepInv, [Next]_vars
             PROVE  PrepInv'
  OBVIOUS
<1>1. CASE Loop
  BY <1>1, PrepPoll, PrepRearm, PrepSelect, PrepColdInspect, PrepSkip, PrepSettle,
     PrepBegin, PrepEnd, PrepTakeUnit, PrepFiring, PrepEndSweep
  DEF Loop
<1>2. CASE \E answer \in [Hosts -> Reads] :
             \/ Selftest(answer) \/ EndCheck(answer)
             \/ RestoreInspected(answer) \/ RestoreReread(answer)
  BY <1>2, PrepInspect
<1>3. CASE Reset \/ RestoreForget
  BY <1>3, PrepForgets
<1>4. CASE Crash
  <2>1. TypeInv'
    BY <1>4, TypeCrash DEF PrepInv
  <2>2. /\ \A h \in Hosts : cluster_name'[h] = NoName /\ cold'[h] = "unread"
        /\ cluster_prepared' = {} /\ pc' = "wait"
        /\ due' = {} /\ extra' = {} /\ candidates' = {}
    BY <1>4 DEF Crash, ReleaseLatches, ClearPreparation
  <2>3. NamesInv' /\ ListsInv' /\ DueInv' /\ UnheardInv' /\ TurnInv' /\ LatchInv'
    BY <2>2 DEF NamesInv, ListsInv, DueInv, UnheardInv, TurnInv, LatchInv
  <2>4. QED BY <2>1, <2>3 DEF PrepInv
<1>5. CASE \/ SwitchDryRun \/ BeginCheck \/ BeginRestore \/ UNCHANGED vars
           \/ (\E ok \in BOOLEAN : RestoreWrite(ok))
  <2>1. TypeInv'
    BY <1>5, TypeNext DEF PrepInv, Next
  <2>2. UNCHANGED <<facts, prep, pc, sweep, result, unheard>>
    BY <1>5 DEF SwitchDryRun, BeginCheck, BeginRestore, RestoreWrite, vars, history
  <2>3. NamesInv' /\ ListsInv' /\ LatchInv' /\ UnheardInv'
    BY <2>2 DEF PrepInv, NamesInv, ListsInv, LatchInv, UnheardInv, Settled, Awaited,
                facts, prep, sweep
  <2>4. DueInv' /\ TurnInv'
    BY <2>2 DEF PrepInv, DueInv, Handled, Awaited, TurnInv, TurnCounts, Settled,
                facts, prep, sweep
  <2>5. QED BY <2>1, <2>3, <2>4 DEF PrepInv
<1>6. QED BY <1>1, <1>2, <1>3, <1>4, <1>5 DEF Next

\* The only host a step commands is the one it fires.
LEMMA CommandedIsDue ==
  ASSUME TypeInv, Next, NEW h \in Hosts, Commanded(h)
  PROVE  pc = "fire" /\ h \in due
<1>1. PICK g \in Hosts, ok \in BOOLEAN : Fire(g, ok)
  BY OnlyFireCommands
<1>2. g = h
  BY <1>1 DEF Fire, Commanded, TypeInv, TypeOK
<1>3. QED BY <1>1, <1>2 DEF Fire

\* engine.py:1084: no node goes down before the preparation of its cluster ended, or
\* was announced by a dry run, unless the node told an inspection of this sweep
\* nothing or was settled before it; however many clusters and nodes there are, in
\* whatever order they come, and whatever is reset, checked, restored, switched or
\* lost with the process while the sweep runs.  In particular a peer whose inspection
\* is refused, or filed as a standalone host, lets no other node slip past.
THEOREM PreparedFirst == Spec => PreparedBeforeDown
<1>1. PrepInv /\ [Next]_vars =>
        [\A h \in Hosts :
           Commanded(h) /\ Cluster[h] # NoName =>
             result[Cluster[h]] # "none" \/ h \in unheard]_vars
  <2> SUFFICES ASSUME PrepInv, Next, NEW h \in Hosts, Commanded(h), Cluster[h] # NoName
               PROVE  result[Cluster[h]] # "none" \/ h \in unheard
    OBVIOUS
  <2>1. pc = "fire" /\ h \in due
    BY CommandedIsDue DEF PrepInv
  <2>2. Handled(h)
    BY <2>1 DEF PrepInv, DueInv, ListsInv
  <2>3. QED BY <2>1, <2>2 DEF Handled, PrepInv, LatchInv, Awaited
<1>2. QED BY PrepInit, PrepNext, <1>1, PTL DEF Spec, PreparedBeforeDown

-----------------------------------------------------------------------------
(***************************************************************************)
(* A unit goes together.                                                   *)
(***************************************************************************)

\* With abort-on-failure, a host is held back by what is remembered of it and of
\* its cluster: nothing may make the engine forget that, or hide a node from it, as
\* a refused inspection does.  Without, nothing is asked at all.
AbortIsRemembered ==
  Abort => /\ "refused" \notin Reads /\ NamesHold
           /\ Events \cap {"reset", "restore"} = {}

\* A unit that was prepared is all commanded, or about to be, unless its nodes are
\* held back.
WholeInv ==
  /\ host_fired # {} => shutdown_triggered
  /\ host_fired \subseteq served
  /\ \A c \in Unit :
       /\ result[c] # "none" /\ ~(pc = "taking" /\ c = current)
       /\ ~(Abort /\ c \in cluster_prep_failed)
       => \A h \in NodesOf(c) : \/ h \in served \cup due \cup extra
                                \/ Abort /\ h \in cluster_inspect_failed

\* Without abort, a sweep that finds somebody due commands somebody, so that an
\* episode that has not commanded anybody has prepared nothing.
FreeInv ==
  /\ pc \in {"wait", "select"} => due = {}
  /\ pc \in {"cold", "prepare", "preparing", "taking"} => due # {}
  /\ ~shutdown_triggered /\ due = {} => \A c \in cluster_prepared : result[c] = "none"

\* With abort, a cluster is prepared before any of its nodes is commanded, and after
\* a failed preparation none is.
GuardedInv ==
  /\ \A c \in Clusters : result[c] # "none" => c \in cluster_prepared
  /\ ~shutdown_triggered => served = {} \/ (cluster_prepared = {} /\ pc = "wait")
  /\ shutdown_triggered =>
       \A h \in served : Cluster[h] \in cluster_prepared \cup {NoName}
  /\ \A c \in cluster_prep_failed : served \cap NodesOf(c) = {}
  /\ pc = "preparing" => current \in cluster_prepared /\ served \cap NodesOf(current) = {}

\* With abort and without refusals only hosts of no cluster pass for standalone,
\* and a node that told a sweep nothing is held back or has a prepared cluster.
SeenInv ==
  /\ \A h \in cluster_standalone : Cluster[h] = NoName
  /\ pc \notin {"wait", "select"} =>
       \A h \in unheard : \/ Cluster[h] \in cluster_prepared \cup {NoName}
                          \/ h \in cluster_inspect_failed
                          \/ h \in candidates /\ cold[h] = "silent"

\* What abort-on-failure rests on.
HeldBackInv == AbortInv /\ PrepInv /\ SeenInv /\ GuardedInv

UnitInv ==
  /\ TypeInv /\ WholeInv
  /\ Abort => HeldBackInv
  /\ ~Abort => FreeInv

LEMMA UnitInit == Init => UnitInv
<1> SUFFICES ASSUME Init
             PROVE  UnitInv
  OBVIOUS
<1>1. TypeInv
  BY TypeInit
<1>2. StampsInv /\ HeldInv
  BY DEF Init, StampsInv, HeldInv
<1>3. \A c \in Clusters : result[c] = "none"
  BY DEF Init, NoResult
<1>4. WholeInv
  BY <1>3, ClusterAssumption DEF Init, WholeInv
<1>5. SeenInv /\ GuardedInv /\ FreeInv
  BY <1>3 DEF Init, SeenInv, GuardedInv, FreeInv
<1>6. QED BY <1>1, <1>2, <1>4, <1>5, PrepInit DEF UnitInv, HeldBackInv, AbortInv

\* A step that forgets nothing of the histories.
LEMMA WholeKept ==
  ASSUME TypeInv, WholeInv,
         shutdown_triggered => shutdown_triggered', host_fired' \subseteq host_fired,
         served \subseteq served', result' = result,
         cluster_prep_failed \subseteq cluster_prep_failed' \/ ~Abort,
         cluster_inspect_failed \subseteq cluster_inspect_failed' \/ ~Abort,
         due \cup extra \subseteq due' \cup extra' \cup served',
         pc = "taking" => pc' = "taking" /\ current' = current
  PROVE  WholeInv'
  BY DEF WholeInv

\* An end of the episode: nothing is prepared.
LEMMA WholeOver ==
  ASSUME host_fired' = {}, result' = NoResult
  PROVE  WholeInv'
  BY ClusterAssumption DEF WholeInv, NoResult

LEMMA WholePoll == UnitInv /\ Poll => WholeInv'
<1> SUFFICES ASSUME UnitInv, Poll
             PROVE  WholeInv'
  OBVIOUS
<1> USE DEF UnitInv
<1>1. /\ pc = "wait" /\ pc' = "select"
      /\ UNCHANGED <<shutdown_triggered, host_fired, cluster_prep_failed,
                     cluster_inspect_failed, cluster_prepared, due, extra>>
      /\ served' = IF shutdown_triggered THEN served ELSE {}
  BY DEF Poll, latches, prep, sweep
<1>2. \A c \in Clusters : result'[c] # "none" =>
                            result[c] # "none" /\ c \in cluster_prepared
  BY DEF Poll
<1>3. host_fired' \subseteq served' /\ (host_fired' # {} => shutdown_triggered')
  BY <1>1 DEF WholeInv
<1>4. ASSUME NEW c \in Unit, result'[c] # "none",
             ~(Abort /\ c \in cluster_prep_failed'), NEW h \in NodesOf(c)
      PROVE  h \in served' \cup due' \cup extra' \/ (Abort /\ h \in cluster_inspect_failed')
  <2>1. result[c] # "none" /\ c \in cluster_prepared
    BY <1>2, <1>4, ClusterAssumption
  <2>2. h \in served \cup due \cup extra \/ (Abort /\ h \in cluster_inspect_failed)
    BY <1>1, <1>4, <2>1 DEF WholeInv
  <2>3. CASE shutdown_triggered
    BY <1>1, <2>2, <2>3
  <2>4. CASE ~shutdown_triggered /\ Abort
    BY <1>1, <2>1, <2>2, <2>4 DEF HeldBackInv, GuardedInv
  <2>5. CASE ~shutdown_triggered /\ ~Abort
    BY <1>1, <2>1, <2>5 DEF FreeInv
  <2>6. QED BY <2>3, <2>4, <2>5
<1>5. QED BY <1>1, <1>3, <1>4 DEF WholeInv

LEMMA WholeEnd ==
  ASSUME UnitInv, NEW outcome \in PrepOutcomes, EndPreparation(outcome)
  PROVE  WholeInv'
<1>1. /\ pc = "preparing" /\ pc' = "taking" /\ current' = current
      /\ UNCHANGED <<shutdown_triggered, host_fired, served, due, extra,
                     cluster_inspect_failed>>
      /\ cluster_prep_failed \subseteq cluster_prep_failed' \cup {current}
      /\ result' = [result EXCEPT ![current] = outcome]
  BY DEF EndPreparation, latches, sweep
<1>2. \A c \in Clusters \ {current} : result'[c] = result[c]
  BY <1>1 DEF UnitInv, TypeInv, TypeOK
<1>3. QED
  BY <1>1, <1>2, ClusterAssumption DEF UnitInv, WholeInv

LEMMA WholeTakeUnit == UnitInv /\ TakeUnit => WholeInv'
<1> SUFFICES ASSUME UnitInv, TakeUnit
             PROVE  WholeInv'
  OBVIOUS
<1>1. /\ pc = "taking" /\ pc' = "prepare"
      /\ extra' = extra \cup Additions(current)
      /\ UNCHANGED <<shutdown_triggered, host_fired, served, due, result,
                     cluster_prep_failed, cluster_inspect_failed>>
  BY DEF TakeUnit, TakeAlong, latches, history
<1>2. current \in Unit =>
        NodesOf(current) \subseteq due \cup extra' \cup host_fired
  BY <1>1 DEF Additions, Members
<1>3. QED
  BY <1>1, <1>2 DEF UnitInv, WholeInv

\* A dry run takes a unit along without a preparation.
LEMMA WholeBegin ==
  ASSUME UnitInv, NEW h \in Hosts, BeginPreparation(h)
  PROVE  WholeInv'
<1>1. /\ pc = "prepare" /\ pc' # "taking"
      /\ UNCHANGED <<shutdown_triggered, host_fired, served, due,
                     cluster_prep_failed, cluster_inspect_failed>>
  BY DEF BeginPreparation, Turn, latches
<1>2. CASE result' = result
  <2>1. extra \subseteq extra'
    BY DEF BeginPreparation, TakeAlong
  <2>2. QED BY <1>1, <1>2, <2>1, WholeKept DEF UnitInv
<1>3. CASE result' # result
  <2>1. PICK c \in Clusters :
          /\ result' = [result EXCEPT ![c] = "announced"]
          /\ extra' = extra \cup Additions(c)
    BY <1>3, CandidateCluster DEF BeginPreparation, TakeAlong, UnitInv, TypeInv
  <2>2. c \in Unit => NodesOf(c) \subseteq due \cup extra' \cup host_fired
    BY <2>1 DEF Additions, Members
  <2>3. \A d \in Clusters \ {c} : result'[d] = result[d]
    BY <2>1 DEF UnitInv, TypeInv, TypeOK
  <2>4. ASSUME NEW d \in Unit, result'[d] # "none",
               ~(Abort /\ d \in cluster_prep_failed'), NEW g \in NodesOf(d)
        PROVE  g \in served' \cup due' \cup extra' \/ (Abort /\ g \in cluster_inspect_failed')
    <3>1. CASE d = c
      BY <1>1, <2>2, <2>4, <3>1 DEF UnitInv, WholeInv
    <3>2. CASE d # c
      BY <1>1, <2>1, <2>3, <2>4, <3>2, ClusterAssumption DEF UnitInv, WholeInv
    <3>3. QED BY <3>1, <3>2
  <2>5. QED BY <1>1, <2>4 DEF UnitInv, WholeInv
<1>4. QED BY <1>2, <1>3

LEMMA WholeEndCandidates == UnitInv /\ EndCandidates => WholeInv'
<1> SUFFICES ASSUME UnitInv, EndCandidates
             PROVE  WholeInv'
  OBVIOUS
<1>1. /\ pc = "prepare" /\ pc' = "fire"
      /\ due' = {h \in due \cup extra : ~HeldBack(h)} /\ extra' = {}
      /\ UNCHANGED <<shutdown_triggered, host_fired, served, result,
                     cluster_prep_failed, cluster_inspect_failed>>
  BY DEF EndCandidates, latches, prep, history
<1>2. ASSUME NEW c \in Unit, ~(Abort /\ c \in cluster_prep_failed),
             NEW h \in NodesOf(c), HeldBack(h)
      PROVE  Abort /\ h \in cluster_inspect_failed
  <2>1. Abort /\ h \in Hosts /\ Cluster[h] = c
    BY <1>2 DEF HeldBack, NodesOf
  <2>2. cluster_name[h] \in {NoName, c}
    BY <2>1 DEF UnitInv, HeldBackInv, PrepInv, NamesInv
  <2>3. cluster_name[h] \notin cluster_prep_failed
    BY <1>2, <2>1, <2>2, ClusterAssumption DEF UnitInv, TypeInv, TypeOK
  <2>4. QED BY <1>2, <2>1, <2>3 DEF HeldBack
<1>3. QED
  BY <1>1, <1>2 DEF UnitInv, WholeInv

LEMMA WholeFire ==
  ASSUME UnitInv, NEW h \in Hosts, NEW ok \in BOOLEAN, Fire(h, ok)
  PROVE  WholeInv'
<1>1. /\ pc = "fire" /\ pc' = pc /\ shutdown_triggered' = TRUE
      /\ due' = due \ {h} /\ served' = served \cup {h}
      /\ host_fired' \subseteq host_fired \cup {h}
      /\ UNCHANGED <<extra, result, cluster_prep_failed, cluster_inspect_failed>>
  BY DEF Fire, prep
<1>2. QED BY <1>1 DEF UnitInv, WholeInv

LEMMA WholeLoop == UnitInv /\ Loop => WholeInv'
<1> SUFFICES ASSUME UnitInv, Loop
             PROVE  WholeInv'
  OBVIOUS
<1> USE DEF UnitInv
<1>1. CASE Rearm
  BY <1>1, WholeOver DEF Rearm, ReleaseLatches
<1>2. CASE Select
  <2>1. /\ due = {} /\ extra = {} /\ pc = "select" /\ host_fired' \subseteq host_fired
        /\ UNCHANGED <<shutdown_triggered, served, result, cluster_prep_failed,
                       cluster_inspect_failed>>
    BY <1>2 DEF Select, history, TypeInv, SweepInv, HeldBackInv, PrepInv, ListsInv, FreeInv
  <2>2. QED BY <2>1, WholeKept
<1>3. CASE ColdInspect \/ (\E h \in Hosts : SkipCandidate(h) \/ SettleCandidate(h))
  <2>1. /\ pc \in {"cold", "prepare"}
        /\ cluster_inspect_failed \subseteq cluster_inspect_failed'
        /\ UNCHANGED <<shutdown_triggered, host_fired, served, result, due, extra,
                       cluster_prep_failed>>
    BY <1>3 DEF ColdInspect, SkipCandidate, SettleCandidate, Turn, latches, prep,
                history
  <2>2. QED BY <2>1, WholeKept
<1>4. CASE EndSweep
  <2>1. CASE EpisodeOver
    BY <1>4, <2>1, WholeOver DEF EndSweep, EpisodeOver
  <2>2. CASE ~EpisodeOver
    BY <1>4, <2>2, WholeKept DEF EndSweep, prep
  <2>3. QED BY <2>1, <2>2
<1>5. QED
  BY <1>1, <1>2, <1>3, <1>4, WholePoll, WholeBegin, WholeEnd, WholeTakeUnit,
     WholeEndCandidates, WholeFire DEF Loop

LEMMA WholeNext ==
  ASSUME AbortIsRemembered
  PROVE  UnitInv /\ [Next]_vars => WholeInv'
<1> SUFFICES ASSUME UnitInv, [Next]_vars
             PROVE  WholeInv'
  OBVIOUS
<1> USE DEF UnitInv
<1>1. CASE Loop
  BY <1>1, WholeLoop
<1>2. CASE Crash
  BY <1>2, WholeOver DEF Crash, ReleaseLatches
<1>3. CASE Reset
  <2>1. ~Abort /\ host_fired' = {}
    BY <1>3 DEF Reset, AbortIsRemembered, ReleaseLatches
  <2>2. UNCHANGED <<result, served, due, extra, pc, current>>
    BY <1>3 DEF Reset, sweep
  <2>3. QED BY <2>1, <2>2 DEF WholeInv
<1>4. CASE RestoreForget
  <2>1. ~Abort
    BY <1>4 DEF RestoreForget, AbortIsRemembered, HeldBackInv, AbortInv, StampsInv
  <2>2. QED BY <1>4, <2>1, WholeKept DEF RestoreForget, latches, sweep
<1>5. CASE \/ SwitchDryRun \/ BeginCheck \/ BeginRestore \/ UNCHANGED vars
           \/ (\E answer \in [Hosts -> Reads] : Selftest(answer))
           \/ (\E answer \in [Hosts -> Reads] : EndCheck(answer))
           \/ (\E answer \in [Hosts -> Reads] : RestoreInspected(answer))
           \/ (\E ok \in BOOLEAN : RestoreWrite(ok))
           \/ (\E answer \in [Hosts -> Reads] : RestoreReread(answer))
  <2>1. UNCHANGED <<latches, prep, pc, sweep, served, result>>
    BY <1>5 DEF SwitchDryRun, BeginCheck, BeginRestore, Selftest, EndCheck,
                RestoreInspected, RestoreWrite, RestoreReread, history, vars
  <2>2. QED BY <2>1, WholeKept DEF latches, prep, sweep
<1>6. QED BY <1>1, <1>2, <1>3, <1>4, <1>5 DEF Next

LEMMA FreeNext == UnitInv /\ ~Abort /\ [Next]_vars => FreeInv'
<1> SUFFICES ASSUME UnitInv, ~Abort, [Next]_vars
             PROVE  FreeInv'
  OBVIOUS
<1> USE DEF UnitInv, FreeInv
<1>1. CASE Poll
  <2>1. \A c \in cluster_prepared : result'[c] = result[c]
    BY <1>1 DEF Poll, TypeInv, TypeOK
  <2>2. QED BY <1>1, <2>1 DEF Poll, latches, prep, sweep
<1>2. CASE Rearm
  BY <1>2 DEF Rearm, ReleaseLatches, ClearPreparation, sweep
<1>3. CASE Select
  BY <1>3 DEF Select, history
<1>4. CASE ColdInspect
  BY <1>4 DEF ColdInspect
<1>5. CASE \E h \in Hosts : SkipCandidate(h) \/ SettleCandidate(h) \/ BeginPreparation(h)
  <2>1. pc = "prepare" /\ pc' \in {"prepare", "preparing"} /\ due' = due
    BY <1>5 DEF SkipCandidate, SettleCandidate, BeginPreparation, Turn
  <2>2. QED BY <2>1
<1>6. CASE TakeUnit \/ (\E outcome \in PrepOutcomes : EndPreparation(outcome))
  <2>1. /\ pc \in {"preparing", "taking"} /\ pc' \in {"prepare", "taking"}
        /\ due' = due
    BY <1>6 DEF TakeUnit, EndPreparation, sweep
  <2>2. QED BY <2>1
<1>7. CASE EndCandidates
  <2>1. pc' = "fire" /\ due \subseteq due' /\ due # {}
    BY <1>7 DEF EndCandidates, HeldBack
  <2>2. QED BY <2>1
<1>8. CASE \E h \in Hosts, ok \in BOOLEAN : Fire(h, ok)
  BY <1>8 DEF Fire
<1>9. CASE EndSweep
  BY <1>9 DEF EndSweep, ClearPreparation, prep
<1>10. CASE Reset \/ Crash
  BY <1>10 DEF Reset, Crash, ReleaseLatches, ClearPreparation, sweep
<1>11. CASE \/ SwitchDryRun \/ BeginCheck \/ BeginRestore \/ RestoreForget
            \/ UNCHANGED vars
            \/ (\E answer \in [Hosts -> Reads] : Selftest(answer))
            \/ (\E answer \in [Hosts -> Reads] : EndCheck(answer))
            \/ (\E answer \in [Hosts -> Reads] : RestoreInspected(answer))
            \/ (\E ok \in BOOLEAN : RestoreWrite(ok))
            \/ (\E answer \in [Hosts -> Reads] : RestoreReread(answer))
  <2>1. /\ UNCHANGED <<shutdown_triggered, due, pc, result>>
        /\ cluster_prepared' \subseteq cluster_prepared
    BY <1>11 DEF SwitchDryRun, BeginCheck, BeginRestore, Selftest, EndCheck,
                 RestoreInspected, RestoreWrite, RestoreForget, RestoreReread,
                 latches, prep, sweep, history, vars
  <2>2. QED BY <2>1
<1>12. QED
  BY <1>1, <1>2, <1>3, <1>4, <1>5, <1>6, <1>7, <1>8, <1>9, <1>10, <1>11
  DEF Next, Loop

\* What leaves the histories and the latch of the preparations alone.
LEMMA GuardedKept ==
  ASSUME GuardedInv, UNCHANGED <<shutdown_triggered, served, result, cluster_prepared,
                                 cluster_prep_failed>>,
         pc' = "preparing" => pc = "preparing" /\ current' = current,
         pc = "wait" => pc' = "wait"
  PROVE  GuardedInv'
  BY DEF GuardedInv

LEMMA GuardedPoll ==
  ASSUME TypeInv, GuardedInv, Poll
  PROVE  GuardedInv'
<1>1. /\ pc' = "select"
      /\ UNCHANGED <<shutdown_triggered, cluster_prepared, cluster_prep_failed>>
      /\ served' = IF shutdown_triggered THEN served ELSE {}
  BY DEF Poll, latches, prep
<1>2. \A c \in Clusters : result'[c] # "none" => c \in cluster_prepared
  BY DEF Poll
<1>3. QED BY <1>1, <1>2 DEF GuardedInv

\* A cluster whose preparation begins has no node that was commanded.
LEMMA GuardedBegin ==
  ASSUME PrepInv, GuardedInv, NEW h \in Hosts, BeginPreparation(h)
  PROVE  GuardedInv'
<1>1. PICK c \in Clusters :
        /\ cluster_prepared' = cluster_prepared \cup {c}
        /\ result' \in {result, [result EXCEPT ![c] = "announced"]}
        /\ \/ pc' = pc
           \/ pc' = "preparing" /\ current' = c /\ c \notin cluster_prepared
  BY CandidateCluster DEF BeginPreparation, PrepInv, TypeInv
<1>2. /\ pc = "prepare"
      /\ UNCHANGED <<shutdown_triggered, served, cluster_prep_failed>>
      /\ \A d \in Clusters \ {c} : result'[d] = result[d]
  BY <1>1 DEF BeginPreparation, Turn, latches, PrepInv, TypeInv, TypeOK
<1>3. c \notin cluster_prepared => served \cap NodesOf(c) = {}
  BY <1>2, ClusterAssumption DEF GuardedInv, NodesOf
<1>4. QED BY <1>1, <1>2, <1>3 DEF GuardedInv

LEMMA GuardedEnd ==
  ASSUME TypeInv, GuardedInv, NEW outcome \in PrepOutcomes, EndPreparation(outcome)
  PROVE  GuardedInv'
<1>1. /\ pc = "preparing" /\ pc' = "taking"
      /\ UNCHANGED <<shutdown_triggered, served, cluster_prepared>>
      /\ cluster_prep_failed' \subseteq cluster_prep_failed \cup {current}
      /\ result' = [result EXCEPT ![current] = outcome]
  BY DEF EndPreparation, latches
<1>2. \A c \in Clusters \ {current} : result'[c] = result[c]
  BY <1>1 DEF TypeInv, TypeOK
<1>3. QED BY <1>1, <1>2 DEF GuardedInv

\* Abort-on-failure: only hosts with a prepared cluster, or without one, go down.
LEMMA GuardedFire ==
  ASSUME Abort, HeldBackInv, NEW h \in Hosts, NEW ok \in BOOLEAN, Fire(h, ok)
  PROVE  GuardedInv'
<1>1. /\ pc = "fire" /\ pc' = pc /\ shutdown_triggered' = TRUE
      /\ h \in due /\ served' = served \cup {h}
      /\ UNCHANGED <<result, cluster_prepared, cluster_prep_failed>>
  BY DEF Fire, prep
<1>2. Cluster[h] \notin cluster_prep_failed /\ h \notin cluster_inspect_failed
  BY <1>1 DEF HeldBackInv, AbortInv, HeldInv
<1>3. Handled(h) /\ candidates = {}
  BY <1>1 DEF HeldBackInv, PrepInv, DueInv, ListsInv
<1>4. Cluster[h] \in cluster_prepared \cup {NoName}
  BY <1>1, <1>2, <1>3, ClusterAssumption
  DEF Handled, Awaited, HeldBackInv, SeenInv, GuardedInv
<1>5. \A g \in served : Cluster[g] \in cluster_prepared \cup {NoName}
  BY <1>1 DEF HeldBackInv, GuardedInv
<1>6. QED BY <1>1, <1>2, <1>4, <1>5 DEF HeldBackInv, GuardedInv, NodesOf

LEMMA GuardedOver ==
  ASSUME result' = NoResult, cluster_prepared' = {}, cluster_prep_failed' = {},
         served' = {} \/ (~shutdown_triggered' /\ pc' = "wait"),
         pc' # "preparing"
  PROVE  GuardedInv'
  BY DEF GuardedInv, NoResult

LEMMA GuardedNext ==
  ASSUME AbortIsRemembered, Abort
  PROVE  UnitInv /\ [Next]_vars => GuardedInv'
<1> SUFFICES ASSUME HeldBackInv, TypeInv, WholeInv, [Next]_vars
             PROVE  GuardedInv'
  BY DEF UnitInv
<1> USE DEF HeldBackInv
<1>1. CASE Rearm
  BY <1>1, GuardedOver DEF Rearm, ReleaseLatches, ClearPreparation
<1>2. CASE Crash
  BY <1>2, GuardedOver DEF Crash, ReleaseLatches, ClearPreparation
<1>3. CASE EndSweep
  <2>1. CASE EpisodeOver
    BY <1>3, <2>1, GuardedOver DEF EndSweep, ClearPreparation
  <2>2. CASE ~EpisodeOver
    BY <1>3, <2>2, GuardedKept DEF EndSweep, prep
  <2>3. QED BY <2>1, <2>2
<1>4. CASE Reset \/ RestoreForget
  BY <1>4 DEF Reset, RestoreForget, AbortIsRemembered, AbortInv, StampsInv
<1>5. CASE \E h \in Hosts : BeginPreparation(h)
  BY <1>5, GuardedBegin
<1>6. CASE \E outcome \in PrepOutcomes : EndPreparation(outcome)
  BY <1>6, GuardedEnd
<1>7. CASE \E h \in Hosts, ok \in BOOLEAN : Fire(h, ok)
  BY <1>7, GuardedFire
<1>8. CASE \/ Select \/ ColdInspect \/ TakeUnit \/ EndCandidates
           \/ (\E h \in Hosts : SkipCandidate(h) \/ SettleCandidate(h))
  <2>1. /\ UNCHANGED <<shutdown_triggered, served, result, cluster_prepared,
                       cluster_prep_failed>>
        /\ pc' # "preparing" /\ pc # "wait"
    BY <1>8 DEF Select, ColdInspect, TakeUnit, EndCandidates, SkipCandidate,
                SettleCandidate, Turn, latches, prep, history
  <2>2. QED BY <2>1, GuardedKept
<1>9. CASE \/ SwitchDryRun \/ BeginCheck \/ BeginRestore \/ UNCHANGED vars
           \/ (\E answer \in [Hosts -> Reads] : Selftest(answer))
           \/ (\E answer \in [Hosts -> Reads] : EndCheck(answer))
           \/ (\E answer \in [Hosts -> Reads] : RestoreInspected(answer))
           \/ (\E ok \in BOOLEAN : RestoreWrite(ok))
           \/ (\E answer \in [Hosts -> Reads] : RestoreReread(answer))
  <2>1. UNCHANGED <<latches, prep, pc, sweep, served, result>>
    BY <1>9 DEF SwitchDryRun, BeginCheck, BeginRestore, Selftest, EndCheck,
                RestoreInspected, RestoreWrite, RestoreReread, history, vars
  <2>2. QED BY <2>1, GuardedKept DEF latches, prep, sweep
<1>10. QED
  BY <1>1, <1>2, <1>3, <1>4, <1>5, <1>6, <1>7, <1>8, <1>9, GuardedPoll
  DEF Next, Loop

LEMMA ReadsWithoutRefusals ==
  ASSUME "refused" \notin Reads
  PROVE  \A r \in Reads : r \in {"read", "silent"}
<1> SUFFICES ASSUME NEW r \in Reads
             PROVE  r \in {"read", "silent"}
  OBVIOUS
<1>1. r # "refused"
  OBVIOUS
<1>2. r \in {"read", "refused", "silent"}
  BY ClusterAssumption
<1>3. QED BY <1>1, <1>2

LEMMA SeenSettle ==
  ASSUME "refused" \notin Reads, PrepInv, SeenInv, NEW h \in Hosts, SettleCandidate(h)
  PROVE  SeenInv'
<1>1. /\ pc = "prepare" /\ pc' = pc /\ candidates' = candidates \ {h}
      /\ UNCHANGED <<unheard, cold, cluster_prepared>>
      /\ Reported(h, cold[h]) = NoName /\ cold[h] # "unread"
      /\ IF cold[h] = "silent"
         THEN /\ cluster_inspect_failed' = cluster_inspect_failed \cup {h}
              /\ UNCHANGED cluster_standalone
         ELSE /\ cluster_standalone' = cluster_standalone \cup {h}
              /\ UNCHANGED cluster_inspect_failed
  BY DEF SettleCandidate, Turn, history
<1>2. cold[h] \in {"read", "silent"}
  <2>1. cold[h] \in Reads
    BY <1>1 DEF PrepInv, TypeInv, TypeOK
  <2>2. QED BY <2>1, ReadsWithoutRefusals
<1>3. cold[h] = "silent" \/ Cluster[h] = NoName
  BY <1>1, <1>2 DEF Reported
<1>4. QED BY <1>1, <1>3 DEF SeenInv

LEMMA SeenNext ==
  ASSUME Abort, AbortIsRemembered
  PROVE  HeldBackInv /\ [Next]_vars => SeenInv'
<1> SUFFICES ASSUME AbortInv, PrepInv, SeenInv, [Next]_vars
             PROVE  SeenInv'
  BY DEF HeldBackInv
<1>1. "refused" \notin Reads /\ NamesHold /\ Events \cap {"reset", "restore"} = {}
  BY DEF AbortIsRemembered
<1>2. CASE Select
  BY <1>2 DEF Select, SeenInv
<1>3. CASE ColdInspect
  <2>1. PICK answer \in [Pending -> Reads], asked \in SUBSET Pending :
          /\ cold' = [h \in Hosts |-> IF h \in asked THEN answer[h] ELSE "unread"]
          /\ unheard' = unheard \cup {h \in asked : answer[h] # "read"}
    BY <1>3 DEF ColdInspect
  <2>2. pc = "cold" /\ pc' = "prepare" /\ UNCHANGED <<prep, candidates>>
    BY <1>3 DEF ColdInspect
  <2>3. \A h \in asked : h \in Hosts /\ h \in candidates /\ answer[h] \in Reads
    BY PendingWithin DEF PrepInv, TypeInv, Pending
  <2>4. \A h \in asked : answer[h] # "read" => cold'[h] = "silent"
    BY <1>1, <2>1, <2>3, ReadsWithoutRefusals
  <2>5. \A h \in unheard : Cluster[h] \in cluster_prepared \cup {NoName}
                              \/ h \in cluster_inspect_failed
    BY <2>2 DEF SeenInv, PrepInv, UnheardInv, TypeInv, TypeOK
  <2>6. QED BY <2>1, <2>2, <2>3, <2>4, <2>5 DEF SeenInv, prep
<1>4. ASSUME NEW h \in Hosts, SkipCandidate(h)
      PROVE  SeenInv'
  <2>1. /\ candidates' = candidates \ {h} /\ UNCHANGED <<pc, prep, unheard, cold>>
        /\ Settled(h) \/ cold[h] = "unread"
    BY <1>4 DEF SkipCandidate, Turn, history
  <2>2. QED BY <2>1 DEF SeenInv, Settled, prep
<1>5. ASSUME NEW h \in Hosts, SettleCandidate(h)
      PROVE  SeenInv'
  BY <1>1, <1>5, SeenSettle
<1>6. ASSUME NEW h \in Hosts, BeginPreparation(h)
      PROVE  SeenInv'
  <2>1. /\ candidates' = candidates \ {h} /\ pc = "prepare"
        /\ UNCHANGED <<cluster_inspect_failed, cluster_standalone, unheard, cold>>
        /\ cluster_prepared' =
             cluster_prepared \cup {IF Known(h) THEN NameOf(h) ELSE Cluster[h]}
    BY <1>6 DEF BeginPreparation, Turn
  <2>2. Cluster[h] \in cluster_prepared' /\ cluster_prepared \subseteq cluster_prepared'
    BY <2>1, KnownByName DEF PrepInv, TypeInv
  <2>3. QED BY <2>1, <2>2 DEF SeenInv
<1>7. CASE Rearm \/ EndSweep \/ Crash
  <2>1. /\ pc' \in {"wait", "select"}
        /\ cluster_standalone' \subseteq cluster_standalone
    BY <1>7 DEF Rearm, EndSweep, Crash, ReleaseLatches, ClearPreparation, prep
  <2>2. QED BY <2>1 DEF SeenInv
<1>8. CASE EndCandidates
  <2>1. candidates = {} /\ pc = "prepare" /\ UNCHANGED <<prep, unheard>>
    BY <1>8 DEF EndCandidates, history
  <2>2. QED BY <2>1 DEF SeenInv, prep
<1>9. ASSUME NEW answer \in [Hosts -> Reads],
             \/ Selftest(answer) \/ EndCheck(answer)
             \/ RestoreInspected(answer) \/ RestoreReread(answer)
      PROVE  SeenInv'
  <2>1. /\ UNCHANGED <<pc, prep, sweep>> /\ Inspect(answer)
        /\ Events \cap {"selftest", "check", "restore"} # {}
    BY <1>9 DEF Selftest, EndCheck, RestoreInspected, RestoreReread, AbortInv,
                StampsInv
  <2>2. \A h \in Hosts : answer[h] = "read"
    BY <1>1, <2>1 DEF NamesHold
  <2>3. unheard' = unheard
    BY <2>1, <2>2 DEF Inspect
  <2>4. QED BY <2>1, <2>3 DEF SeenInv, prep, sweep
<1>10. CASE Reset \/ RestoreForget
  BY <1>1, <1>10 DEF Reset, RestoreForget, AbortInv, StampsInv
<1>11. CASE \/ Poll \/ TakeUnit \/ (\E h \in Hosts, ok \in BOOLEAN : Fire(h, ok))
            \/ (\E outcome \in PrepOutcomes : EndPreparation(outcome))
            \/ SwitchDryRun \/ BeginCheck \/ BeginRestore \/ UNCHANGED vars
            \/ (\E ok \in BOOLEAN : RestoreWrite(ok))
  <2>1. /\ UNCHANGED <<candidates, cold, unheard, cluster_prepared,
                       cluster_standalone, cluster_inspect_failed>>
        /\ pc \in {"wait", "select"} => pc' \in {"wait", "select"}
    BY <1>11 DEF Poll, TakeUnit, Fire, EndPreparation, SwitchDryRun, BeginCheck,
                 BeginRestore, RestoreWrite, vars, prep, sweep, history
  <2>2. QED BY <2>1 DEF SeenInv
<1>12. QED
  BY <1>2, <1>3, <1>4, <1>5, <1>6, <1>7, <1>8, <1>9, <1>10, <1>11 DEF Next, Loop

LEMMA UnitNext ==
  ASSUME AbortIsRemembered
  PROVE  UnitInv /\ [Next]_vars => UnitInv'
<1> SUFFICES ASSUME UnitInv, [Next]_vars
             PROVE  UnitInv'
  OBVIOUS
<1>1. TypeInv' /\ WholeInv'
  BY TypeNext, WholeNext DEF UnitInv
<1>2. ASSUME Abort
      PROVE  HeldBackInv'
  <2>1. NamesHold /\ HeldBackInv
    BY <1>2 DEF AbortIsRemembered, UnitInv
  <2>2. StampsInv' /\ HeldInv'
    BY <2>1, StampsNext, HeldNext DEF HeldBackInv
  <2>3. PrepInv' /\ SeenInv' /\ GuardedInv'
    BY <1>2, <2>1, PrepNext, SeenNext, GuardedNext DEF HeldBackInv
  <2>4. QED BY <1>1, <2>2, <2>3 DEF HeldBackInv, AbortInv
<1>3. ASSUME ~Abort
      PROVE  FreeInv'
  BY <1>3, FreeNext
<1>4. QED BY <1>1, <1>2, <1>3 DEF UnitInv

\* A cluster that goes down as a unit does so whole, for every number of clusters
\* and nodes: those demanded, those taken along, those that need another attempt
\* and those the process forgot in a crash.  Without abort-on-failure nothing is
\* assumed at all; with it, see AbortIsRemembered.
THEOREM UnitsGoTogether == AbortIsRemembered /\ Spec => []UnitGoesTogether
<1> SUFFICES ASSUME AbortIsRemembered
             PROVE  Spec => []UnitGoesTogether
  OBVIOUS
<1>1. UnitInv => UnitGoesTogether
  <2> SUFFICES ASSUME UnitInv, pc = "wait", NEW c \in Unit, result[c] # "none",
                      served \cap NodesOf(c) # {}, NEW h \in NodesOf(c)
               PROVE  h \in served \/ (Abort /\ h \in cluster_inspect_failed)
    BY DEF UnitGoesTogether
  <2>1. due = {} /\ extra = {}
    BY DEF UnitInv, TypeInv, SweepInv, HeldBackInv, PrepInv, ListsInv, FreeInv
  <2>2. ~(Abort /\ c \in cluster_prep_failed)
    BY DEF UnitInv, HeldBackInv, GuardedInv
  <2>3. QED BY <2>1, <2>2 DEF UnitInv, WholeInv
<1>2. QED BY UnitInit, UnitNext, <1>1, PTL DEF Spec
=============================================================================
