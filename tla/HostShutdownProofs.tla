------------------------- MODULE HostShutdownProofs -------------------------
(***************************************************************************)
(* Theorems about HostShutdown, for every set of hosts and UPS, every      *)
(* order, policy and feed, every limit and every configuration.            *)
(***************************************************************************)
EXTENDS HostShutdown, TLAPS

-----------------------------------------------------------------------------
(***************************************************************************)
(* Type correctness.                                                       *)
(***************************************************************************)

LEMMA OneMoreType ==
  ASSUME NEW n \in 0 .. MaxAttempts + 1
  PROVE  OneMore(n) \in 0 .. MaxAttempts + 1
  BY HostAssumption DEF OneMore

LEMMA ForemostWithin == \A S : Foremost(S) \subseteq S
  BY DEF Foremost

\* No attempt made yet is a number of attempts.
LEMMA NoAttempts == 0 \in 0 .. MaxAttempts + 1
  BY HostAssumption

LEMMA TypeInit == Init => TypeOK
<1> SUFFICES ASSUME Init
             PROVE  TypeOK
  OBVIOUS
<1>1. verdict \in [Ups -> Verdicts]
  BY DEF Init, Verdicts
<1>2. /\ shutdown_state \in [Hosts -> {"none", "sent", "failed"}]
      /\ tries \in [Hosts -> 0 .. 2]
  BY DEF Init
<1>3. shutdown_attempts \in [Hosts -> 0 .. MaxAttempts + 1]
  BY NoAttempts DEF Init
<1>4. QED BY <1>1, <1>2, <1>3 DEF Init, TypeOK

\* What releasing or reconciling the bookkeeping leaves.
LEMMA ReleaseType ==
  ASSUME TypeOK, ReleaseLatches
  PROVE  /\ shutdown_triggered' \in BOOLEAN /\ host_fired' \subseteq Hosts
         /\ shutdown_state' \in [Hosts -> {"none", "sent", "failed"}]
         /\ shutdown_attempts' \in [Hosts -> 0 .. MaxAttempts + 1]
         /\ mains_ok_since' \in Nat \cup {None}
         /\ state' \in {"ONLINE", "SHUTDOWN_PENDING", "SHUTTING_DOWN"}
         /\ accepted' \subseteq Hosts
<1>1. shutdown_attempts' \in [Hosts -> 0 .. MaxAttempts + 1]
  BY NoAttempts DEF ReleaseLatches
<1>2. QED BY <1>1 DEF ReleaseLatches

LEMMA SyncType ==
  ASSUME TypeOK, NEW hosts, SyncHostStates(hosts)
  PROVE  /\ host_fired' \subseteq Hosts
         /\ shutdown_state' \in [Hosts -> {"none", "sent", "failed"}]
         /\ shutdown_attempts' \in [Hosts -> 0 .. MaxAttempts + 1]
         /\ accepted' \subseteq Hosts
<1>1. shutdown_attempts' \in [Hosts -> 0 .. MaxAttempts + 1]
  BY NoAttempts DEF SyncHostStates, TypeOK
<1>2. QED BY <1>1 DEF SyncHostStates, TypeOK

LEMMA TypeTick == TypeOK /\ Tick => TypeOK'
  BY HostAssumption DEF TypeOK, Tick, sweep, None

LEMMA TypePoll == TypeOK /\ Poll => TypeOK'
<1> SUFFICES ASSUME TypeOK, Poll
             PROVE  TypeOK'
  OBVIOUS
<1>1. SyncHostStates(cfg.hosts)
  BY DEF Poll
<1>2. asked' \subseteq Hosts /\ tries' \in [Hosts -> 0 .. 2] /\ mains_for' \in Nat
  BY DEF Poll, TypeOK
<1>3. QED BY <1>1, <1>2, SyncType DEF TypeOK, Poll, sweep

LEMMA TypeRearm == TypeOK /\ Rearm => TypeOK'
<1> SUFFICES ASSUME TypeOK, Rearm
             PROVE  TypeOK'
  OBVIOUS
<1>1. CASE ReleaseLatches
  BY <1>1, ReleaseType DEF TypeOK, Rearm, sweep
<1>2. CASE ~ReleaseLatches
  BY <1>2, HostAssumption DEF TypeOK, Rearm, sweep, latches
<1>3. QED BY <1>1, <1>2

LEMMA TypeSelect == TypeOK /\ Select => TypeOK'
<1> SUFFICES ASSUME TypeOK, Select
             PROVE  TypeOK'
  OBVIOUS
<1>1. cfg.enabled \subseteq Hosts
  BY HostAssumption DEF TypeOK
<1>2. QED BY <1>1 DEF TypeOK, Select, latches, history

LEMMA TypeConsider ==
  ASSUME TypeOK, NEW h \in Hosts, Consider(h)
  PROVE  TypeOK'
<1>1. shutdown_attempts' \in [Hosts -> 0 .. MaxAttempts + 1]
  BY NoAttempts DEF TypeOK, Consider, latches
<1>2. /\ host_fired' \subseteq Hosts
      /\ shutdown_state' \in [Hosts -> {"none", "sent", "failed"}]
  BY DEF TypeOK, Consider, latches
<1>3. due' \subseteq Hosts /\ had_eligible' \in BOOLEAN
  BY DEF TypeOK, Consider
<1>4. /\ shutdown_triggered' = shutdown_triggered
      /\ mains_ok_since' = mains_ok_since
  BY DEF Consider, latches
<1>5. QED
  BY <1>1, <1>2, <1>3, <1>4 DEF TypeOK, Consider, history

LEMMA TypeStartFiring ==
  ASSUME TypeOK, NEW hosts \in SUBSET Hosts, StartFiring(hosts)
  PROVE  /\ stage' \subseteq Hosts /\ inflight' \subseteq Hosts
         /\ host_fired' \subseteq Hosts /\ tries' \in [Hosts -> 0 .. 2]
         /\ shutdown_triggered' \in BOOLEAN
  BY DEF TypeOK, StartFiring

LEMMA TypeStartStage == TypeOK /\ StartStage => TypeOK'
<1> SUFFICES ASSUME TypeOK, StartStage
             PROVE  TypeOK'
  OBVIOUS
<1>1. LastChance \subseteq Hosts /\ Foremost(due) \subseteq Hosts
  BY ForemostWithin DEF TypeOK, LastChance
<1>2. /\ stage' \subseteq Hosts /\ inflight' \subseteq Hosts
      /\ host_fired' \subseteq Hosts /\ tries' \in [Hosts -> 0 .. 2]
      /\ shutdown_triggered' \in BOOLEAN
  BY <1>1, TypeStartFiring DEF StartStage
<1>3. due' \subseteq Hosts /\ failed_earlier' \subseteq Hosts
  BY DEF TypeOK, StartStage
<1>4. pc' \in {"fire", "retry"}
  BY DEF StartStage
<1>5. QED BY <1>2, <1>3, <1>4 DEF TypeOK, StartStage

LEMMA TypeAnswer ==
  ASSUME TypeOK, NEW h \in Hosts, NEW outcome \in Outcomes, Answer(h, outcome)
  PROVE  TypeOK'
<1>1. OneMore(shutdown_attempts[h]) \in 0 .. MaxAttempts + 1
  BY OneMoreType DEF TypeOK
<1>2. shutdown_attempts' \in [Hosts -> 0 .. MaxAttempts + 1]
  BY <1>1 DEF TypeOK, Answer
<1>3. shutdown_state' \in [Hosts -> {"none", "sent", "failed"}]
  BY DEF TypeOK, Answer
<1>4. /\ host_fired' \subseteq Hosts /\ raised' \subseteq Hosts
      /\ accepted' \subseteq Hosts /\ inflight' \subseteq Hosts
  BY DEF TypeOK, Answer
<1>5. QED BY <1>2, <1>3, <1>4 DEF TypeOK, Answer

LEMMA TypeEndStage == TypeOK /\ EndStage => TypeOK'
<1> SUFFICES ASSUME TypeOK, EndStage
             PROVE  TypeOK'
  OBVIOUS
<1>1. shutdown_attempts' \in [Hosts -> 0 .. MaxAttempts + 1]
  BY OneMoreType DEF TypeOK, EndStage
<1>2. shutdown_state' \in [Hosts -> {"none", "sent", "failed"}]
  BY DEF TypeOK, EndStage
<1>3. failed_earlier' \subseteq Hosts /\ host_fired' \subseteq Hosts
  BY DEF TypeOK, EndStage
<1>4. QED BY <1>1, <1>2, <1>3 DEF TypeOK, EndStage, history

LEMMA TypeEndSweep == TypeOK /\ EndSweep => TypeOK'
  BY DEF TypeOK, EndSweep, RecomputeState, history

LEMMA TypeReset == TypeOK /\ Reset => TypeOK'
<1> SUFFICES ASSUME TypeOK, Reset
             PROVE  TypeOK'
  OBVIOUS
<1>1. verdict' \in [Ups -> Verdicts]
  BY DEF TypeOK, Reset, Verdicts
<1>2. ReleaseLatches
  BY DEF Reset
<1>3. QED BY <1>1, <1>2, ReleaseType DEF TypeOK, Reset, sweep

LEMMA TypeSaveConfig ==
  ASSUME TypeOK, NEW c \in Configs, SaveConfig(c)
  PROVE  TypeOK'
<1>1. SyncHostStates(c.hosts)
  BY DEF SaveConfig
<1>2. QED BY <1>1, SyncType DEF TypeOK, SaveConfig, sweep

LEMMA TypeRestart == TypeOK /\ Restart => TypeOK'
<1> SUFFICES ASSUME TypeOK, Restart
             PROVE  TypeOK'
  OBVIOUS
<1>1. verdict' \in [Ups -> Verdicts]
  BY DEF Restart, Verdicts
<1>2. /\ shutdown_state' \in [Hosts -> {"none", "sent", "failed"}]
      /\ tries' \in [Hosts -> 0 .. 2]
  BY DEF Restart
<1>3. shutdown_attempts' \in [Hosts -> 0 .. MaxAttempts + 1]
  BY NoAttempts DEF Restart
<1>4. QED BY <1>1, <1>2, <1>3 DEF Restart, TypeOK

LEMMA TypeNext == TypeOK /\ [Next]_vars => TypeOK'
<1>1. TypeOK /\ UNCHANGED vars => TypeOK'
  BY DEF TypeOK, vars, latches, sweep, history
<1>2. QED
  BY <1>1, TypeTick, TypePoll, TypeRearm, TypeSelect, TypeConsider,
     TypeStartStage, TypeAnswer, TypeEndStage, TypeEndSweep, TypeReset,
     TypeSaveConfig, TypeRestart
     DEF Next, Loop

\* Every variable keeps its type, for every number of hosts and every limit.
THEOREM TypeCorrect == Spec => []TypeOK
  BY TypeInit, TypeNext, PTL DEF Spec

-----------------------------------------------------------------------------
(***************************************************************************)
(* A sent shutdown is final.  That the record, the latch and the lists of  *)
(* the sweep agree holds only because the lists are disjoint, and they are *)
(* because each is empty where the loop fills another.                     *)
(***************************************************************************)

\* What the local variables of the loop hold, by where it is.
ControlInv ==
  /\ pc \notin {"fire", "retry"} => stage = {} /\ inflight = {} /\ raised = {}
  /\ pc \in {"wait", "rearm", "select"} => todo = {} /\ due = {} /\ failed_earlier = {}
  /\ pc \in {"fire", "retry"} => todo = {}
  /\ todo # {} => failed_earlier = {}
  /\ inflight \subseteq stage /\ raised \subseteq stage
  /\ raised \cap inflight = {}
  /\ failed_earlier \cap due = {}

\* A call that raised was not made to a host recorded as powering down.
RaisedInv == \A h \in raised : shutdown_state[h] # "sent"

IInv == TypeOK /\ LatchesAgree /\ ControlInv /\ RaisedInv

LEMMA IInvInit == Init => IInv
  BY TypeInit DEF Init, IInv, LatchesAgree, ControlInv, RaisedInv

\* Releasing or reconciling the bookkeeping takes latches only together with the
\* records, and touches no list of the sweep.
LEMMA AgreeRelease ==
  ASSUME IInv, ReleaseLatches, UNCHANGED <<pc, sweep>>
  PROVE  LatchesAgree' /\ ControlInv' /\ RaisedInv'
<1>1. LatchesAgree'
  BY DEF IInv, ReleaseLatches, sweep, LatchesAgree
<1>2. ControlInv'
  BY DEF IInv, sweep, ControlInv
<1>3. RaisedInv'
  BY DEF IInv, ReleaseLatches, sweep, RaisedInv, TypeOK
<1>4. QED BY <1>1, <1>2, <1>3

LEMMA AgreeSync ==
  ASSUME IInv, NEW hosts, SyncHostStates(hosts), UNCHANGED sweep
  PROVE  LatchesAgree' /\ RaisedInv'
  BY DEF IInv, SyncHostStates, sweep, LatchesAgree, RaisedInv, TypeOK

LEMMA AgreeConsider ==
  ASSUME IInv, NEW h \in Hosts, Consider(h)
  PROVE  LatchesAgree' /\ ControlInv' /\ RaisedInv'
<1>1. /\ pc = "sweep" /\ h \in todo
      /\ stage = {} /\ inflight = {} /\ raised = {} /\ failed_earlier = {}
  BY ForemostWithin DEF IInv, ControlInv, Consider
<1>2. ControlInv' /\ RaisedInv'
  BY <1>1 DEF Consider, ControlInv, RaisedInv
<1>3. CASE Demanded(h)
  BY <1>1, <1>2, <1>3 DEF Consider, Eligible, LatchesAgree, latches, IInv
<1>4. CASE ~Demanded(h)
  <2>1. ASSUME NEW g \in Hosts, shutdown_state'[g] = "sent"
        PROVE  g \in host_fired'
    BY <1>4, <2>1 DEF Consider, Eligible, LatchesAgree, IInv, TypeOK
  <2>2. host_fired' \subseteq host_fired /\ due' = due
    BY <1>4 DEF Consider, Eligible
  <2>3. QED BY <1>1, <1>2, <2>1, <2>2 DEF LatchesAgree, IInv, Consider
<1>5. QED BY <1>2, <1>3, <1>4

\* Only hosts without a latch are commanded.
LEMMA AgreeStartStage ==
  ASSUME IInv, StartStage
  PROVE  LatchesAgree' /\ ControlInv' /\ RaisedInv'
<1>1. /\ pc = "sweep" /\ todo = {} /\ stage = {} /\ inflight = {} /\ raised = {}
      /\ due \cap host_fired = {} /\ failed_earlier \cap due = {}
  BY DEF IInv, StartStage, ControlInv, LatchesAgree
<1>2. PICK hosts \in SUBSET Hosts :
        /\ StartFiring(hosts)
        /\ hosts \cap due' = {} /\ hosts \cap host_fired = {}
        /\ due' \subseteq due
        /\ pc' \in {"fire", "retry"}
  <2>1. CASE LastChance # {}
    <3>1. LastChance \subseteq failed_earlier /\ LastChance \cap host_fired = {}
      BY DEF LastChance, RetryDue
    <3>2. StartFiring(LastChance) /\ due' = due /\ pc' = "retry"
      BY <2>1 DEF StartStage
    <3>3. QED BY <1>1, <3>1, <3>2 DEF IInv, TypeOK
  <2>2. CASE LastChance = {}
    <3>1. Foremost(due) \subseteq due
      BY ForemostWithin
    <3>2. StartFiring(Foremost(due)) /\ due' = due \ Foremost(due) /\ pc' = "fire"
      BY <2>2 DEF StartStage
    <3>3. QED BY <1>1, <3>1, <3>2 DEF IInv, TypeOK
  <2>3. QED BY <2>1, <2>2
<1>3. /\ stage' = hosts /\ raised' = raised /\ todo' = todo
      /\ shutdown_state' = shutdown_state
      /\ failed_earlier' = {} \/ failed_earlier' = failed_earlier
  BY <1>2 DEF StartStage, StartFiring
<1>4. \/ host_fired' = host_fired /\ inflight' = hosts
      \/ host_fired' = host_fired \cup hosts /\ inflight' = inflight
  BY <1>2 DEF StartFiring
<1>5. ControlInv' /\ RaisedInv'
  BY <1>1, <1>2, <1>3, <1>4 DEF ControlInv, RaisedInv
<1>6. LatchesAgree'
  BY <1>1, <1>2, <1>3, <1>4 DEF LatchesAgree, IInv
<1>7. QED BY <1>5, <1>6

LEMMA AgreeAnswer ==
  ASSUME IInv, NEW h \in Hosts, NEW outcome \in Outcomes, Answer(h, outcome)
  PROVE  LatchesAgree' /\ ControlInv' /\ RaisedInv'
<1>1. /\ h \in inflight /\ h \in stage /\ h \notin host_fired /\ h \notin due
      /\ shutdown_state[h] # "sent" /\ h \notin raised
  BY DEF IInv, Answer, ControlInv, LatchesAgree
<1>2. /\ inflight' = inflight \ {h}
      /\ UNCHANGED <<pc, todo, due, stage, failed_earlier>>
  BY DEF Answer
<1>3. CASE outcome = "raise"
  <2>1. raised' = raised \cup {h} /\ UNCHANGED <<host_fired, shutdown_state>>
    BY <1>3 DEF Answer
  <2>2. QED
    BY <1>1, <1>2, <2>1 DEF IInv, ControlInv, LatchesAgree, RaisedInv
<1>4. CASE outcome # "raise"
  <2>1. /\ raised' = raised
        /\ shutdown_state' = [shutdown_state EXCEPT
             ![h] = IF outcome = "ok" THEN "sent" ELSE "failed"]
        /\ outcome = "ok" => host_fired' = host_fired \cup {h}
        /\ host_fired' = host_fired \cup {h} \/ host_fired' = host_fired \ {h}
    BY <1>4 DEF Answer, Settled
  <2>2. ControlInv' /\ RaisedInv'
    BY <1>1, <1>2, <2>1 DEF IInv, ControlInv, RaisedInv, TypeOK
  <2>3. LatchesAgree'
    BY <1>1, <1>2, <2>1 DEF IInv, LatchesAgree, TypeOK
  <2>4. QED BY <2>2, <2>3
<1>5. QED BY <1>3, <1>4

LEMMA AgreeEndStage ==
  ASSUME IInv, EndStage
  PROVE  LatchesAgree' /\ ControlInv' /\ RaisedInv'
<1>1. /\ inflight = {} /\ inflight' = {} /\ stage' = {} /\ raised' = {}
      /\ todo = {} /\ todo' = {} /\ due' = due /\ pc' = "sweep"
      /\ host_fired' = host_fired \ raised
  BY DEF IInv, EndStage, ControlInv
<1>2. failed_earlier' \subseteq failed_earlier \cup stage
  BY DEF EndStage, IInv, ControlInv
<1>3. ControlInv' /\ RaisedInv'
  BY <1>1, <1>2 DEF IInv, ControlInv, RaisedInv, LatchesAgree
<1>4. LatchesAgree'
  BY <1>1 DEF IInv, EndStage, LatchesAgree, TypeOK
<1>5. QED BY <1>3, <1>4

LEMMA IInvNext == IInv /\ [Next]_vars => IInv'
<1> SUFFICES ASSUME IInv, [Next]_vars
             PROVE  LatchesAgree' /\ ControlInv' /\ RaisedInv'
  BY TypeNext DEF IInv
<1>1. CASE Tick
  BY <1>1 DEF Tick, sweep, IInv, LatchesAgree, ControlInv, RaisedInv
<1>2. CASE Poll
  <2>1. ControlInv'
    BY <1>2 DEF Poll, sweep, IInv, ControlInv
  <2>2. QED BY <1>2, <2>1, AgreeSync DEF Poll
<1>3. CASE Rearm
  <2>1. pc = "rearm" /\ pc' = "select" /\ UNCHANGED sweep
    BY <1>3 DEF Rearm
  <2>2. ControlInv'
    BY <2>1 DEF sweep, IInv, ControlInv
  <2>3. UNCHANGED <<host_fired, shutdown_state>> \/ ReleaseLatches
    BY <1>3 DEF Rearm, latches
  <2>4. LatchesAgree' /\ RaisedInv'
    BY <2>1, <2>3
       DEF ReleaseLatches, sweep, IInv, LatchesAgree, RaisedInv, ControlInv, TypeOK
  <2>5. QED BY <2>2, <2>4
<1>4. CASE Select
  BY <1>4 DEF Select, latches, IInv, LatchesAgree, ControlInv, RaisedInv
<1>5. CASE \E h \in Hosts : Consider(h)
  BY <1>5, AgreeConsider
<1>6. CASE StartStage
  BY <1>6, AgreeStartStage
<1>7. CASE \E h \in Hosts, outcome \in Outcomes : Answer(h, outcome)
  BY <1>7, AgreeAnswer
<1>8. CASE EndStage
  BY <1>8, AgreeEndStage
<1>9. CASE EndSweep
  BY <1>9 DEF EndSweep, IInv, LatchesAgree, ControlInv, RaisedInv
<1>10. CASE Reset
  BY <1>10, AgreeRelease DEF Reset
<1>11. ASSUME NEW c \in Configs, SaveConfig(c)
       PROVE  LatchesAgree' /\ ControlInv' /\ RaisedInv'
  <2>1. ControlInv'
    BY <1>11 DEF SaveConfig, sweep, IInv, ControlInv
  <2>2. QED BY <1>11, <2>1, AgreeSync DEF SaveConfig
<1>12. CASE Restart
  BY <1>12 DEF Restart, LatchesAgree, ControlInv, RaisedInv
<1>13. CASE UNCHANGED vars
  BY <1>13 DEF vars, latches, sweep, IInv, LatchesAgree, ControlInv, RaisedInv
<1>14. QED
  BY <1>1, <1>2, <1>3, <1>4, <1>5, <1>6, <1>7, <1>8, <1>9, <1>10, <1>11,
     <1>12, <1>13
     DEF Next, Loop

THEOREM IInvCorrect == Spec => []IInv
  BY IInvInit, IInvNext, PTL DEF Spec

\* The records, the latches and the lists of the sweep agree in every state.
THEOREM LatchesCorrect == Spec => []LatchesAgree
<1>1. IInv => LatchesAgree
  BY DEF IInv
<1>2. QED BY IInvCorrect, <1>1, PTL

\* Only StartStage commands, and only hosts without a latch.
LEMMA CommandedUnlatched ==
  ASSUME IInv, [Next]_vars, NEW h \in Commanded
  PROVE  h \in Hosts /\ shutdown_state[h] # "sent"
<1>1. inflight' \subseteq inflight \/ StartStage
  BY DEF Next, Loop, Tick, Poll, Rearm, Select, Consider, Answer, EndStage,
         EndSweep, Reset, SaveConfig, Restart, sweep, vars
<1>2. CASE StartStage
  <2>1. TypeOK' /\ LatchesAgree'
    BY IInvNext DEF IInv
  <2>2. h \in Hosts /\ h \notin host_fired'
    BY <2>1 DEF Commanded, LatchesAgree, TypeOK
  <2>3. host_fired \subseteq host_fired'
    BY <1>2 DEF StartStage, StartFiring
  <2>4. QED BY <2>2, <2>3 DEF IInv, LatchesAgree
<1>3. QED BY <1>1, <1>2 DEF Commanded

\* README "Ready for the next outage": a host recorded as powering down is not
\* commanded again, with any number of hosts, stages, retries and saves.
THEOREM SentIsFinalCorrect == Spec => SentIsFinal
<1>1. IInv /\ [Next]_vars => [\A h \in Commanded : shutdown_state[h] # "sent"]_vars
  BY CommandedUnlatched
<1>2. QED BY IInvCorrect, <1>1, PTL DEF Spec, SentIsFinal

-----------------------------------------------------------------------------
(***************************************************************************)
(* The re-arm.                                                             *)
(***************************************************************************)

\* The re-arm delay is measured from a poll that was no older than the last one
\* that was not all mains, unless this poll is that one.
RearmInv ==
  /\ mains_ok_since # None => RearmAfter # None /\ mains_ok_since <= RearmAfter
  /\ RearmAfter # None => mains_for <= RearmAfter
  /\ mains_ok_since # None =>
       mains_ok_since <= mains_for \/ (pc = "rearm" /\ ~AllMains)

LEMMA RearmInit == Init => RearmInv
  BY HostAssumption DEF Init, RearmInv, None

\* Without a waiting re-arm there is nothing to measure.
LEMMA RearmIdle ==
  ASSUME RearmInv, mains_ok_since' = None, mains_for' \in {0, mains_for},
         mains_for \in Nat
  PROVE  RearmInv'
  BY HostAssumption DEF RearmInv, None

LEMMA RearmNext == TypeOK /\ RearmInv /\ [Next]_vars => RearmInv'
<1> SUFFICES ASSUME TypeOK, RearmInv, [Next]_vars
             PROVE  RearmInv'
  OBVIOUS
<1>1. mains_for \in Nat /\ mains_ok_since \in Nat \cup {None}
  BY DEF TypeOK
<1>2. CASE Tick
  <2>1. AllMains' = AllMains /\ pc' = pc
    BY <1>2 DEF Tick, AllMains
  <2>2. RearmAfter \in Nat
    BY <1>2, HostAssumption DEF Tick
  <2>3. CASE mains_ok_since = None
    BY <1>1, <1>2, <2>2, <2>3 DEF Tick, RearmInv, None
  <2>4. CASE mains_ok_since # None
    <3>1. /\ mains_ok_since \in Nat /\ mains_ok_since <= RearmAfter
          /\ mains_for <= RearmAfter
      BY <1>1, <2>2, <2>4 DEF RearmInv
    <3>2. /\ mains_ok_since' = IF mains_ok_since = RearmAfter
                               THEN mains_ok_since ELSE mains_ok_since + 1
          /\ mains_for' = IF mains_for = RearmAfter THEN mains_for
                          ELSE mains_for + 1
      BY <1>2, <2>4 DEF Tick
    <3>3. mains_ok_since' <= RearmAfter /\ mains_for' <= RearmAfter
      BY <1>1, <2>2, <3>1, <3>2
    <3>4. mains_ok_since <= mains_for => mains_ok_since' <= mains_for'
      BY <1>1, <2>2, <3>1, <3>2
    <3>5. QED BY <2>1, <2>2, <2>4, <3>3, <3>4 DEF RearmInv, None
  <2>5. QED BY <2>3, <2>4
<1>3. CASE Poll
  <2>1. mains_ok_since' = mains_ok_since /\ pc' = "rearm" /\ pc = "wait"
    BY <1>3 DEF Poll
  <2>2. mains_for' = IF AllMains' THEN mains_for ELSE 0
    BY <1>3 DEF Poll, AllMains
  <2>3. QED BY <1>1, <2>1, <2>2, HostAssumption DEF RearmInv, None
<1>4. CASE Rearm
  <2>1. mains_for' = mains_for
    BY <1>4 DEF Rearm
  <2>2. CASE ~Rearming \/ ReleaseLatches
    <3>1. mains_ok_since' = None
      BY <1>4, <2>2 DEF Rearm, ReleaseLatches
    <3>2. QED BY <1>1, <2>1, <3>1, RearmIdle
  <2>3. CASE Rearming /\ ~ReleaseLatches
    <3>1. AllMains /\ RearmAfter \in Nat
      BY <2>3, HostAssumption DEF Rearming
    <3>2. \/ mains_ok_since' = 0
          \/ mains_ok_since # None /\ mains_ok_since' = mains_ok_since
      BY <1>4, <2>3 DEF Rearm, latches
    <3>3. QED BY <1>1, <2>1, <3>1, <3>2 DEF RearmInv, None
  <2>4. QED BY <2>2, <2>3
<1>5. CASE Reset
  <2>1. mains_ok_since' = None /\ mains_for' = mains_for
    BY <1>5 DEF Reset, ReleaseLatches
  <2>2. QED BY <1>1, <2>1, RearmIdle
<1>6. CASE Restart
  <2>1. mains_ok_since' = None /\ mains_for' = 0
    BY <1>6 DEF Restart
  <2>2. QED BY <1>1, <2>1, RearmIdle
<1>7. ASSUME UNCHANGED <<mains_ok_since, mains_for, verdict>>,
             pc = "rearm" => pc' = "rearm"
      PROVE  RearmInv'
  <2>1. AllMains' = AllMains
    BY <1>7 DEF AllMains
  <2>2. QED BY <1>7, <2>1 DEF RearmInv
<1>8. CASE Select \/ (\E h \in Hosts : Consider(h)) \/ StartStage
           \/ EndStage \/ EndSweep
  <2>1. pc # "rearm" /\ UNCHANGED <<mains_ok_since, mains_for, verdict>>
    BY <1>8 DEF Select, Consider, StartStage, EndStage, EndSweep, latches, history
  <2>2. QED BY <1>7, <2>1
<1>9. CASE \E h \in Hosts, outcome \in Outcomes : Answer(h, outcome)
  BY <1>7, <1>9 DEF Answer
<1>10. CASE \E c \in Configs : SaveConfig(c)
  BY <1>7, <1>10 DEF SaveConfig
<1>11. CASE UNCHANGED vars
  BY <1>7, <1>11 DEF vars, latches, history
<1>12. QED
  BY <1>2, <1>3, <1>4, <1>5, <1>6, <1>8, <1>9, <1>10, <1>11 DEF Next, Loop

THEOREM RearmCorrect == Spec => []RearmInv
  BY RearmInit, RearmNext, TypeCorrect, PTL DEF Spec

\* Where the record of a sent shutdown may go.
LEMMA SentReleased ==
  ASSUME IInv, RearmInv, [Next]_vars, NEW h \in Hosts,
         shutdown_state[h] = "sent", shutdown_state'[h] # "sent"
  PROVE  \/ Reset \/ Restart \/ h \notin cfg'.hosts
         \/ AllMains /\ RearmAfter # None /\ mains_for >= RearmAfter
<1>1. /\ h \in host_fired /\ h \notin inflight /\ h \notin raised
      /\ shutdown_state \in [Hosts -> {"none", "sent", "failed"}]
      /\ mains_for \in Nat /\ mains_ok_since \in Nat \cup {None}
  BY DEF IInv, LatchesAgree, RaisedInv, TypeOK
<1>2. ASSUME NEW hosts, SyncHostStates(hosts)
      PROVE  h \notin hosts
  BY <1>2 DEF SyncHostStates
<1>3. CASE Poll
  BY <1>2, <1>3 DEF Poll
<1>4. CASE \E c \in Configs : SaveConfig(c)
  BY <1>2, <1>4 DEF SaveConfig
<1>5. CASE Rearm
  <2>1. Rearming /\ mains_ok_since # None /\ mains_ok_since >= RearmAfter
    BY <1>5 DEF Rearm, latches
  <2>2. AllMains /\ RearmAfter \in Nat /\ RearmAfter # None
    BY <2>1, HostAssumption DEF Rearming, None
  <2>3. mains_ok_since <= mains_for
    BY <2>1, <2>2 DEF RearmInv
  <2>4. QED BY <1>1, <2>1, <2>2, <2>3
<1>6. ASSUME NEW g \in Hosts, Consider(g)
      PROVE  FALSE
  BY <1>1, <1>6 DEF Consider, Releasable, latches
<1>7. ASSUME NEW g \in Hosts, NEW outcome \in Outcomes, Answer(g, outcome)
      PROVE  FALSE
  BY <1>1, <1>7 DEF Answer
<1>8. CASE EndStage
  BY <1>1, <1>8 DEF EndStage
<1>9. CASE Tick \/ Select \/ StartStage \/ EndSweep \/ UNCHANGED vars
  BY <1>9 DEF Tick, Select, StartStage, EndSweep, vars, latches
<1>10. QED
  BY <1>3, <1>4, <1>5, <1>6, <1>7, <1>8, <1>9 DEF Next, Loop

\* README "Ready for the next outage": a grid that dips twice never re-arms in
\* between, for every delay and every pattern of polls.
THEOREM SentIsReleasedCorrect == Spec => SentIsReleasedByMains
<1>1. IInv /\ RearmInv /\ [Next]_vars =>
        [\A h \in Hosts :
           shutdown_state[h] = "sent" /\ shutdown_state'[h] # "sent" =>
             \/ Reset \/ Restart \/ h \notin cfg'.hosts
             \/ AllMains /\ RearmAfter # None /\ mains_for >= RearmAfter]_vars
  BY SentReleased
<1>2. QED
  BY IInvCorrect, RearmCorrect, <1>1, PTL DEF Spec, SentIsReleasedByMains

-----------------------------------------------------------------------------
(***************************************************************************)
(* The attempts.  Without calls that raise, the latch settles a host with  *)
(* its last attempt, and only hosts without a latch are commanded.         *)
(***************************************************************************)

AttemptsInv ==
  "raise" \notin Outcomes =>
    /\ raised = {}
    /\ \A h \in Hosts : shutdown_attempts[h] <= MaxAttempts
    /\ \A h \in Hosts : shutdown_attempts[h] = MaxAttempts => h \in host_fired

LEMMA AttemptsInit == Init => AttemptsInv
  BY HostAssumption DEF Init, AttemptsInv

\* The record of the attempts goes with the latch.
LEMMA AttemptsKept ==
  ASSUME TypeOK, AttemptsInv, raised' \subseteq raised,
         \A h \in Hosts :
           \/ shutdown_attempts'[h] = 0
           \/ /\ shutdown_attempts'[h] = shutdown_attempts[h]
              /\ h \in host_fired => h \in host_fired'
  PROVE  AttemptsInv'
  BY HostAssumption DEF AttemptsInv, TypeOK

LEMMA AttemptsAnswer ==
  ASSUME IInv, AttemptsInv, NEW h \in Hosts, NEW outcome \in Outcomes, Answer(h, outcome)
  PROVE  AttemptsInv'
<1> SUFFICES ASSUME "raise" \notin Outcomes
             PROVE  AttemptsInv'
  BY DEF AttemptsInv
<1> DEFINE n == OneMore(shutdown_attempts[h])
<1>1. h \notin host_fired /\ outcome # "raise" /\ raised = {}
  BY DEF IInv, Answer, ControlInv, LatchesAgree, AttemptsInv
<1>2. /\ shutdown_attempts \in [Hosts -> 0 .. MaxAttempts + 1]
      /\ shutdown_attempts[h] < MaxAttempts
  <2>1. shutdown_attempts \in [Hosts -> 0 .. MaxAttempts + 1]
    BY DEF IInv, TypeOK
  <2>2. shutdown_attempts[h] <= MaxAttempts /\ shutdown_attempts[h] # MaxAttempts
    BY <1>1, Zenon DEF AttemptsInv
  <2>3. QED BY <2>1, <2>2, HostAssumption
<1>3. n \in Nat /\ n <= MaxAttempts
  BY <1>2, HostAssumption DEF OneMore
<1>4. /\ raised' = raised
      /\ shutdown_attempts' = [shutdown_attempts EXCEPT ![h] = n]
      /\ n >= MaxAttempts => host_fired' = host_fired \cup {h}
      /\ host_fired \subseteq host_fired' \cup {h}
  BY <1>1 DEF Answer, Settled
<1> HIDE DEF n
<1>5. \A g \in Hosts : g # h => shutdown_attempts'[g] = shutdown_attempts[g]
  BY <1>2, <1>4
<1>6. shutdown_attempts'[h] = n
  BY <1>2, <1>4
<1>7. shutdown_attempts'[h] = MaxAttempts => h \in host_fired'
  BY <1>3, <1>4, <1>6, HostAssumption
<1>8. QED BY <1>1, <1>3, <1>4, <1>5, <1>6, <1>7 DEF AttemptsInv

LEMMA AttemptsNext == IInv /\ AttemptsInv /\ [Next]_vars => AttemptsInv'
<1> SUFFICES ASSUME IInv, AttemptsInv, [Next]_vars
             PROVE  AttemptsInv'
  OBVIOUS
<1>1. ASSUME NEW hosts, SyncHostStates(hosts), raised' = raised
      PROVE  AttemptsInv'
  BY <1>1, AttemptsKept DEF SyncHostStates, IInv
<1>2. CASE Poll
  BY <1>1, <1>2 DEF Poll, sweep
<1>3. CASE \E c \in Configs : SaveConfig(c)
  BY <1>1, <1>3 DEF SaveConfig, sweep
<1>4. CASE Rearm
  BY <1>4, AttemptsKept DEF Rearm, ReleaseLatches, latches, sweep, IInv
<1>5. ASSUME NEW h \in Hosts, Consider(h)
      PROVE  AttemptsInv'
  <2>1. raised' = raised
    BY <1>5 DEF Consider
  <2>2. CASE UNCHANGED <<host_fired, shutdown_attempts>>
    BY <2>1, <2>2, AttemptsKept DEF IInv
  <2>3. CASE /\ host_fired' = host_fired \ {h}
             /\ shutdown_attempts' = [shutdown_attempts EXCEPT ![h] = 0]
    BY <2>1, <2>3, AttemptsKept DEF IInv, TypeOK
  <2>4. QED BY <1>5, <2>2, <2>3 DEF Consider, latches
<1>6. CASE StartStage
  <2>1. host_fired \subseteq host_fired'
    BY <1>6 DEF StartStage, StartFiring
  <2>2. QED BY <1>6, <2>1, AttemptsKept DEF StartStage, IInv
<1>7. CASE EndStage
  <2>1. CASE "raise" \in Outcomes
    BY <2>1 DEF AttemptsInv
  <2>2. CASE "raise" \notin Outcomes
    <3>1. raised = {} /\ raised' = {}
      BY <1>7, <2>2 DEF EndStage, AttemptsInv
    <3>2. \A h \in Hosts : shutdown_attempts'[h] = shutdown_attempts[h]
      BY <1>7, <3>1 DEF EndStage
    <3>3. host_fired' = host_fired
      BY <1>7, <3>1 DEF EndStage
    <3>4. QED BY <3>1, <3>2, <3>3, AttemptsKept DEF IInv
  <2>3. QED BY <2>1, <2>2
<1>8. CASE Reset
  BY <1>8, AttemptsKept DEF Reset, ReleaseLatches, sweep, IInv
<1>9. CASE Restart
  BY <1>9, AttemptsKept DEF Restart, IInv
<1>10. CASE Tick \/ Select \/ EndSweep \/ UNCHANGED vars
  BY <1>10, AttemptsKept DEF Tick, Select, EndSweep, vars, latches, sweep, IInv
<1>11. QED
  BY <1>2, <1>3, <1>4, <1>5, <1>6, <1>7, <1>8, <1>9, <1>10, AttemptsAnswer
     DEF Next, Loop

\* README.md:326 "three attempts": a host whose calls are answered is commanded at most
\* MAX_SHUTDOWN_ATTEMPTS times in an episode, for every limit and interleaving.
THEOREM AttemptsCorrect == Spec => []AttemptsAreBounded
<1>1. AttemptsInv => AttemptsAreBounded
  BY DEF AttemptsInv, AttemptsAreBounded
<1>2. QED BY IInvCorrect, AttemptsInit, AttemptsNext, <1>1, PTL DEF Spec

-----------------------------------------------------------------------------
(***************************************************************************)
(* Who is commanded, and when.  The lists of the sweep hold only hosts the *)
(* verdicts of its poll demand; a reset in the middle takes demands away   *)
(* and never adds one.                                                     *)
(***************************************************************************)

DemandInv ==
  /\ due \cup failed_earlier \cup stage \subseteq asked
  /\ pc # "wait" => \A h \in Hosts : Demanded(h) => h \in asked

LEMMA DemandInit == Init => DemandInv
  BY DEF Init, DemandInv

\* A step that keeps the verdicts and adds nothing to the lists.
LEMMA DemandKept ==
  ASSUME DemandInv, UNCHANGED <<verdict, asked>>, pc = "wait" => pc' = "wait",
         due' \cup failed_earlier' \cup stage' \subseteq due \cup failed_earlier \cup stage
  PROVE  DemandInv'
<1>1. \A h \in Hosts : Demanded(h)' = Demanded(h)
  BY DEF Demanded
<1>2. QED BY <1>1 DEF DemandInv

LEMMA DemandNext == IInv /\ DemandInv /\ [Next]_vars => DemandInv'
<1> SUFFICES ASSUME IInv, DemandInv, [Next]_vars
             PROVE  DemandInv'
  OBVIOUS
<1>1. CASE Poll
  <2>1. due' = {} /\ failed_earlier' = {} /\ stage' = {}
    BY <1>1 DEF Poll, sweep, IInv, ControlInv
  <2>2. asked' = {h \in Hosts : Demanded(h)'}
    BY <1>1 DEF Poll, WillDemand, Demanded
  <2>3. QED BY <2>1, <2>2 DEF DemandInv
<1>2. ASSUME NEW h \in Hosts, Consider(h)
      PROVE  DemandInv'
  <2>1. /\ pc = "sweep" /\ pc' = pc
        /\ UNCHANGED <<verdict, asked, failed_earlier, stage>>
    BY <1>2 DEF Consider, history
  <2>2. due' \subseteq due \/ (Demanded(h) /\ due' = due \cup {h})
    BY <1>2 DEF Consider, Eligible
  <2>3. CASE due' \subseteq due
    BY <2>1, <2>3, DemandKept
  <2>4. CASE Demanded(h) /\ due' = due \cup {h}
    <3>1. h \in asked /\ \A g \in Hosts : Demanded(g)' = Demanded(g)
      BY <2>1, <2>4 DEF DemandInv, Demanded
    <3>2. QED BY <2>1, <2>4, <3>1 DEF DemandInv
  <2>5. QED BY <2>2, <2>3, <2>4
<1>3. CASE StartStage
  <2>1. pc # "wait" /\ UNCHANGED <<verdict, asked>>
    BY <1>3 DEF StartStage
  <2>2. LastChance \subseteq failed_earlier /\ Foremost(due) \subseteq due
    BY ForemostWithin DEF LastChance
  <2>3. /\ stage' \subseteq failed_earlier \cup due /\ due' \subseteq due
        /\ failed_earlier' \subseteq failed_earlier
    BY <1>3, <2>2 DEF StartStage, StartFiring
  <2>4. QED BY <2>1, <2>3, DemandKept
<1>4. CASE EndStage
  <2>1. /\ pc # "wait" /\ UNCHANGED <<verdict, asked, due>> /\ stage' = {}
        /\ failed_earlier' \subseteq failed_earlier \cup stage
    BY <1>4 DEF EndStage, history, IInv, ControlInv
  <2>2. QED BY <2>1, DemandKept
<1>5. CASE Reset
  <2>1. \A u \in Ups : verdict'[u] # "demand"
    BY <1>5 DEF Reset
  <2>2. \A h \in Hosts : ~Demanded(h)'
    BY <2>1, HostAssumption DEF Demanded
  <2>3. UNCHANGED <<due, failed_earlier, stage, asked>>
    BY <1>5 DEF Reset, sweep
  <2>4. QED BY <2>2, <2>3 DEF DemandInv
<1>6. CASE Restart
  BY <1>6 DEF Restart, DemandInv
<1>7. CASE Rearm \/ Select
  <2>1. UNCHANGED <<verdict, asked, due, failed_earlier, stage>> /\ pc # "wait"
    BY <1>7 DEF Rearm, Select, sweep, history
  <2>2. QED BY <2>1, DemandKept
<1>8. CASE \/ \E h \in Hosts, outcome \in Outcomes : Answer(h, outcome)
           \/ \E c \in Configs : SaveConfig(c)
           \/ Tick \/ UNCHANGED vars
  <2>1. UNCHANGED <<verdict, asked, due, failed_earlier, stage, pc>>
    BY <1>8 DEF Answer, SaveConfig, Tick, vars, sweep, history
  <2>2. QED BY <2>1, DemandKept
<1>9. CASE EndSweep
  <2>1. /\ UNCHANGED <<verdict, asked, due, stage>>
        /\ failed_earlier' = {} /\ pc' = "wait"
    BY <1>9 DEF EndSweep, history
  <2>2. QED BY <2>1, DemandKept
<1>10. QED
  BY <1>1, <1>2, <1>3, <1>4, <1>5, <1>6, <1>7, <1>8, <1>9 DEF Next, Loop

\* Every host a sweep lists is one its poll demands.
THEOREM DemandCorrect == Spec => []DemandInv
  BY DemandInit, DemandNext, IInvCorrect, PTL DEF Spec

\* Only the start of a stage commands, and it commands the hosts of that stage.
LEMMA CommandedInStage ==
  ASSUME IInv, [Next]_vars, Commanded # {}
  PROVE  StartStage /\ Commanded \subseteq stage'
<1>1. inflight' \subseteq inflight \/ StartStage
  BY DEF Next, Loop, Tick, Poll, Rearm, Select, Consider, Answer, EndStage,
         EndSweep, Reset, SaveConfig, Restart, sweep, vars
<1>2. inflight' \subseteq stage'
  BY IInvNext DEF IInv, ControlInv
<1>3. QED BY <1>1, <1>2 DEF Commanded

\* Nothing is commanded but what the poll of this very sweep demands, whatever
\* resets, saved configurations, retries and late answers lie in between.
THEOREM CommandsAreDemandedCorrect == Spec => CommandsAreDemanded
<1>1. IInv /\ DemandInv /\ [Next]_vars => [Commanded \subseteq asked]_vars
  <2> SUFFICES ASSUME IInv, DemandInv, [Next]_vars, Commanded # {}
               PROVE  Commanded \subseteq asked
    OBVIOUS
  <2>1. StartStage /\ Commanded \subseteq stage'
    BY CommandedInStage
  <2>2. stage' \subseteq asked' /\ asked' = asked
    BY <2>1, DemandNext DEF DemandInv, StartStage
  <2>3. QED BY <2>1, <2>2
<1>2. QED BY IInvCorrect, DemandCorrect, <1>1, PTL DEF Spec, CommandsAreDemanded

-----------------------------------------------------------------------------
(***************************************************************************)
(* The host of the appliance waits.  What a sweep still owes to another    *)
(* host, a second attempt, is on the list of the failed; and once an own   *)
(* host is on a list, no list holds another one.                           *)
(***************************************************************************)

OrderInv ==
  (failed_earlier \cup stage) \cap OwnHosts # {} =>
    due \cup failed_earlier \cup stage \subseteq OwnHosts

\* The commands of this sweep, as the records tell them.
TriesInv ==
  /\ pc \in {"rearm", "select"} => \A h \in Hosts : tries[h] = 0
  /\ \A h \in inflight \cup raised : tries[h] >= 1
  /\ \A h \in stage \cup failed_earlier : RetryDue(h) => tries[h] >= 1
  /\ pc = "retry" =>
       /\ \A h \in inflight \cup raised : tries[h] = 2
       /\ \A h \in stage : RetryDue(h) => tries[h] = 2
  /\ pc \in {"sweep", "fire", "retry"} =>
       \A h \in Hosts \ OwnHosts :
         RetryDue(h) /\ tries[h] = 1 => h \in failed_earlier \cup stage

LEMMA OrderTriesInit == Init => OrderInv /\ TriesInv
  BY DEF Init, OrderInv, TriesInv, RetryDue

\* An own host in the foremost stage has only own hosts behind it.
LEMMA OwnForemost ==
  Foremost(due) \cap OwnHosts # {} => due \subseteq OwnHosts
  BY DEF Foremost, NotLater

LEMMA OrderNext == IInv /\ OrderInv /\ [Next]_vars => OrderInv'
<1> SUFFICES ASSUME IInv, OrderInv, [Next]_vars
             PROVE  OrderInv'
  OBVIOUS
<1>1. CASE StartStage
  <2>1. stage = {} /\ Foremost(due) \subseteq due /\ LastChance \subseteq failed_earlier
    BY <1>1, ForemostWithin DEF StartStage, IInv, ControlInv, LastChance
  <2>2. failed_earlier' \subseteq failed_earlier /\ due' \subseteq due
    BY <1>1 DEF StartStage
  <2>3. \/ stage' = LastChance /\ failed_earlier' = {}
        \/ stage' = Foremost(due)
    BY <1>1 DEF StartStage, StartFiring, LastChance
  <2>4. CASE failed_earlier \cap OwnHosts # {}
    BY <2>1, <2>2, <2>3, <2>4 DEF OrderInv
  <2>5. CASE failed_earlier \cap OwnHosts = {} /\ Foremost(due) \cap OwnHosts # {}
    <3>1. due \subseteq OwnHosts /\ failed_earlier' = {}
      BY <1>1, <2>1, <2>5, OwnForemost DEF StartStage
    <3>2. QED BY <2>1, <2>2, <2>3, <2>5, <3>1 DEF OrderInv
  <2>6. CASE failed_earlier \cap OwnHosts = {} /\ Foremost(due) \cap OwnHosts = {}
    BY <2>1, <2>2, <2>3, <2>6 DEF OrderInv
  <2>7. QED BY <2>4, <2>5, <2>6
<1>2. ASSUME NEW h \in Hosts, Consider(h)
      PROVE  OrderInv'
  <2>1. stage' = {} /\ failed_earlier' = {}
    BY <1>2, ForemostWithin DEF Consider, IInv, ControlInv
  <2>2. QED BY <2>1 DEF OrderInv
<1>3. ASSUME due' \subseteq due,
             failed_earlier' \cup stage' \subseteq failed_earlier \cup stage
      PROVE  OrderInv'
  BY <1>3 DEF OrderInv
<1>4. CASE EndStage
  BY <1>3, <1>4 DEF EndStage, IInv, ControlInv
<1>5. CASE \/ Tick \/ Poll \/ Rearm \/ Select \/ Reset \/ UNCHANGED vars
           \/ \E h \in Hosts, outcome \in Outcomes : Answer(h, outcome)
           \/ \E c \in Configs : SaveConfig(c)
  BY <1>3, <1>5
     DEF Tick, Poll, Rearm, Select, Reset, Answer, SaveConfig, vars, sweep
<1>6. CASE EndSweep \/ Restart
  BY <1>3, <1>6 DEF EndSweep, Restart
<1>7. QED BY <1>1, <1>2, <1>4, <1>5, <1>6 DEF Next, Loop

\* A step that owes nobody a new attempt.
LEMMA TriesKept ==
  ASSUME TriesInv, UNCHANGED <<tries, inflight, raised, stage, failed_earlier>>,
         pc' = pc,
         \A h \in Hosts : RetryDue(h)' => RetryDue(h),
         stage \cup failed_earlier \subseteq Hosts
  PROVE  TriesInv'
  BY DEF TriesInv

\* Releasing or reconciling the bookkeeping owes nobody an attempt.
LEMMA ReleaseOwesNothing ==
  ASSUME TypeOK,
         ReleaseLatches \/ (\E hosts \in SUBSET Hosts : SyncHostStates(hosts))
  PROVE  \A h \in Hosts : RetryDue(h)' => RetryDue(h)
<1>1. CASE ReleaseLatches
  BY <1>1 DEF ReleaseLatches, RetryDue
<1>2. ASSUME NEW hosts, SyncHostStates(hosts), NEW h \in Hosts, RetryDue(h)'
      PROVE  RetryDue(h)
  <2>1. shutdown_state'[h] = "failed" /\ h \notin host_fired'
    BY <1>2 DEF RetryDue
  <2>2. h \in hosts /\ shutdown_state[h] = "failed" /\ h \notin host_fired
    BY <1>2, <2>1 DEF SyncHostStates
  <2>3. shutdown_attempts'[h] = shutdown_attempts[h]
    BY <1>2, <2>2 DEF SyncHostStates
  <2>4. QED BY <1>2, <2>2, <2>3 DEF RetryDue
<1>3. QED BY <1>1, <1>2

LEMMA TriesStartStage ==
  ASSUME IInv, TriesInv, StartStage
  PROVE  TriesInv'
<1>1. /\ pc = "sweep" /\ stage = {} /\ inflight = {} /\ raised = {} /\ raised' = {}
      /\ UNCHANGED <<shutdown_state, shutdown_attempts>>
      /\ Foremost(due) \subseteq due /\ due \subseteq Hosts
      /\ failed_earlier \subseteq Hosts
      /\ tries \in [Hosts -> 0 .. 2]
  BY ForemostWithin DEF StartStage, IInv, ControlInv, TypeOK
<1>2. PICK hosts \in SUBSET Hosts :
        /\ StartFiring(hosts) /\ inflight' \subseteq hosts
        /\ \/ hosts = LastChance /\ pc' = "retry" /\ failed_earlier' = {}
           \/ hosts = Foremost(due) /\ pc' = "fire" /\ LastChance = {}
  BY <1>1 DEF StartStage, StartFiring, LastChance
<1>3. stage' = hosts /\ host_fired \subseteq host_fired'
  BY <1>2 DEF StartFiring
<1>4. \A h \in Hosts : RetryDue(h)' => RetryDue(h)
  BY <1>1, <1>3 DEF RetryDue
<1>5. \/ inflight' = {} /\ tries' = tries /\ hosts \subseteq host_fired'
      \/ /\ inflight' = hosts
         /\ \A h \in hosts : tries'[h] = IF tries[h] < 2 THEN tries[h] + 1 ELSE tries[h]
         /\ \A h \in Hosts \ hosts : tries'[h] = tries[h]
  BY <1>1, <1>2 DEF StartFiring
<1>6. \A h \in hosts : RetryDue(h)' => h \in inflight'
  BY <1>5 DEF RetryDue
<1>7. \A h \in inflight' : tries'[h] >= 1
  BY <1>1, <1>2, <1>5
<1>8. ASSUME pc' = "retry"
      PROVE  \A h \in inflight' : tries'[h] = 2
  <2>1. \A h \in hosts : RetryDue(h) /\ h \in failed_earlier
    BY <1>2, <1>8 DEF LastChance
  <2>2. \A h \in hosts : tries[h] >= 1 /\ tries[h] \in 0 .. 2
    BY <1>1, <1>2, <2>1 DEF TriesInv
  <2>3. QED BY <1>2, <1>5, <2>2
<1>9. \A h \in failed_earlier' : RetryDue(h)' => tries'[h] >= 1
  <2>1. failed_earlier' \subseteq failed_earlier
    BY DEF StartStage
  <2>2. \A h \in failed_earlier : RetryDue(h)' => tries[h] >= 1
    BY <1>1, <1>4 DEF TriesInv
  <2>3. \A h \in Hosts : tries[h] \in 0 .. 2 /\ (tries[h] >= 1 => tries'[h] >= 1)
    BY <1>1, <1>5
  <2>4. QED BY <1>1, <2>1, <2>2, <2>3
<1>10. ASSUME NEW h \in Hosts \ OwnHosts, RetryDue(h)', tries'[h] = 1,
              h \notin stage'
       PROVE  h \in failed_earlier'
  <2>1. tries[h] = 1 /\ RetryDue(h)
    BY <1>3, <1>4, <1>5, <1>10
  <2>2. h \in failed_earlier
    BY <1>1, <2>1 DEF TriesInv
  <2>3. Foremost(due) \subseteq OwnHosts => h \in LastChance
    BY <2>1, <2>2 DEF LastChance
  <2>4. h \notin LastChance
    BY <1>2, <1>3, <1>10
  <2>5. QED BY <2>2, <2>3, <2>4 DEF StartStage
<1>11. QED
  BY <1>1, <1>2, <1>3, <1>6, <1>7, <1>8, <1>9, <1>10 DEF TriesInv

LEMMA TriesAnswer ==
  ASSUME IInv, TriesInv, NEW h \in Hosts, NEW outcome \in Outcomes, Answer(h, outcome)
  PROVE  TriesInv'
<1>1. /\ h \in inflight /\ h \in stage /\ inflight' \subseteq inflight
      /\ raised' \subseteq raised \cup {h} /\ inflight \subseteq Hosts
      /\ UNCHANGED <<pc, stage, failed_earlier, tries>>
  BY DEF Answer, IInv, ControlInv, TypeOK
<1>2. tries[h] >= 1 /\ (pc = "retry" => tries[h] = 2)
  BY <1>1 DEF TriesInv
<1>3. ASSUME NEW g \in Hosts, g # h
      PROVE  RetryDue(g)' = RetryDue(g)
  BY <1>3 DEF Answer, RetryDue, IInv, TypeOK
<1>4. stage \subseteq Hosts /\ failed_earlier \subseteq Hosts
  BY DEF IInv, TypeOK
<1>5. QED BY <1>1, <1>2, <1>3, <1>4 DEF TriesInv

LEMMA TriesEndStage ==
  ASSUME IInv, TriesInv, EndStage
  PROVE  TriesInv'
<1>1. /\ inflight = {} /\ inflight' = {} /\ raised' = {} /\ stage' = {}
      /\ pc' = "sweep" /\ tries' = tries /\ pc \in {"fire", "retry"}
      /\ raised \subseteq stage /\ stage \subseteq Hosts /\ failed_earlier \subseteq Hosts
      /\ host_fired' = host_fired \ raised
  BY DEF EndStage, IInv, ControlInv, TypeOK, history
<1>2. ASSUME NEW h \in Hosts \ raised, RetryDue(h)'
      PROVE  RetryDue(h)
  <2>1. shutdown_state'[h] = shutdown_state[h]
    BY <1>2 DEF EndStage
  <2>2. shutdown_attempts'[h] = shutdown_attempts[h]
    BY <1>2 DEF EndStage
  <2>3. QED BY <1>1, <1>2, <2>1, <2>2 DEF RetryDue
<1>3. ASSUME NEW h \in failed_earlier', RetryDue(h)'
      PROVE  tries'[h] >= 1
  <2>1. h \in failed_earlier \cup stage
    BY <1>1, <1>3 DEF EndStage
  <2>2. CASE h \in raised
    BY <1>1, <2>2 DEF TriesInv
  <2>3. CASE h \notin raised
    BY <1>1, <1>2, <1>3, <2>1, <2>3 DEF TriesInv
  <2>4. QED BY <2>2, <2>3
<1>4. ASSUME NEW h \in Hosts \ OwnHosts, RetryDue(h)', tries'[h] = 1
      PROVE  h \in failed_earlier'
  <2>1. CASE h \in raised
    <3>1. pc # "retry"
      BY <1>1, <1>4, <2>1 DEF TriesInv
    <3>2. QED BY <1>4, <2>1, <3>1 DEF EndStage
  <2>2. CASE h \notin raised
    <3>1. RetryDue(h) /\ tries[h] = 1
      BY <1>1, <1>2, <1>4, <2>2
    <3>2. h \in failed_earlier \cup stage
      BY <1>1, <3>1 DEF TriesInv
    <3>3. pc = "retry" => h \notin stage
      BY <1>1, <3>1 DEF TriesInv
    <3>4. h \notin host_fired
      BY <3>1 DEF RetryDue
    <3>5. QED BY <1>1, <2>2, <3>2, <3>3, <3>4 DEF EndStage
  <2>3. QED BY <2>1, <2>2
<1>5. QED BY <1>1, <1>3, <1>4 DEF TriesInv

LEMMA TriesNext == IInv /\ TriesInv /\ [Next]_vars => TriesInv'
<1> SUFFICES ASSUME IInv, TriesInv, [Next]_vars
             PROVE  TriesInv'
  OBVIOUS
<1>1. stage \cup failed_earlier \subseteq Hosts
  BY DEF IInv, TypeOK
<1>2. CASE Tick \/ UNCHANGED vars
  BY <1>1, <1>2, TriesKept DEF Tick, vars, latches, sweep, history, RetryDue
<1>3. CASE Poll
  <2>1. /\ stage' = {} /\ inflight' = {} /\ raised' = {} /\ failed_earlier' = {}
        /\ pc' = "rearm" /\ \A h \in Hosts : tries'[h] = 0
    BY <1>3 DEF Poll, sweep, IInv, ControlInv
  <2>2. QED BY <2>1 DEF TriesInv
<1>4. CASE Rearm \/ Select
  <2>1. /\ stage' = {} /\ inflight' = {} /\ raised' = {} /\ failed_earlier' = {}
        /\ tries' = tries /\ pc' # "retry" /\ pc \in {"rearm", "select"}
    BY <1>4 DEF Rearm, Select, sweep, history, IInv, ControlInv
  <2>2. \A h \in Hosts : tries'[h] = 0
    BY <2>1 DEF TriesInv
  <2>3. QED BY <2>1, <2>2 DEF TriesInv
<1>5. ASSUME NEW h \in Hosts, Consider(h)
      PROVE  TriesInv'
  <2>1. UNCHANGED <<tries, inflight, raised, stage, failed_earlier, pc>>
    BY <1>5 DEF Consider, history
  <2>2. \A g \in Hosts : RetryDue(g)' => RetryDue(g)
    BY <1>5 DEF Consider, RetryDue, Releasable, latches, IInv, TypeOK
  <2>3. QED BY <1>1, <2>1, <2>2, TriesKept
<1>6. CASE StartStage
  BY <1>6, TriesStartStage
<1>7. CASE \E h \in Hosts, outcome \in Outcomes : Answer(h, outcome)
  BY <1>7, TriesAnswer
<1>8. CASE EndStage
  BY <1>8, TriesEndStage
<1>9. CASE EndSweep
  <2>1. /\ stage' = {} /\ inflight' = {} /\ raised' = {} /\ failed_earlier' = {}
        /\ pc' = "wait"
    BY <1>9 DEF EndSweep, IInv, ControlInv
  <2>2. QED BY <2>1 DEF TriesInv
<1>10. CASE Reset
  BY <1>1, <1>10, TriesKept, ReleaseOwesNothing DEF Reset, sweep, IInv
<1>11. ASSUME NEW c \in Configs, SaveConfig(c)
       PROVE  TriesInv'
  <2>1. c.hosts \in SUBSET Hosts
    BY HostAssumption
  <2>2. \A h \in Hosts : RetryDue(h)' => RetryDue(h)
    BY <1>11, <2>1, ReleaseOwesNothing DEF SaveConfig, IInv
  <2>3. QED BY <1>1, <1>11, <2>2, TriesKept DEF SaveConfig, sweep
<1>12. CASE Restart
  BY <1>12 DEF Restart, TriesInv
<1>13. QED
  BY <1>2, <1>3, <1>4, <1>5, <1>6, <1>7, <1>8, <1>9, <1>10, <1>11, <1>12
     DEF Next, Loop

\* What a sweep owes is on its lists, and its own host comes after the others.
THEOREM OrderCorrect == Spec => [](OrderInv /\ TriesInv)
  BY OrderTriesInit, OrderNext, TriesNext, IInvCorrect, PTL DEF Spec

\* Whoever is commanded with an own host, no other host still owes an attempt.
LEMMA CommandedOwnLast ==
  ASSUME IInv, OrderInv, TriesInv, [Next]_vars, Commanded \cap OwnHosts # {}
  PROVE  /\ due' \subseteq OwnHosts
         /\ \A h \in Hosts \ OwnHosts : RetryDue(h) => tries[h] # 1
<1>1. StartStage /\ Commanded \subseteq stage'
  BY CommandedInStage
<1>2. due' \cup stage' \subseteq OwnHosts
  BY <1>1, OrderNext DEF OrderInv
<1>3. pc = "sweep" /\ stage = {}
  BY <1>1 DEF StartStage, IInv, ControlInv
<1>4. ASSUME NEW h \in Hosts \ OwnHosts, RetryDue(h), tries[h] = 1
      PROVE  FALSE
  <2>1. h \in failed_earlier
    BY <1>3, <1>4 DEF TriesInv
  <2>2. CASE LastChance # {}
    <3>1. stage' = LastChance /\ Foremost(due) \subseteq OwnHosts
      BY <1>1, <2>2 DEF StartStage, StartFiring, LastChance
    <3>2. h \in LastChance
      BY <1>4, <2>1, <3>1 DEF LastChance
    <3>3. QED BY <1>2, <1>4, <3>1, <3>2
  <2>3. CASE LastChance = {}
    <3>1. stage' = Foremost(due)
      BY <1>1, <2>3 DEF StartStage, StartFiring
    <3>2. h \in LastChance
      BY <1>2, <1>4, <2>1, <3>1 DEF LastChance
    <3>3. QED BY <2>3, <3>2
  <2>4. QED BY <2>2, <2>3
<1>5. QED BY <1>2, <1>4

\* The host of the appliance is commanded only when every other host of the sweep
\* was, and none that failed is still owed its second attempt: for every order and
\* number of stages, and whatever is reset, saved or answered in between.
THEOREM OwnHostWaitsCorrect == Spec => OwnHostWaits
<1>1. IInv /\ OrderInv /\ TriesInv /\ [Next]_vars =>
        [Commanded \cap OwnHosts # {} =>
           /\ due' \subseteq OwnHosts
           /\ \A h \in Hosts \ OwnHosts : RetryDue(h) => tries[h] # 1]_vars
  BY CommandedOwnLast
<1>2. QED BY IInvCorrect, OrderCorrect, <1>1, PTL DEF Spec, OwnHostWaits
=============================================================================
