-------------------------- MODULE UpsMonitorProofs --------------------------
(***************************************************************************)
(* Theorems about UpsMonitor, for every set of UPS, every set of profiles  *)
(* and answers, and every bound.                                           *)
(***************************************************************************)
EXTENDS UpsMonitor, UpsReading, TLAPS

-----------------------------------------------------------------------------
(***************************************************************************)
(* The functions of UpsTrigger stay within their types.                    *)
(***************************************************************************)

\* A timestamp that grows older is still a timestamp, runs exactly if it ran
\* before, and never gets younger.
LEMMA OlderTimer ==
  ASSUME NEW t \in Timer
  PROVE  /\ Older(t) \in Timer
         /\ Older(t) = None <=> t = None
         /\ t <= Older(t)
  BY BoundsAssumption DEF Older, Timer, None

\* The same for an age that always runs.
LEMMA OlderAge ==
  ASSUME NEW t \in 0 .. MaxAge
  PROVE  Older(t) \in 0 .. MaxAge
  BY BoundsAssumption DEF Older, None

\* Aging preserves the order of two timestamps of which the first runs.
LEMMA OlderMonotone ==
  ASSUME NEW s \in Timer, NEW t \in 0 .. MaxAge, s <= t
  PROVE  Older(s) <= Older(t)
  BY BoundsAssumption DEF Older, Timer, None

\* The runtime record of an entry nobody polled yet has its type.
LEMMA FreshRuntimeType == FreshRuntime \in UpsRuntime
  BY BoundsAssumption
     DEF FreshRuntime, UpsRuntime, Silence, UpsState, Timer, Reading, None, Reason

\* A trigger reason is one of the four kinds.
LEMMA TriggerReasonType ==
  ASSUME NEW c, NEW st, NEW held, NEW gone, NEW since
  PROVE  UpsTriggerReason(c, st, held, gone, since) \in Reason
  BY DEF UpsTriggerReason, Reason

\* _evaluate_ups turns a runtime record into a runtime record.
LEMMA EvaluateUpsType ==
  ASSUME NEW c \in Thresholds, NEW r \in UpsRuntime
  PROVE  EvaluateUps(c, r) \in UpsRuntime
<1>1. EvaluateUnreachable(c, r) \in UpsRuntime
  BY TriggerReasonType, BoundsAssumption
     DEF EvaluateUnreachable, BlindReason, UpsRuntime, Timer, None
<1>2. ASSUME NEW since \in Timer, NEW reason \in Reason
      PROVE  Answered(r.state, since, reason) \in UpsRuntime
  BY <1>2, BoundsAssumption DEF Answered, UpsRuntime, Timer, None
<1>3. EvaluateMains(r) \in UpsRuntime
  BY <1>2 DEF EvaluateMains, Timer, Reason
<1>4. EvaluateBattery(c, r) \in UpsRuntime
  <2>1. (IF r.on_battery_since = None THEN 0 ELSE r.on_battery_since) \in Timer
    BY BoundsAssumption DEF UpsRuntime, Timer
  <2>2. QED BY <1>2, <2>1, TriggerReasonType DEF EvaluateBattery
<1>5. QED BY <1>1, <1>3, <1>4 DEF EvaluateUps

\* The other functions on runtime records keep the type too.
LEMMA RuntimeTypes ==
  ASSUME NEW r \in UpsRuntime, NEW st \in UpsState, NEW t \in Timer, NEW m
  PROVE  /\ Polled(r, st) \in UpsRuntime
         /\ ResetUps(r) \in UpsRuntime
         /\ OlderRuntime(r) \in UpsRuntime
         /\ RestoreUps(t, m) \in UpsRuntime
<1>1. Polled(r, st) \in UpsRuntime
  BY DEF Polled, UpsRuntime
<1>2. ResetUps(r) \in UpsRuntime
  BY DEF ResetUps, UpsRuntime, Reason
<1>3. OlderRuntime(r) \in UpsRuntime
  BY OlderTimer DEF OlderRuntime, UpsRuntime
<1>4. RestoreUps(t, m) \in UpsRuntime
  <2>1. Silence \in UpsState
    BY DEF Silence, UpsState, Reading
  <2>2. None \in Timer /\ 0 \in 0 .. MaxPolls
    BY BoundsAssumption DEF Timer
  <2>3. QED BY <2>1, <2>2 DEF RestoreUps, UpsRuntime, Reason
<1>5. QED BY <1>1, <1>2, <1>3, <1>4

-----------------------------------------------------------------------------
(***************************************************************************)
(* Type correctness.                                                       *)
(***************************************************************************)

\* What the typed runtime records say about the timers derived from them.
LEMMA TimersType ==
  ASSUME ups_rt \in [Ups -> UpsRuntime]
  PROVE  Timers \in [Ups -> Timer]
  BY DEF Timers, UpsRuntime

\* The answers of one poll are answers of devices.
LEMMA SilenceType == Silence \in UpsState
  BY DEF Silence, UpsState, Reading

LEMMA TypeInit == Init => TypeOK
  BY FreshRuntimeType, BoundsAssumption DEF Init, TypeOK, Timer

LEMMA TypeTick == TypeOK /\ Tick => TypeOK'
<1> SUFFICES ASSUME TypeOK, Tick
             PROVE  TypeOK'
  OBVIOUS
<1>1. ups_rt' \in [Ups -> UpsRuntime]
  BY RuntimeTypes, SilenceType DEF TypeOK, Tick, Timer
<1>2. file' \in [Ups -> Timer]
  BY OlderTimer DEF TypeOK, Tick
<1>3. persisted' \in [Ups -> Timer] \cup {Unwritten}
  BY OlderTimer DEF TypeOK, Tick
<1>4. unheard' \in [Ups -> 0 .. MaxAge] /\ quiet' \in [Ups -> 0 .. MaxAge]
  BY OlderAge DEF TypeOK, Tick
<1>5. QED BY <1>1, <1>2, <1>3, <1>4 DEF TypeOK, Tick, Unwritten

LEMMA TypePoll == TypeOK /\ Poll => TypeOK'
<1> SUFFICES ASSUME TypeOK, Poll
             PROVE  TypeOK'
  OBVIOUS
<1>1. PICK answer \in [configured -> Readings] :
        /\ ups_rt' = [u \in Ups |->
             IF u \in configured THEN Polled(ups_rt[u], answer[u]) ELSE ups_rt[u]]
        /\ unheard' = [u \in Ups |->
             IF u \in configured /\ answer[u].reachable THEN 0 ELSE unheard[u]]
        /\ quiet' = [u \in Ups |->
             IF u \in configured /\ answer[u].answered THEN 0 ELSE quiet[u]]
  BY DEF Poll
<1>2. ASSUME NEW u \in configured
      PROVE  Polled(ups_rt[u], answer[u]) \in UpsRuntime
  <2>1. ups_rt[u] \in UpsRuntime /\ answer[u] \in UpsState
    BY MonitorAssumption DEF TypeOK
  <2>2. None \in Timer
    BY DEF Timer
  <2>3. QED BY <2>1, <2>2, RuntimeTypes
<1>3. ups_rt' \in [Ups -> UpsRuntime]
  BY <1>1, <1>2 DEF TypeOK
<1>4. unheard' \in [Ups -> 0 .. MaxAge] /\ quiet' \in [Ups -> 0 .. MaxAge]
  BY <1>1, BoundsAssumption DEF TypeOK
<1>5. QED BY <1>3, <1>4 DEF TypeOK, Poll, disk, Unwritten

LEMMA TypeEvaluate ==
  ASSUME NEW u \in Ups, TypeOK, Evaluate(u)
  PROVE  TypeOK'
<1>1. EvaluateUps(cfg[u], ups_rt[u]) \in UpsRuntime
  BY EvaluateUpsType, MonitorAssumption DEF TypeOK
<1>2. ups_rt' \in [Ups -> UpsRuntime]
  BY <1>1 DEF TypeOK, Evaluate
<1>3. heard' \in [Ups -> {"nothing", "mains", "battery"}]
  <2>1. CASE u \in configured
    <3>1. heard' = [heard EXCEPT ![u] =
                      IF ~ups_rt[u].state.reachable THEN @
                      ELSE IF ups_rt[u].state.on_battery THEN "battery"
                      ELSE "mains"]
      BY <2>1 DEF Evaluate
    <3>2. QED BY <3>1 DEF TypeOK
  <2>2. CASE u \notin configured
    BY <2>2 DEF TypeOK, Evaluate
  <2>3. QED BY <2>1, <2>2
<1>4. QED BY <1>2, <1>3 DEF TypeOK, Evaluate, disk, Unwritten

LEMMA TypePersist == TypeOK /\ Persist => TypeOK'
  BY TimersType DEF TypeOK, Persist, WriteFile, disk, history, Unwritten

LEMMA TypeReset == TypeOK /\ Reset => TypeOK'
<1> SUFFICES ASSUME TypeOK, Reset
             PROVE  TypeOK'
  OBVIOUS
<1>1. ups_rt' \in [Ups -> UpsRuntime]
  BY RuntimeTypes, SilenceType DEF TypeOK, Reset, Timer
<1>2. QED BY <1>1 DEF TypeOK, Reset, disk, history, Unwritten

LEMMA TypeUpdateConfig ==
  ASSUME TypeOK, NEW ids \in SUBSET Ups, NEW settings \in [Ups -> Profiles],
         UpdateConfig(ids, settings)
  PROVE  TypeOK'
  BY FreshRuntimeType, BoundsAssumption
     DEF TypeOK, UpdateConfig, disk, Unwritten

LEMMA TypeCrash == TypeOK /\ Crash => TypeOK'
  BY FreshRuntimeType DEF TypeOK, Crash, Unwritten

LEMMA TypeStart == TypeOK /\ Start => TypeOK'
<1> SUFFICES ASSUME TypeOK, Start
             PROVE  TypeOK'
  OBVIOUS
<1>1. ASSUME NEW u \in Ups
      PROVE  RestoreUps(file[u], RestoreMax) \in UpsRuntime
  BY RuntimeTypes, FreshRuntimeType, SilenceType DEF TypeOK
<1>2. ups_rt' \in [Ups -> UpsRuntime]
  BY <1>1, FreshRuntimeType DEF Start
<1>3. QED BY <1>2, BoundsAssumption DEF TypeOK, Start, disk, Unwritten

LEMMA TypeNext == TypeOK /\ [Next]_vars => TypeOK'
<1> SUFFICES ASSUME TypeOK, [Next]_vars
             PROVE  TypeOK'
  OBVIOUS
<1>1. CASE UNCHANGED vars
  BY <1>1 DEF TypeOK, vars, Unwritten
<1>2. CASE Next
  BY <1>2, TypeTick, TypePoll, TypeEvaluate, TypePersist, TypeReset,
     TypeUpdateConfig, TypeCrash, TypeStart
     DEF Next
<1>3. QED BY <1>1, <1>2

\* Every variable keeps its type, for every number of UPS and every bound.
THEOREM TypeCorrect == Spec => []TypeOK
  BY TypeInit, TypeNext, PTL DEF Spec

-----------------------------------------------------------------------------
(***************************************************************************)
(* The fail-safe rule.  FailSafe alone is not inductive: a device that is  *)
(* silent triggers on the timer that is running, so one has to know where  *)
(* a timer that is not held came from.                                     *)
(***************************************************************************)

\* What TimersAreHeldOrHeard and FailSafe say of one UPS.
Justified(r, h) ==
  /\ r.on_battery_since # None => r.restored_unconfirmed \/ h = "battery"
  /\ Triggered(r) => h = "battery" \/ r.trigger_reason = "comm"

IInv == TypeOK /\ \A u \in Ups : Justified(ups_rt[u], heard[u])

LEMMA FreshJustified == \A h : Justified(FreshRuntime, h)
  BY DEF Justified, FreshRuntime, Triggered

\* A silent device is judged by the timer alone, and not by one that is held.
LEMMA UnreachableJustified ==
  ASSUME NEW c, NEW r, NEW h, Justified(r, h), ~r.state.reachable
  PROVE  Justified(EvaluateUnreachable(c, r), h)
<1>1. ASSUME NEW gone,
             UpsTriggerReason(c, r.state, r.restored_unconfirmed, gone,
                              r.on_battery_since) \notin {"none", "comm"}
      PROVE  ~r.restored_unconfirmed /\ r.on_battery_since # None
  BY <1>1 DEF UpsTriggerReason, BlindCountdown, FreshReading, Reached
<1>2. QED
  BY <1>1 DEF Justified, EvaluateUnreachable, BlindReason, Triggered

\* A usable answer is what this process has heard.
LEMMA AnsweredJustified ==
  ASSUME NEW c, NEW r
  PROVE  /\ \A h : Justified(EvaluateMains(r), h)
         /\ Justified(EvaluateBattery(c, r), "battery")
  BY DEF Justified, EvaluateMains, EvaluateBattery, Answered, Triggered

LEMMA JustifiedStep == IInv /\ Next => (\A u \in Ups : Justified(ups_rt[u], heard[u]))'
<1> SUFFICES ASSUME IInv, Next, NEW v \in Ups
             PROVE  Justified(ups_rt'[v], heard'[v])
  OBVIOUS
<1>1. ups_rt[v] \in UpsRuntime /\ Justified(ups_rt[v], heard[v])
  BY DEF IInv, TypeOK
<1>2. CASE Tick
  <2>1. ups_rt'[v] = OlderRuntime(ups_rt[v]) /\ heard'[v] = heard[v]
    BY <1>2 DEF Tick
  <2>2. Older(ups_rt[v].on_battery_since) = None
          <=> ups_rt[v].on_battery_since = None
    BY <1>1, OlderTimer DEF UpsRuntime
  <2>3. QED BY <1>1, <2>1, <2>2 DEF Justified, OlderRuntime, Triggered
<1>3. CASE Poll
  <2>1. PICK answer \in [configured -> Readings] :
          ups_rt' = [u \in Ups |->
            IF u \in configured THEN Polled(ups_rt[u], answer[u]) ELSE ups_rt[u]]
    BY <1>3 DEF Poll
  <2>2. \A st : Justified(Polled(ups_rt[v], st), heard[v])
    BY <1>1 DEF Justified, Polled, Triggered, UpsRuntime
  <2>3. QED BY <1>1, <1>3, <2>1, <2>2 DEF Poll
<1>4. ASSUME NEW u \in Ups, Evaluate(u)
      PROVE  Justified(ups_rt'[v], heard'[v])
  <2>1. CASE u = v /\ u \in configured
    <3>1. ups_rt'[v] = EvaluateUps(cfg[v], ups_rt[v])
      BY <1>4, <2>1 DEF Evaluate, IInv, TypeOK
    <3>2. heard'[v] = IF ~ups_rt[v].state.reachable THEN heard[v]
                      ELSE IF ups_rt[v].state.on_battery THEN "battery"
                      ELSE "mains"
      BY <1>4, <2>1 DEF Evaluate, IInv, TypeOK
    <3>3. QED
      BY <1>1, <3>1, <3>2, UnreachableJustified, AnsweredJustified DEF EvaluateUps
  <2>2. CASE ~(u = v /\ u \in configured)
    BY <1>1, <1>4, <2>2 DEF Evaluate, IInv, TypeOK
  <2>3. QED BY <2>1, <2>2
<1>5. CASE Persist
  BY <1>1, <1>5 DEF Persist, history
<1>6. CASE Reset
  <2>1. ups_rt'[v] = ResetUps(ups_rt[v]) /\ heard'[v] = heard[v]
    BY <1>6 DEF Reset, history
  <2>2. QED BY <1>1, <2>1 DEF Justified, ResetUps, Triggered
<1>7. ASSUME NEW ids \in SUBSET Ups, NEW settings \in [Ups -> Profiles],
             UpdateConfig(ids, settings)
      PROVE  Justified(ups_rt'[v], heard'[v])
  BY <1>1, <1>7, FreshJustified DEF UpdateConfig
<1>8. CASE Crash
  BY <1>8, FreshJustified DEF Crash
<1>9. CASE Start
  <2>1. Justified(RestoreUps(file[v], RestoreMax), heard[v])
    BY DEF Justified, RestoreUps, Triggered
  <2>2. QED BY <1>9, <2>1, FreshJustified DEF Start
<1>10. QED
  BY <1>2, <1>3, <1>4, <1>5, <1>6, <1>7, <1>8, <1>9 DEF Next

LEMMA JustifiedInit == Init => IInv
  BY TypeInit, FreshJustified DEF Init, IInv

LEMMA JustifiedNext == IInv /\ [Next]_vars => IInv'
<1>1. TypeOK /\ [Next]_vars => TypeOK'
  BY TypeNext
<1>2. IInv /\ UNCHANGED vars => (\A u \in Ups : Justified(ups_rt[u], heard[u]))'
  BY DEF IInv, vars
<1>3. QED BY <1>1, <1>2, JustifiedStep DEF IInv

THEOREM IInvCorrect == Spec => []IInv
  BY JustifiedInit, JustifiedNext, PTL DEF Spec

\* Every timer in memory is held or was heard.
THEOREM TimersCorrect == Spec => []TimersAreHeldOrHeard
<1>1. IInv => TimersAreHeldOrHeard
  BY DEF IInv, Justified, TimersAreHeldOrHeard
<1>2. QED BY IInvCorrect, <1>1, PTL

\* README "Safety model": no UPS demands a shutdown on silence or on the state
\* file, however many UPS, settings, restarts and resets there are.
THEOREM FailSafeCorrect == Spec => []FailSafe
<1>1. IInv => FailSafe
  BY DEF IInv, Justified, FailSafe
<1>2. QED BY IInvCorrect, <1>1, PTL

-----------------------------------------------------------------------------
(***************************************************************************)
(* The refinement.  Ticks, polls and writes are stutters of the promise;   *)
(* an evaluation is what the device said, or a demand made blind, which is *)
(* where the invariant is needed.                                          *)
(***************************************************************************)

\* The refinement mapping, at one UPS.
Demand == [u \in Ups |-> Triggered(ups_rt[u])]
OptedIn == {u \in Ups : \E c \in Profiles : c.comm_loss_shutdown_after_min # None}

LEMMA PromiseInit == Init => Promise!Init
<1> SUFFICES ASSUME Init
             PROVE  Promise!Init
  OBVIOUS
<1>1. ASSUME NEW u \in Ups
      PROVE  Triggered(ups_rt[u]) = FALSE
  BY DEF Init, Triggered, FreshRuntime
<1>2. [u \in Ups |-> Triggered(ups_rt[u])] = [u \in Ups |-> FALSE]
  BY <1>1
<1>3. QED BY <1>2 DEF Init, Promise!Init

\* An unreachable UPS keeps its demand, and a new one has one of two reasons.
LEMMA DemandMadeBlind ==
  ASSUME NEW c \in Thresholds, NEW r, NEW h, Justified(r, h), ~r.state.reachable,
         Triggered(EvaluateUnreachable(c, r)) # Triggered(r)
  PROVE  /\ Triggered(EvaluateUnreachable(c, r)) /\ ~Triggered(r)
         /\ h = "battery" \/ c.comm_loss_shutdown_after_min # None
<1>1. Triggered(EvaluateUnreachable(c, r)) /\ ~Triggered(r)
  BY DEF Triggered, EvaluateUnreachable, BlindReason
<1>2. Justified(EvaluateUnreachable(c, r), h)
  BY UnreachableJustified
<1>3. CASE EvaluateUnreachable(c, r).trigger_reason = "comm"
  BY <1>1, <1>3
     DEF EvaluateUnreachable, BlindReason, Triggered, UpsTriggerReason,
         PureCommLoss, Reached
<1>4. CASE EvaluateUnreachable(c, r).trigger_reason # "comm"
  BY <1>1, <1>2, <1>4 DEF Justified
<1>5. QED BY <1>1, <1>3, <1>4

\* One evaluation is a step or a stutter of the promise.
LEMMA PromiseEvaluate ==
  ASSUME IInv, NEW u \in Ups, Evaluate(u)
  PROVE  Promise!Next \/ (UNCHANGED heard /\ Demand' = Demand)
<1>1. ups_rt \in [Ups -> UpsRuntime] /\ heard \in [Ups -> {"nothing", "mains", "battery"}]
  BY DEF IInv, TypeOK
<1>2. CASE u \notin configured
  BY <1>2 DEF Evaluate, Demand
<1>3. CASE u \in configured
  <2>1. ups_rt' = [ups_rt EXCEPT ![u] = EvaluateUps(cfg[u], ups_rt[u])]
    BY <1>3 DEF Evaluate
  <2>2. Demand' = [Demand EXCEPT ![u] = Triggered(EvaluateUps(cfg[u], ups_rt[u]))]
    BY <1>1, <2>1 DEF Demand
  <2>3. heard' = [heard EXCEPT ![u] =
                    IF ~ups_rt[u].state.reachable THEN @
                    ELSE IF ups_rt[u].state.on_battery THEN "battery"
                    ELSE "mains"]
    BY <1>3 DEF Evaluate
  <2>4. CASE ups_rt[u].state.reachable /\ ~ups_rt[u].state.on_battery
    <3>1. heard' = [heard EXCEPT ![u] = "mains"]
      BY <2>3, <2>4
    <3>2. Demand' = [Demand EXCEPT ![u] = FALSE]
      BY <2>2, <2>4 DEF EvaluateUps, EvaluateMains, Answered, Triggered
    <3>3. Promise!HearMains(u)
      BY <3>1, <3>2 DEF Promise!HearMains, Demand
    <3>4. QED BY <3>3 DEF Promise!Next
  <2>5. CASE ups_rt[u].state.reachable /\ ups_rt[u].state.on_battery
    <3>1. heard' = [heard EXCEPT ![u] = "battery"]
      BY <2>3, <2>5
    <3>2. Triggered(EvaluateUps(cfg[u], ups_rt[u])) \in BOOLEAN
      BY DEF Triggered
    <3>3. Promise!HearBattery(u)
      BY <3>1, <3>2, <2>2 DEF Promise!HearBattery, Demand
    <3>4. QED BY <3>3 DEF Promise!Next
  <2>6. CASE ~ups_rt[u].state.reachable
    <3>1. EvaluateUps(cfg[u], ups_rt[u]) = EvaluateUnreachable(cfg[u], ups_rt[u])
      BY <2>6 DEF EvaluateUps
    <3>2. heard' = heard
      BY <1>1, <2>3, <2>6
    <3>3. CASE Triggered(EvaluateUnreachable(cfg[u], ups_rt[u])) = Triggered(ups_rt[u])
      <4>1. Demand' = [Demand EXCEPT ![u] = Demand[u]]
        BY <2>2, <3>1, <3>3 DEF Demand
      <4>2. QED BY <3>2, <4>1 DEF Demand
    <3>4. CASE Triggered(EvaluateUnreachable(cfg[u], ups_rt[u])) # Triggered(ups_rt[u])
      <4>1. cfg[u] \in Thresholds /\ cfg[u] \in Profiles
        BY MonitorAssumption DEF IInv, TypeOK
      <4>2. /\ Triggered(EvaluateUnreachable(cfg[u], ups_rt[u]))
            /\ \/ heard[u] = "battery"
               \/ cfg[u].comm_loss_shutdown_after_min # None
        BY <2>6, <3>4, <4>1, DemandMadeBlind DEF IInv
      <4>3. Demand' = [Demand EXCEPT ![u] = TRUE]
        BY <2>2, <3>1, <4>2 DEF Triggered
      <4>4. Promise!DemandBlind(u)
        BY <3>2, <4>1, <4>2, <4>3 DEF Promise!DemandBlind, Demand
      <4>5. QED BY <4>4 DEF Promise!Next
    <3>5. QED BY <3>3, <3>4
  <2>7. QED BY <2>4, <2>5, <2>6
<1>4. QED BY <1>2, <1>3

LEMMA PromiseStep ==
  IInv /\ [Next]_vars => Promise!Next \/ (UNCHANGED heard /\ Demand' = Demand)
<1> SUFFICES ASSUME IInv, [Next]_vars
             PROVE  Promise!Next \/ (UNCHANGED heard /\ Demand' = Demand)
  OBVIOUS
<1>1. ups_rt \in [Ups -> UpsRuntime]
  BY DEF IInv, TypeOK
<1>2. CASE Tick
  BY <1>2 DEF Tick, Demand, OlderRuntime, Triggered
<1>3. CASE Poll
  <2>1. PICK answer \in [configured -> Readings] :
          ups_rt' = [u \in Ups |->
            IF u \in configured THEN Polled(ups_rt[u], answer[u]) ELSE ups_rt[u]]
    BY <1>3 DEF Poll
  <2>2. \A u \in Ups : \A st : Triggered(Polled(ups_rt[u], st)) = Triggered(ups_rt[u])
    BY <1>1 DEF Triggered, Polled, UpsRuntime
  <2>3. QED BY <1>3, <2>1, <2>2 DEF Poll, Demand
<1>4. CASE \E u \in Ups : Evaluate(u)
  BY <1>4, PromiseEvaluate
<1>5. CASE Persist
  BY <1>5 DEF Persist, history, Demand
<1>6. CASE Reset
  <2>1. Promise!Withdraw
    BY <1>6 DEF Reset, ResetUps, Triggered, history, Promise!Withdraw
  <2>2. QED BY <2>1 DEF Promise!Next
<1>7. ASSUME NEW ids \in SUBSET Ups, NEW settings \in [Ups -> Profiles],
             UpdateConfig(ids, settings)
      PROVE  Promise!Next
  <2>1. Promise!Forget(Ups \ ids)
    BY <1>7 DEF UpdateConfig, FreshRuntime, Triggered, Promise!Forget
  <2>2. QED BY <2>1 DEF Promise!Next
<1>8. CASE Crash
  <2>1. Promise!Forget(Ups)
    BY <1>8 DEF Crash, FreshRuntime, Triggered, Promise!Forget
  <2>2. QED BY <2>1 DEF Promise!Next
<1>9. CASE Start
  <2>1. Promise!Withdraw
    BY <1>9 DEF Start, FreshRuntime, RestoreUps, Triggered, Promise!Withdraw
  <2>2. QED BY <2>1 DEF Promise!Next
<1>10. CASE UNCHANGED vars
  BY <1>10 DEF vars, Demand
<1>11. QED
  BY <1>2, <1>3, <1>4, <1>5, <1>6, <1>7, <1>8, <1>9, <1>10 DEF Next

\* The monitoring half keeps the promise the rest of the engine relies on.
THEOREM PromiseKept == Spec => KeepsPromise
<1>1. IInv /\ [Next]_vars => [Promise!Next]_<<heard, Demand>>
  BY PromiseStep
<1>2. QED
  BY PromiseInit, IInvCorrect, <1>1, PTL DEF Spec, KeepsPromise, Promise!Spec, Demand

-----------------------------------------------------------------------------
(***************************************************************************)
(* The opt-in.  unreachable_since measures the time without a usable       *)
(* answer, as long as every answer is evaluated before the next poll.      *)
(***************************************************************************)

\* Where the loop is between iterations, and what an entry nobody polls holds.
LoopInv ==
  /\ pc = "wait" => todo = {}
  /\ \A u \in Ups \ configured : ups_rt[u] = FreshRuntime

\* The unreachable timer of one UPS, pending when its evaluation is still due.
Measured(r, age, pending) ==
  /\ ~r.state.reachable /\ r.unreachable_since # None => r.unreachable_since <= age
  /\ r.state.reachable /\ ~pending => r.unreachable_since = None

SilenceInv ==
  /\ TypeOK
  /\ LoopInv
  /\ \A u \in Ups : Measured(ups_rt[u], unheard[u], u \in todo)

LEMMA SilenceInit == Init => SilenceInv
  BY TypeInit DEF Init, SilenceInv, LoopInv, Measured, FreshRuntime, Silence

LEMMA FreshIsAgeless == OlderRuntime(FreshRuntime) = FreshRuntime
  BY DEF OlderRuntime, FreshRuntime, Older

LEMMA LoopStep == SilenceInv /\ Next => LoopInv'
<1> SUFFICES ASSUME SilenceInv, Next
             PROVE  LoopInv'
  OBVIOUS
<1> USE DEF SilenceInv, LoopInv, TypeOK
<1>1. CASE Tick
  BY <1>1, FreshIsAgeless DEF Tick
<1>2. CASE Poll
  BY <1>2 DEF Poll
<1>3. CASE \E u \in Ups : Evaluate(u)
  <2>1. PICK u \in Ups : Evaluate(u)
    BY <1>3
  <2>2. pc' # "wait"
    BY <2>1 DEF Evaluate
  <2>3. QED BY <2>1, <2>2 DEF Evaluate
<1>4. CASE Persist
  BY <1>4 DEF Persist
<1>5. CASE Reset
  <2>1. ResetUps(FreshRuntime) = FreshRuntime
    BY DEF ResetUps, FreshRuntime
  <2>2. QED BY <1>5, <2>1 DEF Reset
<1>6. ASSUME NEW ids \in SUBSET Ups, NEW settings \in [Ups -> Profiles],
             UpdateConfig(ids, settings)
      PROVE  LoopInv'
  BY <1>6 DEF UpdateConfig
<1>7. CASE Crash
  BY <1>7 DEF Crash
<1>8. CASE Start
  BY <1>8 DEF Start
<1>9. QED
  BY <1>1, <1>2, <1>3, <1>4, <1>5, <1>6, <1>7, <1>8 DEF Next

\* An evaluation starts the timer, stops it, or leaves it alone.
LEMMA EvaluateMeasured ==
  ASSUME NEW c, NEW r, NEW age \in 0 .. MaxAge, Measured(r, age, TRUE)
  PROVE  Measured(EvaluateUps(c, r), age, FALSE)
  BY BoundsAssumption
     DEF Measured, EvaluateUps, EvaluateUnreachable, EvaluateMains,
         EvaluateBattery, Answered

LEMMA MeasuredStep ==
  SilenceInv /\ Next => (\A u \in Ups : Measured(ups_rt[u], unheard[u], u \in todo))'
<1> SUFFICES ASSUME SilenceInv, Next, NEW v \in Ups
             PROVE  Measured(ups_rt'[v], unheard'[v], v \in todo')
  OBVIOUS
<1>1. /\ ups_rt[v] \in UpsRuntime
      /\ unheard[v] \in 0 .. MaxAge
      /\ Measured(ups_rt[v], unheard[v], v \in todo)
  BY DEF SilenceInv, TypeOK
<1>2. \A age, pending : Measured(FreshRuntime, age, pending)
  BY DEF Measured, FreshRuntime, Silence
<1>3. CASE Tick
  <2>1. /\ ups_rt'[v] = OlderRuntime(ups_rt[v])
        /\ unheard'[v] = Older(unheard[v]) /\ todo' = todo
    BY <1>3 DEF Tick
  <2>2. ups_rt[v].unreachable_since \in Timer
    BY <1>1 DEF UpsRuntime
  <2>3. Older(ups_rt[v].unreachable_since) = None
          <=> ups_rt[v].unreachable_since = None
    BY <2>2, OlderTimer
  <2>4. ups_rt[v].unreachable_since <= unheard[v] =>
          Older(ups_rt[v].unreachable_since) <= Older(unheard[v])
    BY <1>1, <2>2, OlderMonotone
  <2>5. QED BY <1>1, <2>1, <2>3, <2>4 DEF Measured, OlderRuntime
<1>4. CASE Poll
  <2>1. PICK answer \in [configured -> Readings] :
          /\ ups_rt' = [u \in Ups |->
               IF u \in configured THEN Polled(ups_rt[u], answer[u]) ELSE ups_rt[u]]
          /\ unheard' = [u \in Ups |->
               IF u \in configured /\ answer[u].reachable THEN 0 ELSE unheard[u]]
    BY <1>4 DEF Poll
  <2>2. CASE v \in configured
    <3>1. /\ ups_rt'[v] = Polled(ups_rt[v], answer[v])
          /\ unheard'[v] = IF answer[v].reachable THEN 0 ELSE unheard[v]
      BY <2>1, <2>2
    <3>2. v \notin todo /\ v \in todo'
      BY <1>4, <2>2 DEF Poll, SilenceInv, LoopInv
    <3>3. /\ ups_rt'[v].state = answer[v]
          /\ ups_rt'[v].unreachable_since = ups_rt[v].unreachable_since
      BY <1>1, <3>1 DEF Polled, UpsRuntime
    <3>4. ups_rt[v].unreachable_since # None =>
            ups_rt[v].unreachable_since <= unheard[v]
      BY <1>1, <3>2 DEF Measured, UpsRuntime, UpsState
    <3>5. QED BY <3>1, <3>2, <3>3, <3>4 DEF Measured
  <2>3. CASE v \notin configured
    BY <1>2, <2>1, <2>3 DEF SilenceInv, LoopInv
  <2>4. QED BY <2>2, <2>3
<1>5. ASSUME NEW u \in Ups, Evaluate(u)
      PROVE  Measured(ups_rt'[v], unheard'[v], v \in todo')
  <2>1. CASE u = v /\ u \in configured
    <3>1. /\ ups_rt'[v] = EvaluateUps(cfg[v], ups_rt[v])
          /\ unheard'[v] = unheard[v] /\ v \notin todo'
      BY <1>5, <2>1 DEF Evaluate, SilenceInv, TypeOK
    <3>2. Measured(ups_rt[v], unheard[v], TRUE)
      BY <1>1 DEF Measured
    <3>3. Measured(EvaluateUps(cfg[v], ups_rt[v]), unheard[v], FALSE)
      BY <1>1, <3>2, EvaluateMeasured
    <3>4. QED BY <3>1, <3>3 DEF Measured
  <2>2. CASE u = v /\ u \notin configured
    BY <1>2, <1>5, <2>2 DEF Evaluate, SilenceInv, LoopInv
  <2>3. CASE u # v
    <3>1. ups_rt'[v] = ups_rt[v] /\ unheard'[v] = unheard[v]
      BY <1>5, <2>3 DEF Evaluate, SilenceInv, TypeOK
    <3>2. v \in todo' <=> v \in todo
      BY <1>5, <2>3 DEF Evaluate
    <3>3. QED BY <1>1, <3>1, <3>2 DEF Measured
  <2>4. QED BY <2>1, <2>2, <2>3
<1>6. CASE Persist
  BY <1>1, <1>6 DEF Persist, history
<1>7. CASE Reset
  <2>1. /\ ups_rt'[v] = ResetUps(ups_rt[v])
        /\ unheard'[v] = unheard[v] /\ todo' = todo
    BY <1>7 DEF Reset, history
  <2>2. QED BY <1>1, <2>1 DEF Measured, ResetUps
<1>8. ASSUME NEW ids \in SUBSET Ups, NEW settings \in [Ups -> Profiles],
             UpdateConfig(ids, settings)
      PROVE  Measured(ups_rt'[v], unheard'[v], v \in todo')
  <2>1. CASE v \in ids
    <3>1. /\ ups_rt'[v] = ups_rt[v]
          /\ unheard'[v] = unheard[v] /\ todo' = todo
      BY <1>8, <2>1 DEF UpdateConfig
    <3>2. QED BY <1>1, <3>1
  <2>2. CASE v \notin ids
    <3>1. ups_rt'[v] = FreshRuntime
      BY <1>8, <2>2 DEF UpdateConfig
    <3>2. QED BY <1>2, <3>1
  <2>3. QED BY <2>1, <2>2
<1>9. CASE Crash
  BY <1>2, <1>9 DEF Crash
<1>10. CASE Start
  <2>1. \A saved, max, age, pending :
          Measured(RestoreUps(saved, max), age, pending)
    BY DEF Measured, RestoreUps, Silence
  <2>2. ups_rt'[v] = RestoreUps(file[v], RestoreMax) \/ ups_rt'[v] = FreshRuntime
    BY <1>10 DEF Start
  <2>3. QED BY <1>2, <2>1, <2>2
<1>11. QED
  BY <1>3, <1>4, <1>5, <1>6, <1>7, <1>8, <1>9, <1>10 DEF Next

LEMMA SilenceNext == SilenceInv /\ [Next]_vars => SilenceInv'
<1>1. TypeOK /\ [Next]_vars => TypeOK'
  BY TypeNext
<1>2. SilenceInv /\ UNCHANGED vars =>
        /\ LoopInv'
        /\ (\A u \in Ups : Measured(ups_rt[u], unheard[u], u \in todo))'
  BY DEF SilenceInv, LoopInv, vars
<1>3. QED BY <1>1, <1>2, LoopStep, MeasuredStep DEF SilenceInv

THEOREM SilenceCorrect == Spec => []SilenceInv
  BY SilenceInit, SilenceNext, PTL DEF Spec

\* A communication loss is found by an evaluation, of an entry without answer.
LEMMA CommLossArises ==
  ASSUME NEW c, NEW r, r.trigger_reason # "comm",
         EvaluateUps(c, r).trigger_reason = "comm"
  PROVE  /\ ~r.state.reachable
         /\ ~c.incomplete /\ ~r.state.answered
         /\ Reached(c.comm_loss_shutdown_after_min,
                    IF r.unreachable_since = None THEN 0 ELSE r.unreachable_since)
<1>1. CASE ~r.state.reachable
  BY <1>1
     DEF EvaluateUps, EvaluateUnreachable, BlindReason, UpsTriggerReason, PureCommLoss
<1>2. CASE r.state.reachable /\ ~r.state.on_battery
  BY <1>2 DEF EvaluateUps, EvaluateMains, Answered
<1>3. CASE r.state.reachable /\ r.state.on_battery
  BY <1>3 DEF EvaluateUps, EvaluateBattery, Answered, UpsTriggerReason, PureCommLoss
<1>4. QED BY <1>1, <1>2, <1>3

LEMMA CommLossStep ==
  ASSUME SilenceInv, [Next]_vars, NEW v \in Ups,
         ups_rt[v].trigger_reason # "comm", ups_rt'[v].trigger_reason = "comm"
  PROVE  /\ ~cfg[v].incomplete
         /\ ~ups_rt[v].state.answered
         /\ Reached(cfg[v].comm_loss_shutdown_after_min, unheard[v])
<1>1. ups_rt \in [Ups -> UpsRuntime] /\ cfg[v] \in Thresholds /\ unheard[v] \in 0 .. MaxAge
  BY MonitorAssumption DEF SilenceInv, TypeOK
<1>2. ASSUME NEW u \in Ups, Evaluate(u)
      PROVE  /\ ~cfg[v].incomplete
             /\ ~ups_rt[v].state.answered
             /\ Reached(cfg[v].comm_loss_shutdown_after_min, unheard[v])
  <2>1. ups_rt'[v] = EvaluateUps(cfg[v], ups_rt[v])
    BY <1>1, <1>2 DEF Evaluate
  <2>2. /\ ~ups_rt[v].state.reachable
        /\ ~cfg[v].incomplete /\ ~ups_rt[v].state.answered
        /\ Reached(cfg[v].comm_loss_shutdown_after_min,
                   IF ups_rt[v].unreachable_since = None THEN 0
                   ELSE ups_rt[v].unreachable_since)
    BY <2>1, CommLossArises
  <2>3. (IF ups_rt[v].unreachable_since = None THEN 0
         ELSE ups_rt[v].unreachable_since) <= unheard[v]
    BY <1>1, <2>2 DEF SilenceInv, Measured
  <2>4. /\ ups_rt[v].unreachable_since \in Timer
        /\ cfg[v].comm_loss_shutdown_after_min \in Timer
    BY <1>1 DEF UpsRuntime, Thresholds
  <2>5. QED BY <1>1, <2>2, <2>3, <2>4 DEF Reached, Timer, None
<1>3. CASE Tick
  BY <1>3 DEF Tick, OlderRuntime
<1>4. CASE Poll
  <2>1. PICK answer \in [configured -> Readings] :
          ups_rt' = [u \in Ups |->
            IF u \in configured THEN Polled(ups_rt[u], answer[u]) ELSE ups_rt[u]]
    BY <1>4 DEF Poll
  <2>2. \A st : Polled(ups_rt[v], st).trigger_reason = ups_rt[v].trigger_reason
    BY <1>1 DEF Polled, UpsRuntime
  <2>3. QED BY <2>1, <2>2
<1>5. CASE Persist
  BY <1>5 DEF Persist
<1>6. CASE Reset
  BY <1>6 DEF Reset, ResetUps
<1>7. ASSUME NEW ids \in SUBSET Ups, NEW settings \in [Ups -> Profiles],
             UpdateConfig(ids, settings)
      PROVE  FALSE
  BY <1>7 DEF UpdateConfig, FreshRuntime
<1>8. CASE Crash
  BY <1>8 DEF Crash, FreshRuntime
<1>9. CASE Start
  BY <1>9 DEF Start, FreshRuntime, RestoreUps
<1>10. CASE UNCHANGED vars
  BY <1>10 DEF vars
<1>11. QED
  BY <1>2, <1>3, <1>4, <1>5, <1>6, <1>7, <1>8, <1>9, <1>10 DEF Next

\* The opt-in never acts sooner than the operator configured, for every
\* threshold, every poll pattern and every configuration change.
THEOREM CommLossCorrect == Spec => CommLossIsProlonged
<1>1. SilenceInv /\ [Next]_vars =>
        [\A u \in Ups :
           ups_rt[u].trigger_reason # "comm" /\ ups_rt'[u].trigger_reason = "comm" =>
             /\ ~cfg[u].incomplete
             /\ ~ups_rt[u].state.answered
             /\ Reached(cfg[u].comm_loss_shutdown_after_min, unheard[u])]_vars
  BY CommLossStep
<1>2. QED BY SilenceCorrect, <1>1, PTL DEF Spec, CommLossIsProlonged

-----------------------------------------------------------------------------
\* _persist_state may believe what it remembers: memory and file age together.
THEOREM BeliefCorrect == Spec => []BelievedFileIsFile
<1>1. Init => BelievedFileIsFile
  BY DEF Init, BelievedFileIsFile
<1>2. TypeOK /\ BelievedFileIsFile /\ [Next]_vars => BelievedFileIsFile'
  <2> SUFFICES ASSUME TypeOK, BelievedFileIsFile, [Next]_vars
               PROVE  BelievedFileIsFile'
    OBVIOUS
  <2>1. Unwritten' = Unwritten
    BY DEF Unwritten
  <2>2. CASE Tick
    BY <2>1, <2>2 DEF Tick, BelievedFileIsFile
  <2>3. CASE Persist
    BY <2>1, <2>3 DEF Persist, WriteFile, disk, BelievedFileIsFile
  <2>4. CASE Crash
    BY <2>1, <2>4 DEF Crash, BelievedFileIsFile
  <2>5. ASSUME UNCHANGED disk
        PROVE  BelievedFileIsFile'
    BY <2>1, <2>5 DEF disk, BelievedFileIsFile
  <2>6. QED
    BY <2>2, <2>3, <2>4, <2>5
       DEF Next, Poll, Evaluate, Reset, UpdateConfig, Start, vars, disk
<1>3. QED BY TypeCorrect, <1>1, <1>2, PTL DEF Spec

-----------------------------------------------------------------------------
(***************************************************************************)
(* Demands and countdowns that last.  A process that ended holds nothing,  *)
(* so that what a start brings back comes from the file alone.             *)
(***************************************************************************)

\* Between the end of a process and its next start no loop runs, and every
\* runtime record is the one of an entry nobody polled.
DownInv ==
  ~up => pc = "wait" /\ todo = {} /\ \A u \in Ups : ups_rt[u] = FreshRuntime

LEMMA DownStep == DownInv /\ [Next]_vars => DownInv'
<1> SUFFICES ASSUME DownInv, [Next]_vars, ~up'
             PROVE  pc' = "wait" /\ todo' = {} /\ \A u \in Ups : ups_rt'[u] = FreshRuntime
  BY DEF DownInv
<1>1. CASE Crash
  BY <1>1 DEF Crash
<1>2. CASE Tick
  <2>1. ~up /\ UNCHANGED <<pc, todo>>
    BY <1>2 DEF Tick
  <2>2. \A u \in Ups : ups_rt'[u] = OlderRuntime(ups_rt[u])
    BY <1>2 DEF Tick
  <2>3. QED BY <2>1, <2>2, FreshIsAgeless DEF DownInv
<1>3. CASE UNCHANGED vars
  BY <1>3 DEF DownInv, vars
<1>4. ASSUME Poll \/ Reset \/ Start \/ Persist
             \/ (\E u \in Ups : Evaluate(u))
             \/ (\E ids \in SUBSET Ups, settings \in [Ups -> Profiles] :
                   UpdateConfig(ids, settings))
      PROVE  FALSE
  BY <1>4 DEF DownInv, Poll, Reset, Start, Persist, Evaluate, UpdateConfig
<1>5. QED BY <1>1, <1>2, <1>3, <1>4 DEF Next

LEMMA DownCorrect == Spec => []DownInv
<1>1. Init => DownInv
  BY DEF Init, DownInv
<1>2. QED BY <1>1, DownStep, PTL DEF Spec

\* Every step but an evaluation keeps the demand and the timer of an entry that
\* stays configured, unless the operator resets it or the process ends or starts.
LEMMA OthersKeep ==
  ASSUME TypeOK, [Next]_vars, NEW v \in Ups, v \in configured',
         ~ \E u \in Ups : Evaluate(u), ~Crash, ~Start
  PROVE  /\ Triggered(ups_rt[v]) /\ ~Triggered(ups_rt'[v]) => Reset
         /\ ups_rt'[v].on_battery_since >= ups_rt[v].on_battery_since
<1>1. ups_rt \in [Ups -> UpsRuntime]
  BY DEF TypeOK
<1>2. ups_rt[v].on_battery_since \in Timer
  BY <1>1 DEF UpsRuntime
<1>3. ASSUME ups_rt'[v].on_battery_since = ups_rt[v].on_battery_since
      PROVE  ups_rt'[v].on_battery_since >= ups_rt[v].on_battery_since
  BY <1>2, <1>3, BoundsAssumption DEF Timer, None
<1>4. CASE Tick
  <2>1. ups_rt'[v] = OlderRuntime(ups_rt[v])
    BY <1>4 DEF Tick
  <2>2. ups_rt'[v].on_battery_since = Older(ups_rt[v].on_battery_since)
        /\ ups_rt'[v].trigger_reason = ups_rt[v].trigger_reason
    BY <2>1 DEF OlderRuntime
  <2>3. Older(ups_rt[v].on_battery_since) >= ups_rt[v].on_battery_since
    BY <1>2, BoundsAssumption DEF Older, Timer, None
  <2>4. QED BY <2>2, <2>3 DEF Triggered
<1>5. CASE Poll
  <2>1. PICK answer \in [configured -> Readings] :
          ups_rt' = [u \in Ups |->
            IF u \in configured THEN Polled(ups_rt[u], answer[u]) ELSE ups_rt[u]]
    BY <1>5 DEF Poll
  <2>2. \A st : /\ Polled(ups_rt[v], st).trigger_reason = ups_rt[v].trigger_reason
                /\ Polled(ups_rt[v], st).on_battery_since = ups_rt[v].on_battery_since
    BY <1>1 DEF Polled, UpsRuntime
  <2>3. /\ ups_rt'[v].trigger_reason = ups_rt[v].trigger_reason
        /\ ups_rt'[v].on_battery_since = ups_rt[v].on_battery_since
    BY <2>1, <2>2
  <2>4. QED BY <1>3, <2>3 DEF Triggered
<1>6. CASE Persist
  BY <1>3, <1>6 DEF Persist
<1>7. CASE Reset
  <2>1. ups_rt'[v].on_battery_since = ups_rt[v].on_battery_since
    BY <1>7 DEF Reset, ResetUps
  <2>2. QED BY <1>3, <1>7, <2>1
<1>8. ASSUME NEW ids \in SUBSET Ups, NEW settings \in [Ups -> Profiles],
             UpdateConfig(ids, settings)
      PROVE  ups_rt'[v] = ups_rt[v]
  BY <1>8 DEF UpdateConfig
<1>9. CASE UNCHANGED vars
  BY <1>3, <1>9 DEF vars
<1>10. CASE \E ids \in SUBSET Ups, settings \in [Ups -> Profiles] :
              UpdateConfig(ids, settings)
  BY <1>3, <1>8, <1>10
<1>11. QED BY <1>4, <1>5, <1>6, <1>7, <1>9, <1>10 DEF Next

\* An evaluation of an unreachable UPS keeps both; one that found the UPS on
\* battery keeps the timer.
LEMMA EvaluationKeeps ==
  ASSUME NEW c \in Thresholds, NEW r \in UpsRuntime
  PROVE  /\ ~r.state.reachable /\ Triggered(r) => Triggered(EvaluateUps(c, r))
         /\ ~r.state.reachable \/ r.state.on_battery =>
              EvaluateUps(c, r).on_battery_since >= r.on_battery_since
<1>1. r.on_battery_since \in Timer
  BY DEF UpsRuntime
<1>2. CASE ~r.state.reachable
  <2>1. EvaluateUps(c, r) = EvaluateUnreachable(c, r)
    BY <1>2 DEF EvaluateUps
  <2>2. EvaluateUnreachable(c, r).on_battery_since = r.on_battery_since
    BY DEF EvaluateUnreachable
  <2>3. Triggered(r) => Triggered(EvaluateUnreachable(c, r))
    BY DEF EvaluateUnreachable, BlindReason, Triggered
  <2>4. r.on_battery_since >= r.on_battery_since
    BY <1>1, BoundsAssumption DEF Timer, None
  <2>5. QED BY <2>1, <2>2, <2>3, <2>4
<1>3. CASE r.state.reachable /\ r.state.on_battery
  <2>1. EvaluateUps(c, r).on_battery_since
          = IF r.on_battery_since = None THEN 0 ELSE r.on_battery_since
    BY <1>3 DEF EvaluateUps, EvaluateBattery, Answered
  <2>2. QED BY <1>1, <1>3, <2>1, BoundsAssumption DEF Timer, None
<1>4. CASE r.state.reachable /\ ~r.state.on_battery
  BY <1>4
<1>5. QED BY <1>2, <1>3, <1>4

\* A demand that was made stays while the device is unreadable, for every pattern
\* of polls, saved settings and failing writes.
THEOREM DemandSurvivesCorrect == Spec => DemandSurvivesBlindness
<1>1. TypeOK /\ DownInv /\ [Next]_vars =>
        [\A u \in Ups :
           Triggered(ups_rt[u]) /\ ~Triggered(ups_rt'[u]) =>
             ups_rt[u].state.reachable \/ Reset \/ ~up' \/ u \notin configured']_vars
  <2> SUFFICES ASSUME TypeOK, DownInv, [Next]_vars, NEW v \in Ups,
                      Triggered(ups_rt[v]), ~Triggered(ups_rt'[v]),
                      ~ups_rt[v].state.reachable, up', v \in configured'
               PROVE  Reset
    OBVIOUS
  <2>1. ~Crash
    BY DEF Crash
  <2>2. ~Start
    BY DEF Start, DownInv, Triggered, FreshRuntime
  <2>3. ASSUME NEW u \in Ups, Evaluate(u) PROVE FALSE
    <3>1. ups_rt \in [Ups -> UpsRuntime] /\ cfg[v] \in Thresholds
      BY MonitorAssumption DEF TypeOK
    <3>2. ups_rt'[v] = ups_rt[v] \/ ups_rt'[v] = EvaluateUps(cfg[v], ups_rt[v])
      BY <2>3, <3>1 DEF Evaluate
    <3>3. Triggered(EvaluateUps(cfg[v], ups_rt[v]))
      BY <3>1, EvaluationKeeps
    <3>4. QED BY <3>2, <3>3
  <2>4. QED BY <2>1, <2>2, <2>3, OthersKeep
<1>2. QED BY TypeCorrect, DownCorrect, <1>1, PTL DEF Spec, DemandSurvivesBlindness

\* A countdown starts over only on mains, with its entry, for a file too old, or
\* with a process that ended before the timer was written: through silence,
\* resets, saves, restarts and failing writes it runs on.
LEMMA CountdownStep ==
  ASSUME TypeOK, DownInv, BelievedFileIsFile, [Next]_vars,
         NEW v \in configured \cap configured',
         ~(heard'[v] = "mains"), ~(up /\ ~up' /\ persisted # Timers),
         ~(~up /\ up' /\ file[v] > RestoreMax)
  PROVE  KnownOutage(v)' >= KnownOutage(v)
<1>1. v \in Ups /\ ups_rt \in [Ups -> UpsRuntime] /\ cfg[v] \in Thresholds
  BY MonitorAssumption DEF TypeOK
<1>2. ups_rt[v].on_battery_since \in Timer /\ file[v] \in Timer
  BY <1>1 DEF TypeOK, UpsRuntime
<1>3. \A t \in Timer : t >= t
  BY BoundsAssumption DEF Timer, None
<1>4. CASE up /\ up' /\ ~ \E u \in Ups : Evaluate(u)
  <2>1. ~Crash /\ ~Start
    BY <1>4 DEF Crash, Start
  <2>2. ups_rt'[v].on_battery_since >= ups_rt[v].on_battery_since
    BY <1>1, <1>4, <2>1, OthersKeep
  <2>3. QED BY <1>4, <2>2 DEF KnownOutage
<1>5. CASE up /\ up' /\ \E u \in Ups : Evaluate(u)
  <2>1. PICK u \in Ups : Evaluate(u)
    BY <1>5
  <2>2. CASE u = v /\ u \in configured
    <3>1. ups_rt'[v] = EvaluateUps(cfg[v], ups_rt[v])
      BY <1>1, <2>1, <2>2 DEF Evaluate
    <3>2. heard'[v] = IF ~ups_rt[v].state.reachable THEN heard[v]
                      ELSE IF ups_rt[v].state.on_battery THEN "battery"
                      ELSE "mains"
      BY <1>1, <2>1, <2>2 DEF Evaluate, TypeOK
    <3>3. ~ups_rt[v].state.reachable \/ ups_rt[v].state.on_battery
      BY <3>2
    <3>4. EvaluateUps(cfg[v], ups_rt[v]).on_battery_since >= ups_rt[v].on_battery_since
      BY <1>1, <3>3, EvaluationKeeps
    <3>5. QED BY <1>5, <3>1, <3>4 DEF KnownOutage
  <2>3. CASE ~(u = v /\ u \in configured)
    <3>1. ups_rt'[v] = ups_rt[v]
      BY <1>1, <2>1, <2>3 DEF Evaluate
    <3>2. QED BY <1>2, <1>3, <1>5, <3>1 DEF KnownOutage
  <2>4. QED BY <2>2, <2>3
<1>6. CASE up /\ ~up'
  <2>1. Crash
    BY <1>6 DEF Next, Tick, Poll, Evaluate, Persist, Reset, UpdateConfig, Start, vars
  <2>2. persisted = Timers
    BY <1>6
  <2>3. Timers # Unwritten
    <3>1. Timers[v] = ups_rt[v].on_battery_since /\ Unwritten[v] = MaxAge + 1
      BY <1>1 DEF Timers, Unwritten
    <3>2. ups_rt[v].on_battery_since # MaxAge + 1
      BY <1>2, BoundsAssumption DEF Timer, None
    <3>3. QED BY <3>1, <3>2
  <2>4. file = Timers
    BY <2>2, <2>3 DEF BelievedFileIsFile
  <2>5. file'[v] = ups_rt[v].on_battery_since
    BY <1>1, <2>1, <2>4 DEF Crash, Timers
  <2>6. QED BY <1>2, <1>3, <1>6, <2>5 DEF KnownOutage
<1>7. CASE ~up /\ up'
  <2>1. Start
    BY <1>7 DEF Next, Tick, Poll, Evaluate, Persist, Reset, UpdateConfig, Crash, vars
  <2>2. ups_rt'[v] = RestoreUps(file[v], RestoreMax)
    BY <1>1, <2>1 DEF Start
  <2>3. file[v] <= RestoreMax
    BY <1>2, <1>7, MonitorAssumption, BoundsAssumption DEF Timer, None
  <2>4. ups_rt'[v].on_battery_since = file[v]
    BY <2>2, <2>3 DEF RestoreUps
  <2>5. QED BY <1>2, <1>3, <1>7, <2>4 DEF KnownOutage
<1>8. CASE ~up /\ ~up'
  <2>1. CASE Tick
    <3>1. file'[v] = Older(file[v])
      BY <1>1, <2>1 DEF Tick
    <3>2. Older(file[v]) >= file[v]
      BY <1>2, BoundsAssumption DEF Older, Timer, None
    <3>3. QED BY <1>8, <3>1, <3>2 DEF KnownOutage
  <2>2. CASE ~Tick
    <3>1. file' = file
      BY <1>8, <2>2
         DEF Next, DownInv, Poll, Evaluate, Persist, Reset, UpdateConfig, Crash, Start,
             disk, vars
    <3>2. QED BY <1>2, <1>3, <1>8, <3>1 DEF KnownOutage
  <2>3. QED BY <2>1, <2>2
<1>9. up \in BOOLEAN /\ up' \in BOOLEAN
  BY TypeNext DEF TypeOK
<1>10. QED BY <1>4, <1>5, <1>6, <1>7, <1>8, <1>9

\* The age of an outage, as it is known, is a timestamp.
LEMMA KnownOutageType ==
  ASSUME TypeOK, NEW v \in Ups PROVE KnownOutage(v) \in Timer
BY DEF TypeOK, KnownOutage, UpsRuntime

\* A restart mid-outage loses nothing, for every number of crashes and saves.
THEOREM CountdownSurvivesCorrect == Spec => CountdownSurvives
<1>1. TypeOK /\ DownInv /\ BelievedFileIsFile /\ [Next]_vars =>
        [\A u \in configured \cap configured' :
           KnownOutage(u)' < KnownOutage(u) =>
             \/ heard'[u] = "mains"
             \/ up /\ ~up' /\ persisted # Timers
             \/ ~up /\ up' /\ file[u] > RestoreMax]_vars
  <2> SUFFICES ASSUME TypeOK, DownInv, BelievedFileIsFile, [Next]_vars,
                      NEW v \in configured \cap configured',
                      ~(heard'[v] = "mains"), ~(up /\ ~up' /\ persisted # Timers),
                      ~(~up /\ up' /\ file[v] > RestoreMax)
               PROVE  ~(KnownOutage(v)' < KnownOutage(v))
    OBVIOUS
  <2>1. KnownOutage(v)' >= KnownOutage(v)
    BY CountdownStep
  <2>2. TypeOK' /\ v \in Ups
    BY TypeNext DEF TypeOK
  <2>3. KnownOutage(v) \in Timer
    BY <2>2, KnownOutageType
  <2>4. KnownOutage(v)' \in Timer
    BY <2>2 DEF TypeOK, KnownOutage, UpsRuntime
  <2> HIDE DEF KnownOutage
  <2>5. \A s, t \in Timer : s >= t => ~(s < t)
    BY BoundsAssumption DEF Timer, None
  <2>6. QED BY <2>1, <2>3, <2>4, <2>5
<1>2. QED
  BY TypeCorrect, DownCorrect, BeliefCorrect, <1>1, PTL DEF Spec, CountdownSurvives

-----------------------------------------------------------------------------
(***************************************************************************)
(* What MonitorAssumption asks of Readings, the sources keep.              *)
(***************************************************************************)

\* An object the device does not implement has no word in either table.
LEMMA MissingIsUnknown ==
  /\ Word(RfcSource, Missing) = "unknown"
  /\ Word(ApcSource, Missing) = "unknown"
BY DEF Word, RfcSource, ApcSource, Missing, None

\* A MIB read as running on battery is one with a usable power source.
LEMMA MapStateContract ==
  ASSUME NEW profile \in {Rfc1628, Apc}, NEW mib
  PROVE  /\ MapState(profile, mib).answered
         /\ MapState(profile, mib).on_battery => MapState(profile, mib).reachable
<1>1. profile.source \in {RfcSource, ApcSource}
  BY DEF Rfc1628, Apc
<1>2. Word(profile.source, mib.source) = "battery" => Usable(mib.source)
  BY <1>1, MissingIsUnknown DEF Usable
<1>3. Usable(mib.source) => Implemented(mib)
  BY DEF Implemented, Fields
<1>4. QED BY <1>2, <1>3 DEF MapState

\* Whatever a device answers and however the read ends, a battery is only
\* reported by a reachable device, a reachable device answered, and of a device
\* that did not answer nothing else is reported either: no stale or half-read
\* value survives a failed read.
THEOREM SourcesKeepContract ==
  ASSUME NEW device
  PROVE  LET s == SourcePoll(device) IN
           /\ s.reachable => s.answered
           /\ s.on_battery => s.reachable
           /\ ~s.answered => s = Silence
<1> DEFINE Contract(s) == /\ s.reachable => s.answered
                          /\ s.on_battery => s.reachable
                          /\ ~s.answered => s = Silence
<1>1. Contract(Silence) /\ Contract(AnsweredOnly)
  BY DEF Silence, AnsweredOnly
<1>2. ASSUME NEW profile \in {Rfc1628, Apc}, NEW mib
      PROVE  Contract(MapState(profile, mib))
  BY <1>2, MapStateContract
<1>3. Contract(ReadVendor(device))
  BY <1>1, <1>2 DEF ReadVendor
<1>4. Contract(SnmpPoll(device))
  BY <1>1, <1>2, <1>3 DEF SnmpPoll
<1>5. Contract(ApplyVariables(device))
  BY DEF ApplyVariables
<1>6. Contract(NutPoll(device))
  BY <1>1, <1>5 DEF NutPoll
<1>7. Contract(SourcePoll(device))
  BY <1>1, <1>4, <1>6 DEF SourcePoll
<1>8. QED BY <1>7

\* Rounding down never hides a threshold: a runtime that has fallen to the limit
\* in the device's own unit, below zero if it must, has fallen to it in minutes.
THEOREM RoundingFiresEarly ==
  ASSUME NEW raw \in Int, raw > None, NEW limit \in Nat, NEW unit \in {1, 60, 6000},
         raw =< limit * unit
  PROVE  FallenTo(limit, Converted(raw, unit))
<1>1. raw \div unit \in Int /\ None < raw \div unit /\ raw \div unit =< limit
  <2>1. CASE unit = 1 BY <2>1 DEF None
  <2>2. CASE unit = 60 BY <2>2 DEF None
  <2>3. CASE unit = 6000 BY <2>3 DEF None
  <2>4. QED BY <2>1, <2>2, <2>3
<1>2. raw \notin {Missing, Garbled, NotFinite} /\ limit # None
  BY DEF Missing, Garbled, NotFinite, None
<1>3. QED BY <1>1, <1>2 DEF FallenTo, Converted, None

=============================================================================
