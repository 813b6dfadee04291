--------------------------- MODULE SelfTestProofs ---------------------------
(***************************************************************************)
(* What SelfTest does for any hosts, schedules, clock and disturbances.    *)
(* The inductive invariant has a part for each result: what the latch and  *)
(* the file know of the slot last tested, what a startup check that counts *)
(* as made has seen, and when a green line may follow another one.         *)
(***************************************************************************)
EXTENDS SelfTest, TLAPS

\* Nothing goes on in a process that ended, the loop is where its test is, and a
\* manual self-test always shows its lines.
StageInv ==
  /\ ~up => pc = "wait"
  /\ test["loop"].at = "checking" => pc \in Checks
  /\ test["loop"].at \in {"hosts", "failing", "inspecting"} => pc = "testing"
  /\ test["manual"].at # "none" => test["manual"].force /\ up

\* The slot last tested is in the file, and in the memory of a running process.
SlotInv ==
  tested # None =>
    /\ tested <= now
    /\ file.slot = tested
    /\ up => last_selftest_slot = tested

\* A startup check that counts as made has seen the configuration, or looks at it.
ChecksInv ==
  /\ test["loop"].past => done = {}
  /\ \A c \in done : \/ seen[c] \in {"present", "late"}
                     \/ pc = c /\ test["loop"].at = "checking"

\* After a routine line of today the next one waits for a failure.
GreenInv ==
  /\ ~up => green.lines = 0
  /\ green.lines > 0 <=> green.day # None
  /\ green.lines > 0 => green.day <= Today
  /\ green.lines > 1 => failing
  /\ green.lines > 0 /\ green.day = Today /\ ~failing =>
       \/ test["loop"].at = "failing"
       \/ last_selftest_ok_logged = Today /\ last_selftest_ok # "failed"

IInv == TypeOK /\ StageInv /\ SlotInv /\ ChecksInv /\ GreenInv

-----------------------------------------------------------------------------
\* A remainder is smaller than its divisor.
LEMMA Remainder ==
  ASSUME NEW x \in Int, NEW i \in Nat \ {0} PROVE x % i \in 0 .. i - 1
BY SMT

\* The day does not go back with the next minute.
LEMMA NextDay ==
  ASSUME NEW x \in Nat, NEW d \in Nat \ {0}
  PROVE  x \div d \in Int /\ x \div d <= (x + 1) \div d
BY SMT

\* A slot is a recent minute, not one ahead of the clock.
LEMMA SlotType ==
  ASSUME now \in Clock, cfg \in Schedules
  PROVE  Slot \in Slots /\ Slot \in Int /\ Slot <= now
<1> DEFINE minute == (now % DayLength) - cfg.anchor
           age == minute % cfg.interval
<1>1. now \in Nat /\ DayLength \in Nat \ {0} /\ cfg.anchor \in Int
      /\ cfg.interval \in 1 .. DayLength
  BY SelfTestAssumption
<1>2. minute \in Int
  <2>1. now % DayLength \in 0 .. DayLength - 1
    BY <1>1, Remainder
  <2>2. \A m \in 0 .. DayLength - 1 : m - cfg.anchor \in Int
    BY <1>1
  <2> QED BY <2>1, <2>2
<1>3. age \in 0 .. DayLength - 1
  <2> HIDE DEF minute
  <2>1. cfg.interval \in Nat \ {0}
    BY <1>1
  <2>2. age \in 0 .. cfg.interval - 1
    BY <1>2, <2>1, Remainder
  <2> HIDE DEF age
  <2> QED BY <1>1, <2>2
<1>4. Slot = now - age
  BY DEF Slot, SelftestSlot
<1> HIDE DEF age
<1> QED BY <1>1, <1>3, <1>4 DEF Slots

\* The day is a number, and slots are.
LEMMA TodayType ==
  ASSUME now \in Clock PROVE Today \in Int
BY NextDay, SelfTestAssumption DEF Today

\* The types of the records.
ATest == [at : {"none", "checking", "hosts", "failing", "inspecting"},
          force : BOOLEAN, past : BOOLEAN]
AnOutcome == [slot : Slots \cup {None}, ok : {"none", "ok", "failed"}]

\* A test is one, wherever it is.
LEMMA ATestType ==
  ASSUME NEW at \in {"none", "checking", "hosts", "failing", "inspecting"},
         NEW force \in BOOLEAN, NEW past \in BOOLEAN
  PROVE  Test(at, force, past) \in ATest
BY DEF Test, ATest

\* None is no slot.
LEMMA SlotsAreInts == Slots \subseteq Int /\ None \notin Slots
BY SelfTestAssumption DEF Slots

\* The process starts with nothing done.
LEMMA Initial == Init => IInv
<1> SUFFICES ASSUME Init PROVE IInv
  OBVIOUS
<1>1. TypeOK
  <2>1. test \in [Runs -> ATest]
    BY ATestType DEF Init, NoTest
  <2>2. seen \in [Checks -> {"present", "past", "late"}]
    BY DEF Init, Nothing
  <2>3. file \in [slot : Slots \cup {None}, ok : {"none", "ok", "failed"}]
    BY DEF Init
  <2>4. green \in [day : Int \cup {None}, lines : 0 .. 2]
    BY DEF Init
  <2> QED BY <2>1, <2>2, <2>3, <2>4 DEF Init, TypeOK, ATest
<1>2. StageInv /\ SlotInv /\ ChecksInv /\ GreenInv
  BY DEF Init, StageInv, SlotInv, ChecksInv, GreenInv, NoTest, Test, Runs, Checks
<1> QED BY <1>1, <1>2 DEF IInv

\* The type of test, in a form the steps need: it keeps, whichever run moves on.
LEMMA TestTypes ==
  ASSUME TypeOK, [Next]_vars PROVE test' \in [Runs -> ATest]
<1> DEFINE T == [Runs -> ATest]
<1>1. test \in T
  BY DEF TypeOK, ATest
<1>2. ASSUME NEW r \in Runs, NEW t \in ATest PROVE [test EXCEPT ![r] = t] \in T
  BY <1>1, <1>2
<1>3. NoTest \in ATest /\ Fresh(TRUE) \in ATest /\ Fresh(FALSE) \in ATest
      /\ Test("checking", FALSE, FALSE) \in ATest
  BY ATestType DEF NoTest, Fresh
<1>4. ASSUME NEW r \in Runs
      PROVE  test[r].at \in {"none", "checking", "hosts", "failing", "inspecting"}
             /\ test[r].force \in BOOLEAN /\ test[r].past \in BOOLEAN
  BY <1>1 DEF ATest
<1>5. "loop" \in Runs /\ "manual" \in Runs
  BY DEF Runs
<1>6. ASSUME NEW r \in Runs, NEW ok \in BOOLEAN, TakeDown(r, ok) PROVE test' \in T
  BY <1>2, <1>4, <1>6, ATestType DEF TakeDown
<1>7. ASSUME NEW c \in Checks, BeginStartupCheck(c) \/ EndStartupCheck(c)
      PROVE  test' \in T
  BY <1>1, <1>2, <1>3, <1>5, <1>7 DEF BeginStartupCheck, EndStartupCheck
<1>8. CASE RearmSelftest \/ ScheduledSelftest \/ ManualSelftest
  BY <1>2, <1>3, <1>5, <1>8 DEF RearmSelftest, ScheduledSelftest, ManualSelftest
<1>9. ASSUME NEW r \in Runs, NEW good \in SUBSET Hosts, HostsTested(r, good)
      PROVE  test' \in T
  <2>1. CASE good = Hosts
    BY <1>6, <1>9, <2>1 DEF HostsTested
  <2>2. CASE good # Hosts
    BY <1>2, <1>4, <1>9, <2>2, ATestType DEF HostsTested
  <2> QED BY <2>1, <2>2
<1>10. ASSUME NEW r \in Runs, FailuresSent(r) PROVE test' \in T
  BY <1>6, <1>10 DEF FailuresSent
<1>11. ASSUME NEW r \in Runs, EndClusters(r) PROVE test' \in T
  BY <1>2, <1>3, <1>11 DEF EndClusters
<1>12. ASSUME NEW s \in Schedules, UpdateConfig(s) PROVE test' \in T
  BY <1>4, <1>12, ATestType DEF UpdateConfig
<1>13. CASE Crash
  BY <1>3, <1>13 DEF Crash
<1>14. CASE Tick \/ SetBack \/ Evaluate \/ SkipSelftest \/ Reset \/ Start \/ UNCHANGED vars
  BY <1>1, <1>14 DEF Tick, SetBack, Evaluate, SkipSelftest, Reset, Start, vars
<1> QED BY <1>7, <1>8, <1>9, <1>10, <1>11, <1>12, <1>13, <1>14 DEF Next

\* The types of the latch, in memory, in the file and as tested.
LEMMA LatchTypes ==
  ASSUME TypeOK, [Next]_vars
  PROVE  /\ last_selftest_slot' \in Slots \cup {None} /\ tested' \in Slots \cup {None}
         /\ file' \in AnOutcome
<1> DEFINE T == /\ last_selftest_slot' \in Slots \cup {None}
                /\ tested' \in Slots \cup {None} /\ file' \in AnOutcome
<1>1. /\ last_selftest_slot \in Slots \cup {None} /\ tested \in Slots \cup {None}
      /\ file \in AnOutcome
  BY DEF TypeOK, AnOutcome
<1>2. CASE ScheduledSelftest
  <2>1. Slot \in Slots
    BY SlotType DEF TypeOK
  <2>2. [slot |-> Slot, ok |-> last_selftest_ok] \in AnOutcome
    BY <2>1 DEF TypeOK, AnOutcome
  <2> QED BY <1>1, <1>2, <2>1, <2>2 DEF ScheduledSelftest, LatchSlot
<1>3. CASE Evaluate
  <2>1. Outcome \in AnOutcome
    BY DEF Outcome, TypeOK, AnOutcome
  <2> QED BY <1>1, <1>3, <2>1 DEF Evaluate
<1>4. CASE Start
  <2>1. Restored \in Slots \cup {None}
    BY <1>1 DEF Restored, AnOutcome
  <2> QED BY <1>1, <1>4, <2>1 DEF Start
<1>5. CASE UNCHANGED latch
  BY <1>1, <1>5 DEF latch
<1>6. CASE SetBack \/ Crash
  BY <1>1, <1>6 DEF SetBack, Crash
<1> QED
  BY <1>2, <1>3, <1>4, <1>5, <1>6 DEF Next, vars, Tick, BeginStartupCheck, EndStartupCheck,
     SkipSelftest, RearmSelftest, ManualSelftest, HostsTested, FailuresSent, EndClusters,
     UpdateConfig, Reset

\* The types of what is recorded of self-tests and of their lines.
LEMMA RecordTypes ==
  ASSUME TypeOK, [Next]_vars
  PROVE  /\ last_selftest_ok' \in {"none", "ok", "failed"}
         /\ last_selftest_ok_logged' \in Int \cup {None}
         /\ green' \in [day : Int \cup {None}, lines : 0 .. 2]
         /\ failing' \in BOOLEAN
<1> DEFINE Lines == [day : Int \cup {None}, lines : 0 .. 2]
<1>1. Today \in Int
  BY TodayType DEF TypeOK
<1>2. green \in Lines /\ [day |-> None, lines |-> 0] \in Lines /\ OneMore \in Lines
  BY <1>1 DEF TypeOK, OneMore
<1>3. CASE SetBack
  BY <1>2, <1>3 DEF SetBack, TypeOK
<1>4. ASSUME NEW r \in Runs, NEW good \in SUBSET Hosts, HostsTested(r, good)
      PROVE  /\ last_selftest_ok' \in {"none", "ok", "failed"}
             /\ last_selftest_ok_logged' \in Int \cup {None}
             /\ green' \in Lines /\ failing' \in BOOLEAN
  <2>1. green' \in Lines
    BY <1>2, <1>4 DEF HostsTested, Written
  <2>2. failing' \in BOOLEAN
    BY <1>4 DEF HostsTested, TypeOK
  <2> QED BY <1>1, <1>4, <2>1, <2>2 DEF HostsTested, TakeDown, TypeOK
<1>5. ASSUME NEW r \in Runs, FailuresSent(r)
      PROVE  /\ last_selftest_ok' \in {"none", "ok", "failed"}
             /\ last_selftest_ok_logged' \in Int \cup {None}
             /\ green' \in Lines /\ failing' \in BOOLEAN
  BY <1>2, <1>5 DEF FailuresSent, TakeDown, TypeOK
<1>6. CASE Crash
  BY <1>2, <1>6 DEF Crash
<1>7. CASE Start
  BY <1>2, <1>7 DEF Start, TypeOK
<1>8. CASE UNCHANGED record
  BY <1>8 DEF record, TypeOK
<1> QED
  BY <1>3, <1>4, <1>5, <1>6, <1>7, <1>8 DEF Next, vars, Tick, Evaluate, BeginStartupCheck,
     EndStartupCheck, SkipSelftest, RearmSelftest, ScheduledSelftest, ManualSelftest,
     EndClusters, UpdateConfig, Reset

\* The types of what the startup checks know.
LEMMA CheckTypes ==
  ASSUME TypeOK, [Next]_vars
  PROVE  done' \subseteq Checks /\ seen' \in [Checks -> {"present", "past", "late"}]
<1> DEFINE S == [Checks -> {"present", "past", "late"}]
<1>1. done \subseteq Checks /\ seen \in S /\ "cluster" \in Checks
  BY DEF TypeOK, Checks
<1>2. ASSUME NEW r \in Runs, NEW c \in Checks PROVE [seen EXCEPT ![c] = Found(r)] \in S
  BY <1>1 DEF Found
<1>3. ASSUME NEW c \in Checks, BeginStartupCheck(c) \/ EndStartupCheck(c)
      PROVE  done' \subseteq Checks /\ seen' \in S
  <2>1. CASE BeginStartupCheck(c)
    BY <1>1, <2>1 DEF BeginStartupCheck
  <2>2. CASE EndStartupCheck(c)
    BY <1>1, <1>2, <2>2 DEF EndStartupCheck, Runs
  <2> QED BY <1>3, <2>1, <2>2
<1>4. ASSUME NEW r \in Runs, EndClusters(r) PROVE done' \subseteq Checks /\ seen' \in S
  BY <1>1, <1>2, <1>4 DEF EndClusters
<1>5. ASSUME NEW s \in Schedules, UpdateConfig(s)
      PROVE  done' \subseteq Checks /\ seen' \in S
  BY <1>1, <1>5 DEF UpdateConfig, RepeatChecks
<1>6. CASE Crash
  BY <1>6 DEF Crash, Nothing
<1>7. CASE UNCHANGED <<done, seen>>
  BY <1>1, <1>7
<1> QED
  BY <1>3, <1>4, <1>5, <1>6, <1>7 DEF Next, vars, Tick, SetBack, Evaluate, SkipSelftest,
     RearmSelftest, ScheduledSelftest, ManualSelftest, HostsTested, FailuresSent, Reset, Start

\* Every step keeps the types.
LEMMA Types ==
  ASSUME TypeOK, [Next]_vars PROVE TypeOK'
<1>1. events' \in Scenarios /\ now' \in Clock
  <2>1. now' = now \/ now' \in Clock
    BY DEF Next, vars, Tick, SetBack, Evaluate,
       BeginStartupCheck, EndStartupCheck, SkipSelftest, RearmSelftest, ScheduledSelftest,
       ManualSelftest, HostsTested, FailuresSent, EndClusters, UpdateConfig, Reset, Crash, Start
  <2> QED BY <2>1 DEF TypeOK, Next, vars, Tick, SetBack, Evaluate,
       BeginStartupCheck, EndStartupCheck, SkipSelftest, RearmSelftest, ScheduledSelftest,
       ManualSelftest, HostsTested, FailuresSent, EndClusters, UpdateConfig, Reset, Crash, Start
<1>2. cfg' \in Schedules /\ up' \in BOOLEAN /\ pending' \in BOOLEAN
  BY DEF TypeOK, Next, vars, Tick, SetBack, Evaluate,
     BeginStartupCheck, EndStartupCheck, SkipSelftest, RearmSelftest, ScheduledSelftest,
     ManualSelftest, HostsTested, FailuresSent, EndClusters, UpdateConfig, Reset, Crash, Start
<1>3. outage' \in BOOLEAN
  <2>1. outage' = FALSE \/ outage' = outage \/ outage' = ("outage" \in events)
    BY DEF Next, vars, Tick, SetBack, Evaluate,
       BeginStartupCheck, EndStartupCheck, SkipSelftest, RearmSelftest, ScheduledSelftest,
       ManualSelftest, HostsTested, FailuresSent, EndClusters, UpdateConfig, Reset, Crash, Start
  <2>2. ("outage" \in events) \in BOOLEAN
    OBVIOUS
  <2>3. outage \in BOOLEAN
    BY DEF TypeOK
  <2> QED BY <2>1, <2>2, <2>3
<1>4. pc' \in {"wait", "cluster", "node", "selftest", "testing"}
  BY DEF TypeOK, After, Next, vars, Tick, SetBack, Evaluate,
     BeginStartupCheck, EndStartupCheck, SkipSelftest, RearmSelftest, ScheduledSelftest,
     ManualSelftest, HostsTested, FailuresSent, EndClusters, UpdateConfig, Reset, Crash, Start
<1> QED BY <1>1, <1>2, <1>3, <1>4, TestTypes, LatchTypes, RecordTypes, CheckTypes
        DEF TypeOK, ATest, AnOutcome

-----------------------------------------------------------------------------
\* Nothing of the loop goes on in a process that ended.
LEMMA Stages ==
  ASSUME TypeOK, StageInv, [Next]_vars PROVE StageInv'
<1>1. (~up => pc = "wait")'
  <2>1. CASE up
    <3>1. up' = up \/ pc' = "wait"
      BY <2>1 DEF Next, vars, Tick, SetBack, Evaluate, BeginStartupCheck, EndStartupCheck,
         SkipSelftest, RearmSelftest, ScheduledSelftest, ManualSelftest, HostsTested,
         FailuresSent, EndClusters, UpdateConfig, Reset, Crash, Start
    <3> QED BY <2>1, <3>1
  <2>2. CASE ~up
    <3>1. pc = "wait"
      BY <2>2 DEF StageInv
    <3>2. pc' = pc \/ up' = TRUE \/ pc' = "wait"
      BY <2>2, <3>1 DEF Checks, Next, vars, Tick, SetBack, Evaluate, BeginStartupCheck,
         EndStartupCheck, SkipSelftest, RearmSelftest, ScheduledSelftest, ManualSelftest,
         HostsTested, FailuresSent, EndClusters, UpdateConfig, Reset, Crash, Start
    <3> QED BY <3>1, <3>2
  <2> QED BY <2>1, <2>2
<1>2. /\ (test["loop"].at = "checking" => pc \in Checks)'
      /\ (test["loop"].at \in {"hosts", "failing", "inspecting"} => pc = "testing")'
      /\ (test["manual"].at # "none" => test["manual"].force /\ up)'
  <2> DEFINE Shown == /\ test["loop"].at = "checking" => pc \in Checks
                      /\ test["loop"].at \in {"hosts", "failing", "inspecting"}
                           => pc = "testing"
                      /\ test["manual"].at # "none" => test["manual"].force /\ up
  <2> SUFFICES Shown'
    OBVIOUS
  <2>1. Shown /\ test \in [Runs -> ATest] /\ "manual" \in Runs /\ "loop" \in Runs
    BY DEF TypeOK, StageInv, ATest, Runs
  <2>2. ASSUME NEW c \in Checks, BeginStartupCheck(c) PROVE Shown'
    BY <2>1, <2>2 DEF BeginStartupCheck, Test
  <2>3. ASSUME NEW c \in Checks, EndStartupCheck(c) PROVE Shown'
    BY <2>1, <2>3 DEF EndStartupCheck, NoTest, Test
  <2>4. CASE RearmSelftest \/ ScheduledSelftest
    BY <2>1, <2>4 DEF RearmSelftest, ScheduledSelftest, Fresh, Test
  <2>5. CASE ManualSelftest
    BY <2>1, <2>5 DEF ManualSelftest, Fresh, Test
  <2>6. ASSUME NEW r \in Runs, NEW good \in SUBSET Hosts, HostsTested(r, good)
        PROVE  Shown'
    BY <2>1, <2>6 DEF HostsTested, TakeDown, Test
  <2>7. ASSUME NEW r \in Runs, FailuresSent(r) PROVE Shown'
    BY <2>1, <2>7 DEF FailuresSent, TakeDown, Test
  <2>8. ASSUME NEW r \in Runs, EndClusters(r) PROVE Shown'
    BY <2>1, <2>8 DEF EndClusters, NoTest, Test, Runs
  <2>9. ASSUME NEW s \in Schedules, UpdateConfig(s) PROVE Shown'
    BY <2>1, <2>9 DEF UpdateConfig, Test
  <2>10. CASE Crash
    BY <2>1, <2>10 DEF Crash, NoTest, Test
  <2>11. CASE Evaluate \/ SkipSelftest
    BY <2>1, <2>11 DEF Evaluate, SkipSelftest, Checks, ATest
  <2>12. CASE Start
    BY <2>1, <2>12 DEF Start
  <2>13. CASE UNCHANGED <<pc, test, up>>
    BY <2>1, <2>13
  <2> HIDE DEF Shown
  <2> QED
    BY <2>2, <2>3, <2>4, <2>5, <2>6, <2>7, <2>8, <2>9, <2>10, <2>11, <2>12, <2>13
    DEF Next, vars, Tick, SetBack, Reset
<1> QED BY <1>1, <1>2 DEF StageInv

\* The latch: the slot last tested stays in the file, and comes back from it.
LEMMA Latch ==
  ASSUME TypeOK, StageInv, SlotInv, [Next]_vars PROVE SlotInv'
<1>1. now \in Int /\ (tested # None => tested \in Int)
  BY SlotsAreInts, SelfTestAssumption DEF TypeOK
<1>2. CASE Tick
  BY <1>1, <1>2 DEF Tick, SlotInv, latch
<1>3. CASE SetBack
  BY <1>3 DEF SetBack, SlotInv
<1>4. CASE Evaluate
  BY <1>4 DEF Evaluate, Outcome, SlotInv
<1>5. CASE ScheduledSelftest
  BY <1>5, SlotType DEF ScheduledSelftest, LatchSlot, SlotInv, TypeOK
<1>6. CASE Crash
  BY <1>6 DEF Crash, SlotInv
<1>7. CASE Start
  BY <1>1, <1>7 DEF Start, Restored, SlotInv
<1>8. CASE UNCHANGED <<now, up, latch>>
  BY <1>8 DEF SlotInv, latch
<1> QED
  BY <1>2, <1>3, <1>4, <1>5, <1>6, <1>7, <1>8 DEF Next, vars, BeginStartupCheck,
     EndStartupCheck, SkipSelftest, RearmSelftest, ManualSelftest, HostsTested, FailuresSent,
     EndClusters, UpdateConfig, Reset

\* The startup checks: only a save undoes one, and it makes all of them due.
LEMMA ChecksSee ==
  ASSUME TypeOK, ChecksInv, [Next]_vars PROVE ChecksInv'
<1>1. /\ test \in [Runs -> ATest] /\ "manual" \in Runs /\ "loop" \in Runs
      /\ seen \in [Checks -> {"present", "past", "late"}] /\ "cluster" \in Checks
      /\ done \subseteq Checks
  BY DEF TypeOK, ATest, Runs, Checks
<1>2. ASSUME NEW c \in Checks, BeginStartupCheck(c) PROVE ChecksInv'
  BY <1>1, <1>2 DEF BeginStartupCheck, ChecksInv, Test
<1>3. ASSUME NEW c \in Checks, EndStartupCheck(c) PROVE ChecksInv'
  BY <1>1, <1>3 DEF EndStartupCheck, ChecksInv, Found, NoTest, Test
<1>4. CASE Evaluate
  BY <1>1, <1>4 DEF Evaluate, ChecksInv, Checks
<1>5. CASE SkipSelftest
  BY <1>1, <1>5 DEF SkipSelftest, ChecksInv, Checks
<1>6. CASE RearmSelftest \/ ScheduledSelftest
  <2>1. test'["loop"].past = FALSE
    BY <1>1, <1>6 DEF RearmSelftest, ScheduledSelftest, Fresh, Test
  <2>2. \A c \in done : seen[c] \in {"present", "late"}
    BY <1>1, <1>6 DEF RearmSelftest, ScheduledSelftest, ChecksInv, Checks
  <2>3. UNCHANGED <<done, seen>>
    BY <1>6 DEF RearmSelftest, ScheduledSelftest
  <2> QED BY <2>1, <2>2, <2>3 DEF ChecksInv
<1>7. CASE ManualSelftest
  BY <1>1, <1>7 DEF ManualSelftest, ChecksInv
<1>8. ASSUME NEW r \in Runs, NEW good \in SUBSET Hosts, HostsTested(r, good)
      PROVE  ChecksInv'
  BY <1>1, <1>8 DEF HostsTested, TakeDown, ChecksInv, Test
<1>9. ASSUME NEW r \in Runs, FailuresSent(r) PROVE ChecksInv'
  BY <1>1, <1>9 DEF FailuresSent, TakeDown, ChecksInv, Test
<1>10. ASSUME NEW r \in Runs, EndClusters(r) PROVE ChecksInv'
  BY <1>1, <1>10 DEF EndClusters, ChecksInv, Found, NoTest, Test, Runs
<1>11. ASSUME NEW s \in Schedules, UpdateConfig(s) PROVE ChecksInv'
  BY <1>11 DEF UpdateConfig, RepeatChecks, ChecksInv
<1>12. CASE Crash
  BY <1>1, <1>12 DEF Crash, ChecksInv, NoTest, Test
<1>13. CASE UNCHANGED <<done, seen, pc, test>>
  BY <1>13 DEF ChecksInv
<1> QED
  BY <1>2, <1>3, <1>4, <1>5, <1>6, <1>7, <1>8, <1>9, <1>10, <1>11, <1>12, <1>13
  DEF Next, vars, Tick, SetBack, Reset, Start

\* The green lines: only a failure, or the next day, opens the log again.
LEMMA Lines ==
  ASSUME TypeOK, StageInv, GreenInv, [Next]_vars PROVE GreenInv'
<1>1. /\ test \in [Runs -> ATest] /\ "manual" \in Runs /\ "loop" \in Runs
      /\ Today \in Int /\ green.lines \in 0 .. 2
      /\ green.day \in Int \cup {None} /\ None \notin Int
  BY TodayType, SelfTestAssumption DEF TypeOK, ATest, Runs
<1>2. CASE Tick
  <2>1. Today <= Today' /\ Today' \in Int
    BY <1>2, NextDay, SelfTestAssumption DEF Tick, Today, TypeOK
  <2> QED BY <1>1, <1>2, <2>1 DEF Tick, record, GreenInv
<1>3. CASE SetBack
  BY <1>3 DEF SetBack, GreenInv
<1>4. CASE Crash
  BY <1>4 DEF Crash, GreenInv
<1>5. CASE Start
  BY <1>5 DEF Start, GreenInv
<1>6. ASSUME NEW r \in Runs, NEW good \in SUBSET Hosts, HostsTested(r, good)
      PROVE  GreenInv'
  <2>1. Today' = Today /\ up' = up /\ up
    BY <1>1, <1>6 DEF HostsTested, Today, StageInv, ATest, Runs
  <2>2. CASE green' = green
    <3>1. /\ failing' = failing
          /\ IF good = Hosts
             THEN last_selftest_ok' = "ok" /\ last_selftest_ok_logged' = Today
             ELSE /\ UNCHANGED <<last_selftest_ok, last_selftest_ok_logged>>
                  /\ test["loop"].at = "failing" => test'["loop"].at = "failing"
      BY <1>1, <1>6, <2>2 DEF HostsTested, TakeDown, Test
    <3> QED BY <2>1, <2>2, <3>1 DEF GreenInv
  <2>3. CASE green' # green
    <3>1. Watched \in good /\ LogOk(r) /\ Routine(r, good) /\ green' = OneMore
      BY <1>6, <2>3 DEF HostsTested, Written
    <3>2. r = "loop" /\ ~test[r].force
      BY <1>6, <3>1 DEF Routine, HostsTested, StageInv, Runs
    <3>3. IF good = Hosts
          THEN /\ last_selftest_ok' = "ok" /\ last_selftest_ok_logged' = Today
          ELSE test'["loop"].at = "failing"
      BY <1>1, <1>6, <3>2 DEF HostsTested, TakeDown, Test
    <3>4. green'.day = Today /\ green'.lines \in 1 .. 2
      BY <3>1 DEF OneMore
    <3>5. CASE green.day # Today
      <4>1. green'.lines = 1
        BY <3>1, <3>5 DEF OneMore
      <4> QED BY <1>1, <2>1, <3>3, <3>4, <4>1 DEF GreenInv
    <3>6. CASE green.day = Today
      <4>1. failing
        <5>1. test["loop"].at = "hosts"
          BY <1>6, <3>2 DEF HostsTested
        <5>2. last_selftest_ok = "failed" \/ last_selftest_ok_logged # Today
          BY <3>1, <3>2 DEF LogOk, LogDaily
        <5>3. green.lines > 0
          BY <1>1, <3>6 DEF GreenInv
        <5> QED BY <3>6, <5>1, <5>2, <5>3 DEF GreenInv
      <4>2. green'.lines = 2
        BY <3>1, <3>6 DEF OneMore
      <4>3. failing' = TRUE
        BY <1>6, <2>3, <4>1, <4>2 DEF HostsTested
      <4> QED BY <1>1, <2>1, <3>4, <4>3 DEF GreenInv
    <3> QED BY <3>5, <3>6
  <2> QED BY <2>2, <2>3
<1>7. ASSUME NEW r \in Runs, FailuresSent(r) PROVE GreenInv'
  <2>1. Today' = Today /\ up' = up /\ green' = green /\ failing' = TRUE
    BY <1>7 DEF FailuresSent, Today
  <2> QED BY <2>1 DEF GreenInv
<1>8. ASSUME test'["loop"].at = "failing" <=> test["loop"].at = "failing",
             UNCHANGED <<now, up, record>>
      PROVE  GreenInv'
  BY <1>8 DEF GreenInv, record, Today
<1>9. ASSUME NEW r \in Runs, EndClusters(r) PROVE GreenInv'
  BY <1>1, <1>8, <1>9 DEF EndClusters, NoTest, Test
<1>10. ASSUME NEW c \in Checks, BeginStartupCheck(c) \/ EndStartupCheck(c)
       PROVE  GreenInv'
  BY <1>1, <1>8, <1>10 DEF BeginStartupCheck, EndStartupCheck, NoTest, Test
<1>11. CASE RearmSelftest \/ ManualSelftest
  BY <1>1, <1>8, <1>11 DEF RearmSelftest, ManualSelftest, Fresh, Test, StageInv
<1>12. CASE ScheduledSelftest
  BY <1>1, <1>8, <1>12 DEF ScheduledSelftest, Fresh, Test, StageInv
<1>13. ASSUME NEW s \in Schedules, UpdateConfig(s) PROVE GreenInv'
  BY <1>1, <1>8, <1>13 DEF UpdateConfig, Test
<1>14. CASE Evaluate \/ SkipSelftest \/ Reset \/ UNCHANGED vars
  BY <1>8, <1>14 DEF Evaluate, SkipSelftest, Reset, vars
<1> QED
  BY <1>2, <1>3, <1>4, <1>5, <1>6, <1>7, <1>9, <1>10, <1>11, <1>12, <1>13, <1>14 DEF Next

-----------------------------------------------------------------------------
\* Every step of the program keeps the invariant.
LEMMA Inductive == IInv /\ [Next]_vars => IInv'
BY Types, Stages, Latch, ChecksSee, Lines DEF IInv

\* The inductive invariant holds in every reachable state.
THEOREM Invariance == Spec => []IInv
<1> QED BY Initial, Inductive, PTL DEF Spec

\* Every variable has its type, the slots among them: no slot lies a day or more
\* before the clock that named it.
THEOREM TypeCorrect == Spec => []TypeOK
<1>1. IInv => TypeOK
  BY DEF IInv
<1> QED BY <1>1, Invariance, PTL

\* A startup check that counts as made has seen the configuration that was saved
\* last, or is just looking at it.
THEOREM ChecksCorrect == Spec => []ChecksSeeTheConfig
<1>1. IInv => ChecksSeeTheConfig
  BY DEF IInv, ChecksInv, ChecksSeeTheConfig
<1> QED BY <1>1, Invariance, PTL

\* A second routine line of a host on one day follows a failure.
THEOREM LinesCorrect == Spec => []OkLinesFollowFailures
<1>1. IInv => OkLinesFollowFailures
  BY DEF IInv, GreenInv, OkLinesFollowFailures
<1> QED BY <1>1, Invariance, PTL

\* No slot is tested twice, whatever crashes, saves and schedules come in between.
THEOREM SlotRunsOnceCorrect == Spec => SlotRunsOnce
<1>1. IInv /\ [Next]_vars => [ScheduledSelftest /\ tested # None =>
                                last_selftest_slot' > tested]_vars
  <2> SUFFICES ASSUME IInv, ScheduledSelftest, tested # None
               PROVE  last_selftest_slot' > tested
    OBVIOUS
  <2>1. last_selftest_slot = tested
    BY DEF IInv, StageInv, SlotInv, ScheduledSelftest
  <2> QED BY <2>1 DEF ScheduledSelftest, SlotIsDue, LatchSlot
<1> QED BY <1>1, Invariance, PTL DEF Spec, SlotRunsOnce

\* The self-test a re-arm asked for is run out of an outage, or lost with the
\* process.
THEOREM RearmTestIsKeptCorrect == Spec => RearmTestIsKept
<1>1. IInv /\ [Next]_vars => [pending /\ ~pending' =>
        ~up' \/ (~outage /\ cfg.enabled /\ test'["loop"].force)]_vars
  <2> SUFFICES ASSUME IInv, Next, pending, ~pending'
               PROVE  ~up' \/ (~outage /\ cfg.enabled /\ test'["loop"].force)
    OBVIOUS
  <2>1. test \in [Runs -> ATest] /\ "loop" \in Runs
    BY DEF IInv, TypeOK, ATest, Runs
  <2>2. RearmSelftest \/ Crash
    BY DEF Next, Tick, SetBack, Evaluate, BeginStartupCheck, EndStartupCheck, SkipSelftest,
       ScheduledSelftest, ManualSelftest, HostsTested, FailuresSent, EndClusters,
       UpdateConfig, Reset, Start
  <2>3. CASE RearmSelftest
    BY <2>1, <2>3 DEF RearmSelftest, MaySelftest, Fresh, Test
  <2>4. CASE Crash
    BY <2>4 DEF Crash
  <2> QED BY <2>2, <2>3, <2>4
<1> QED BY <1>1, Invariance, PTL DEF Spec, RearmTestIsKept

-----------------------------------------------------------------------------
(***************************************************************************)
(* The grid                                                                *)
(***************************************************************************)

\* A number is its quotient and its remainder.
LEMMA Quotient ==
  ASSUME NEW x \in Int, NEW i \in Nat \ {0}
  PROVE  x \div i \in Int /\ x = (i * (x \div i)) + (x % i)
BY SMT

\* Products are whole numbers; they distribute and associate.
LEMMA Products ==
  ASSUME NEW i \in Int, NEW x \in Int, NEW y \in Int
  PROVE  /\ i * x \in Int /\ (i * x) + (i * y) = i * (x + y)
         /\ (i * x) - (i * y) = i * (x - y) /\ (i * x) * y = i * (x * y)
<1>1. i * x \in Int
  BY SMT
<1>2. (i * x) + (i * y) = i * (x + y)
  BY SMT
<1>3. (i * x) - (i * y) = i * (x - y)
  BY SMT
<1>4. (i * x) * y = i * (x * y)
  BY SMT
<1> QED BY <1>1, <1>2, <1>3, <1>4

\* A positive multiple is not below its factor.
LEMMA Multiples ==
  ASSUME NEW i \in Nat \ {0}, NEW d \in Int
  PROVE  (d >= 1 => i * d >= i) /\ (d <= -1 => i * d <= -i)
<1>1. ASSUME d >= 1 PROVE i * d >= i
  BY <1>1, SMT
<1>2. ASSUME d <= -1 PROVE i * d <= -i
  BY <1>2, SMT
<1> QED BY <1>1, <1>2

\* A multiple leaves no remainder.
LEMMA NoRemainder ==
  ASSUME NEW i \in Nat \ {0}, NEW k \in Int PROVE (i * k) % i = 0
<1> DEFINE x == i * k
           q == x \div i
           r == x % i
<1>1. x \in Int
  BY Products
<1>2. q \in Int /\ x = (i * q) + r
  BY <1>1, Quotient
<1>3. r \in 0 .. i - 1
  BY <1>1, Remainder
<1>4. i * q \in Int /\ i * (k - q) = x - (i * q)
  <2>1. q \in Int
    BY <1>2
  <2> HIDE DEF q
  <2> QED BY <2>1, Products
<1> HIDE DEF q, r
<1>5. r = i * (k - q)
  <2> HIDE DEF x
  <2> DEFINE y == i * q
             z == i * (k - q)
  <2> SUFFICES r = z
    OBVIOUS
  <2>1. y \in Int /\ z = x - y /\ x = y + r
    BY <1>2, <1>4
  <2> HIDE DEF y, z
  <2> QED BY <1>1, <1>3, <2>1
<1>6. k - q \in Int
  BY <1>2
<1>7. ~(k - q >= 1) /\ ~(k - q <= -1)
  <2> DEFINE d == k - q
             z == i * d
  <2>1. d \in Int /\ z = r
    BY <1>5, <1>6
  <2>2. (d >= 1 => z >= i) /\ (d <= -1 => z <= -i)
    BY <2>1, Multiples
  <2> HIDE DEF d, z
  <2>3. ~(d >= 1) /\ ~(d <= -1)
    BY <2>1, <2>2, <1>3
  <2> QED BY <2>3 DEF d
<1>8. k = q
  BY <1>2, <1>7
<1>9. (i * k) % i = x - (i * k)
  BY <1>2, <1>3, <1>4, <1>5, <1>8 DEF r
<1> QED BY <1>1, <1>9

\* How long ago the slot began, and what it means to be a point of the grid.
AgeOfSlot(n, D, a, i) == ((n % D) - a) % i
IsPoint(t, a, i) == (t - a) % i = 0

\* Whole intervals before and after the minute of a day add up to a point.
LEMMA PointOfTheGrid ==
  ASSUME NEW n \in Int, NEW a \in Int, NEW minute \in Int, NEW age \in Int,
         NEW i \in Nat \ {0}, NEW x \in Int, NEW y \in Int,
         n = (i * x) + minute, minute - a = (i * y) + age
  PROVE  IsPoint(n - age, a, i)
<1> DEFINE u == i * x
           v == i * y
<1>1. u \in Int /\ v \in Int /\ u + v = i * (x + y) /\ x + y \in Int
  BY Products
<1>2. n = u + minute /\ minute - a = v + age
  OBVIOUS
<1> HIDE DEF u, v
<1>3. (n - age) - a = u + v
  BY <1>1, <1>2
<1>4. (u + v) % i = 0
  BY <1>1, NoRemainder
<1> QED BY <1>3, <1>4 DEF IsPoint

\* Where the slot is: a point of the grid, less than an interval ago.
LEMMA SlotIsAPoint ==
  ASSUME NEW n \in Nat, NEW D \in Nat \ {0}, NEW a \in Int, NEW i \in Nat \ {0},
         IsPoint(D, 0, i)
  PROVE  /\ AgeOfSlot(n, D, a, i) \in 0 .. i - 1
         /\ IsPoint(n - AgeOfSlot(n, D, a, i), a, i)
<1> DEFINE day == n \div D
           minute == n % D
           passed == (minute - a) \div i
           age == (minute - a) % i
           perDay == D \div i
<1>1. day \in Int /\ minute \in Int /\ n = (D * day) + minute
  <2>1. n \in Int
    OBVIOUS
  <2>2. minute \in Int
    BY <2>1, Remainder
  <2>3. day \in Int /\ n = (D * day) + minute
    BY <2>1, Quotient
  <2> QED BY <2>2, <2>3
<1>2. perDay \in Int /\ D = i * perDay
  <2>1. perDay \in Int /\ D = (i * perDay) + (D % i)
    BY Quotient
  <2>2. i * perDay \in Int /\ D % i = 0
    BY <2>1, Products DEF IsPoint
  <2> HIDE DEF perDay
  <2> QED BY <2>1, <2>2
<1>3. minute - a \in Int
  BY <1>1
<1>4. passed \in Int /\ minute - a = (i * passed) + age /\ age \in 0 .. i - 1
  BY <1>3, Quotient, Remainder
<1> HIDE DEF day, minute, passed, age, perDay
<1>5. age \in Int
  BY <1>4
<1>6. D * day = i * (perDay * day) /\ perDay * day \in Int
  BY <1>1, <1>2, Products
<1> DEFINE before == perDay * day
<1>7. before \in Int /\ n = (i * before) + minute
  BY <1>1, <1>6, Zenon
<1> HIDE DEF before
<1>8. n \in Int /\ minute \in Int /\ passed \in Int
  BY <1>1, <1>4
<1>9. minute - a = (i * passed) + age
  BY <1>4
<1>10. IsPoint(n - age, a, i)
  BY <1>5, <1>7, <1>8, <1>9, PointOfTheGrid, Zenon
<1> QED BY <1>4, <1>10 DEF age, minute, AgeOfSlot

\* Two points of the grid are an interval apart.
LEMMA PointsAreApart ==
  ASSUME NEW i \in Nat \ {0}, NEW a \in Int, NEW s \in Int, NEW t \in Int,
         IsPoint(s, a, i), IsPoint(t, a, i), s < t
  PROVE  s + i <= t
<1> DEFINE p == (s - a) \div i
           q == (t - a) \div i
<1>1. s - a \in Int /\ t - a \in Int
  OBVIOUS
<1>2. p \in Int /\ s - a = (i * p) + ((s - a) % i)
  BY <1>1, Quotient
<1>3. q \in Int /\ t - a = (i * q) + ((t - a) % i)
  BY <1>1, Quotient
<1> HIDE DEF p, q
<1>4. i * p \in Int /\ i * q \in Int /\ (i * q) - (i * p) = i * (q - p)
  BY <1>2, <1>3, Products
<1>5. s - a = i * p /\ t - a = i * q
  BY <1>2, <1>3, <1>4 DEF IsPoint
<1> DEFINE d == q - p
           z == i * d
<1>6. d \in Int /\ (d >= 1 => z >= i) /\ (d <= -1 => z <= -i) /\ (d = 0 => z = 0)
  BY <1>2, <1>3, Multiples
<1>7. z = t - s
  BY <1>4, <1>5
<1> HIDE DEF d, z
<1> QED BY <1>6, <1>7

\* The slot is the last point of the grid, whatever day and interval.
THEOREM SlotIsGridPointCorrect == Spec => []SlotIsGridPoint
<1>1. TypeOK => SlotIsGridPoint
  <2> SUFFICES ASSUME TypeOK, NEW a \in 0 .. DayLength - 1,
                      NEW i \in {k \in 1 .. DayLength : DayLength % k = 0}
               PROVE  LET slot == SelftestSlot(now, [anchor |-> a, interval |-> i])
                          grid == {t \in now - DayLength .. now : (t - a) % i = 0}
                      IN slot \in grid /\ \A t \in grid : t <= slot
    BY DEF SlotIsGridPoint
  <2> DEFINE slot == SelftestSlot(now, [anchor |-> a, interval |-> i])
             grid == {t \in now - DayLength .. now : (t - a) % i = 0}
  <2>1. now \in Nat /\ DayLength \in Nat \ {0} /\ a \in Int
    BY SelfTestAssumption DEF TypeOK
  <2>2. i \in Nat \ {0} /\ i <= DayLength /\ IsPoint(DayLength, 0, i)
    BY <2>1 DEF IsPoint
  <2> DEFINE age == AgeOfSlot(now, DayLength, a, i)
  <2>3. slot = now - age
    BY DEF SelftestSlot, AgeOfSlot
  <2>4. slot \in Int /\ slot \in (now - i) + 1 .. now /\ IsPoint(slot, a, i)
    <3>1. age \in 0 .. i - 1 /\ IsPoint(now - age, a, i)
      BY <2>1, <2>2, SlotIsAPoint
    <3> HIDE DEF slot, age
    <3>2. IsPoint(slot, a, i)
      BY <2>3, <3>1, Zenon
    <3>3. slot \in Int /\ slot \in (now - i) + 1 .. now
      BY <2>1, <2>2, <2>3, <3>1
    <3> QED BY <3>2, <3>3
  <2> HIDE DEF slot
  <2>5. slot \in now - DayLength .. now
    BY <2>1, <2>2, <2>4
  <2>6. ASSUME NEW t \in grid PROVE t <= slot
    <3>1. t \in Int /\ t <= now /\ IsPoint(t, a, i)
      BY <2>1 DEF IsPoint
    <3>2. ~(slot < t)
      <4>1. slot < t => slot + i <= t
        BY <2>1, <2>2, <2>4, <3>1, PointsAreApart
      <4> QED BY <2>1, <2>2, <2>4, <3>1, <4>1
    <3> QED BY <2>4, <3>1, <3>2
  <2>7. slot \in grid
    BY <2>4, <2>5 DEF IsPoint
  <2> QED BY <2>6, <2>7 DEF slot
<1>2. IInv => TypeOK
  BY DEF IInv
<1> QED BY Invariance, <1>1, <1>2, PTL
=============================================================================
